----------------------------- MODULE Mio0_proofs -----------------------------
(***************************************************************************)
(* For every file, window and longest copy: what mio0_decode makes of what *)
(* mio0_encode wrote is the file again, it reads exactly what was written, *)
(* and the encoder's buffers suffice for every file that is not empty.     *)
(***************************************************************************)
EXTENDS Mio0, FiniteSetTheorems, TLAPS

(* The least element of a set of numbers: inductions look at the least       *)
(* counterexample.                                                          *)
LEMMA Least ==
    ASSUME NEW T, T \subseteq Nat, T # {}
    PROVE  \E x \in T : \A y \in T : x <= y
<1>1. PICK x \in T : \A y \in T : ~(<<y, x>> \in OpToRel(<, Nat))
  BY NatLessThanWellFounded, WFMin, Zenon
<1>2. \A y \in T : ~(y < x)
  BY <1>1 DEF OpToRel
<1> QED BY <1>2

-----------------------------------------------------------------------------
(* find_longest returns a match.                                            *)
LEMMA SameIs ==
    ASSUME NEW a \in Nat, NEW b \in Nat, NEW n \in Nat
    PROVE  /\ Same(a, b, n) \in 0 .. n
           /\ \A i \in 0 .. (Same(a, b, n) - 1) : in[a + i] = in[b + i]
           /\ Same(a, b, n) < n => in[a + Same(a, b, n)] # in[b + Same(a, b, n)]
<1> DEFINE T == {k \in 0 .. n : k < n => in[a + k] # in[b + k]}
<1>1. T \subseteq Nat /\ n \in T  OBVIOUS
<1>2. PICK k \in T : \A j \in T : k <= j  BY <1>1, Least
<1>3. k \in 0 .. n /\ (k < n => in[a + k] # in[b + k])  OBVIOUS
<1>4. ASSUME NEW i \in 0 .. (k - 1)  PROVE in[a + i] = in[b + i]
  <2>1. i \in 0 .. n /\ i < k /\ i < n  BY <1>3
  <2>2. i \notin T  BY <1>2, <2>1
  <2> QED  BY <2>1, <2>2
<1> HIDE DEF T
<1> DEFINE P(j) == /\ \A i \in 0 .. (j - 1) : in[a + i] = in[b + i]
                   /\ j < n => in[a + j] # in[b + j]
<1>5. \E j \in 0 .. n : P(j)  BY <1>3, <1>4
<1>6. Same(a, b, n) = CHOOSE j \in 0 .. n : P(j)  BY DEF Same
<1>7. Same(a, b, n) \in 0 .. n /\ P(Same(a, b, n))
  <2> HIDE DEF P
  <2> QED  BY <1>5, <1>6
<1> QED  BY <1>7

LEMMA SameFacts ==
    ASSUME NEW a \in Nat, NEW b \in Nat, NEW n \in Nat
    PROVE  /\ Same(a, b, n) \in 0 .. n
           /\ \A i \in 0 .. (Same(a, b, n) - 1) : in[a + i] = in[b + i]
BY SameIs

LEMMA SameStops ==
    ASSUME NEW a \in Nat, NEW b \in Nat, NEW n \in Nat, Same(a, b, n) < n
    PROVE  in[a + Same(a, b, n)] # in[b + Same(a, b, n)]
BY SameIs

\* also where the comparison has started over
LEMMA MatchFacts ==
    ASSUME NEW off \in Nat, NEW s \in Nat, off < s, NEW max \in Nat
    PROVE  /\ MatchLength(off, s, max) \in 0 .. max
           /\ \A i \in 0 .. (MatchLength(off, s, max) - 1) :
                 in[s + i] = in[off + i]
<1> DEFINE d == s - off
           until == Lesser(max, d)
           first == Same(s, off, until)
           again == Same(s + first, off, max - first)
<1>1. /\ d \in Nat /\ d > 0 /\ s = off + d
      /\ until \in Nat /\ until <= max /\ until <= d
      /\ until = max \/ until = d
  BY DEF Lesser
<1>2. MatchLength(off, s, max) = IF first = until THEN first + again ELSE first
  BY DEF MatchLength
<1> HIDE DEF until, d
<1>3. /\ first \in 0 .. until
      /\ \A i \in 0 .. (first - 1) : in[s + i] = in[off + i]
  BY <1>1, SameFacts
<1> HIDE DEF first
<1>4. first \in Nat /\ first <= until /\ first <= max /\ first \in 0 .. max
  BY <1>1, <1>3
<1>5. CASE first # until
  <2>1. MatchLength(off, s, max) = first  BY <1>2, <1>5
  <2> QED  BY <1>3, <1>4, <2>1
<1>6. CASE first = until
  <2>1. s + first \in Nat /\ max - first \in Nat  BY <1>4
  <2>2. /\ again \in 0 .. (max - first)
        /\ \A i \in 0 .. (again - 1) : in[s + first + i] = in[off + i]
    BY <2>1, SameFacts
  <2> HIDE DEF again
  <2>3. MatchLength(off, s, max) = first + again  BY <1>2, <1>6
  <2>4. again \in Nat /\ again <= max - first /\ first + again \in 0 .. max
    BY <1>4, <2>2
  <2>5. \A j \in 0 .. (first + again - 1) : in[s + j] = in[off + j]
    <3> DEFINE T == {k \in 0 .. (first + again - 1) : in[s + k] # in[off + k]}
    <3> SUFFICES ASSUME T # {}  PROVE FALSE  OBVIOUS
    <3>1. T \subseteq Nat  BY <1>4, <2>4
    <3>2. PICK k \in T : \A l \in T : k <= l
      <4> HIDE DEF T
      <4> QED  BY <3>1, Least
    <3>3. k \in Nat /\ k < first + again /\ in[s + k] # in[off + k]
      BY <1>4, <2>4
    <3>4. k >= first
      <4> SUFFICES ASSUME k < first PROVE FALSE  BY <1>4, <3>3
      <4>1. k \in 0 .. (first - 1)  BY <1>4, <3>3
      <4> QED  BY <1>3, <3>3, <4>1
    <3>5. k - first \in 0 .. (again - 1) /\ again > 0
      BY <1>4, <2>4, <3>3, <3>4
    <3>6. first = d  BY <1>1, <1>4, <1>6, <2>4, <3>5
    <3>7. in[s + k] = in[off + (k - d)]
      <4>1. in[s + first + (k - first)] = in[off + (k - first)]
        BY <2>2, <3>5
      <4>2. s + first + (k - first) = s + k  BY <1>4, <3>3
      <4> QED  BY <3>6, <4>1, <4>2
    <3>8. k - d \in 0 .. (first + again - 1) /\ k - d < k
      BY <1>1, <1>4, <2>4, <3>3, <3>4, <3>6
    <3>9. in[s + (k - d)] = in[off + (k - d)]
      <4>1. k - d \notin T
        <5>1. ~(k <= k - d)  BY <1>1, <3>3
        <5> QED  BY <3>2, <5>1
      <4> QED  BY <3>8, <4>1
    <3>10. s + (k - d) = off + k  BY <1>1, <3>3
    <3> QED  BY <3>3, <3>7, <3>9, <3>10
  <2> DEFINE found == MatchLength(off, s, max)
  <2>6. found = first + again  BY <2>3
  <2> HIDE DEF found
  <2>7. /\ found \in 0 .. max
        /\ \A i \in 0 .. (found - 1) : in[s + i] = in[off + i]
    BY <1>4, <2>4, <2>5, <2>6
  <2> QED  BY <2>7 DEF found
<1> QED  BY <1>5, <1>6

\* starting over, it loses nothing of the match
LEMMA MatchIsWhole ==
    ASSUME NEW off \in Nat, NEW s \in Nat, off < s, NEW max \in Nat
    PROVE  Same(s, off, max) <= MatchLength(off, s, max)
<1> DEFINE d == s - off
           until == Lesser(max, d)
           first == Same(s, off, until)
           again == Same(s + first, off, max - first)
           whole == Same(s, off, max)
<1>1. /\ d \in Nat /\ d > 0 /\ s = off + d
      /\ until \in Nat /\ until <= max /\ until <= d
      /\ until = max \/ until = d
  BY DEF Lesser
<1>2. MatchLength(off, s, max) = IF first = until THEN first + again ELSE first
  BY DEF MatchLength
<1> HIDE DEF until, d
<1>3. first \in 0 .. until /\ (first < until => in[s + first] # in[off + first])
  <2>1. first \in 0 .. until  BY <1>1, SameFacts
  <2>2. ASSUME first < until  PROVE in[s + first] # in[off + first]
    BY <1>1, <2>2, SameStops
  <2> QED  BY <2>1, <2>2
<1>4. /\ whole \in 0 .. max
      /\ \A i \in 0 .. (whole - 1) : in[s + i] = in[off + i]
  BY SameFacts
<1> HIDE DEF first, whole
<1>5. CASE first < until
  <2>1. whole <= first
    <3> SUFFICES ASSUME whole > first PROVE FALSE  BY <1>3, <1>4
    <3>1. first \in 0 .. (whole - 1)  BY <1>1, <1>3, <1>4
    <3> QED  BY <1>3, <1>4, <1>5, <3>1
  <2> QED  BY <1>1, <1>2, <1>3, <1>5, <2>1 DEF whole
<1>6. CASE first = until
  <2>1. s + first \in Nat /\ max - first \in Nat /\ first \in Nat
    BY <1>1, <1>3, <1>6
  <2>2. again \in 0 .. (max - first)
        /\ (again < max - first => in[s + first + again] # in[off + again])
    <3> DEFINE at == s + first
               room == max - first
    <3>1. at \in Nat /\ room \in Nat  BY <2>1
    <3> HIDE DEF at, room
    <3>2. Same(at, off, room) \in 0 .. room  BY <3>1, SameFacts
    <3>3. Same(at, off, room) < room =>
             in[at + Same(at, off, room)] # in[off + Same(at, off, room)]
      BY <3>1, SameStops
    <3> QED  BY <3>2, <3>3 DEF at, room
  <2> HIDE DEF again
  <2>3. whole <= first + again
    <3> SUFFICES ASSUME whole > first + again PROVE FALSE
      BY <1>4, <2>1, <2>2
    <3>1. again < max - first /\ first + again \in 0 .. (whole - 1)
          /\ again \in 0 .. (whole - 1)
      BY <1>4, <2>1, <2>2
    <3>2. first = d  BY <1>1, <1>6, <2>1, <2>2, <3>1
    <3>3. in[s + (first + again)] = in[off + (first + again)]
          /\ in[s + again] = in[off + again]
      BY <1>4, <3>1
    <3>4. /\ s + (first + again) = s + first + again
          /\ off + (first + again) = s + again
      BY <1>1, <2>1, <2>2, <3>2
    <3> QED  BY <2>2, <3>1, <3>3, <3>4
  <2> QED  BY <1>2, <1>6, <2>3 DEF whole
<1> QED  BY <1>1, <1>3, <1>5, <1>6

LEMMA LongestFacts ==
    ASSUME NEW s \in Nat, NEW max \in Nat, NEW lists, lists \subseteq Nat \ {0}
    PROVE  LET found == FindLongest(s, max, lists)
           IN  /\ found.len \in 0 .. max
               /\ found.len > 0 =>
                     /\ found.dist \in 1 .. Window /\ found.dist < s
                     /\ \A i \in 0 .. (found.len - 1) :
                           in[s + i] = in[s + i - found.dist]
               /\ \A p \in Candidates(s, lists) :
                     MatchLength(p, s, max) <= found.len
<1> DEFINE M == {[len |-> MatchLength(p, s, max), dist |-> s - p] :
                   p \in Candidates(s, lists)}
           Good(y) == /\ y.len \in 0 .. max
                      /\ y.dist \in 1 .. Window /\ y.dist < s
                      /\ \A i \in 0 .. (y.len - 1) : in[s + i] = in[s + i - y.dist]
<1>1. \A y \in M : Good(y)
  <2> SUFFICES ASSUME NEW p \in Candidates(s, lists)
               PROVE  Good([len |-> MatchLength(p, s, max), dist |-> s - p])
    OBVIOUS
  <2>1. p \in Nat \ {0} /\ p < s /\ p >= Farthest(s)
    BY DEF Candidates, Skip
  <2>2. s - p \in 1 .. Window /\ s - p < s
    BY <2>1, ConstantsAssumption DEF Farthest, Greater
  <2>3. /\ MatchLength(p, s, max) \in 0 .. max
        /\ \A i \in 0 .. (MatchLength(p, s, max) - 1) : in[s + i] = in[p + i]
    BY <2>1, MatchFacts
  <2>4. \A i \in 0 .. (MatchLength(p, s, max) - 1) : s + i - (s - p) = p + i
    BY <2>1, <2>3
  <2> QED  BY <2>2, <2>3, <2>4
<1>2. CASE M = {}
  <2>1. FindLongest(s, max, lists) = [len |-> 0, dist |-> 0]
    BY <1>2 DEF FindLongest
  <2>2. Candidates(s, lists) = {}  BY <1>2
  <2> QED  BY <2>1, <2>2
<1>3. CASE M # {}
  <2>1. FindLongest(s, max, lists) = CHOOSE y \in M : \A x \in M : Longer(x, y)
    BY <1>3 DEF FindLongest
  <2>2. \A y \in M : y.len \in 0 .. max /\ y.dist \in 1 .. Window  BY <1>1
  <2> HIDE DEF M
  <2>3. \E y \in M : \A x \in M : Longer(x, y)
    <3> DEFINE T == {max - y.len : y \in M}
    <3>1. T \subseteq Nat /\ T # {}  BY <1>3, <2>2
    <3>2. PICK t \in T : \A u \in T : t <= u
      <4> HIDE DEF T
      <4> QED  BY <3>1, Least
    <3>3. PICK y \in M : t = max - y.len  OBVIOUS
    <3>4. \A x \in M : x.len <= y.len
      <4> SUFFICES ASSUME NEW x \in M PROVE x.len <= y.len  OBVIOUS
      <4>1. max - y.len <= max - x.len  BY <3>2, <3>3
      <4> QED  BY <2>2, <4>1
    <3> DEFINE U == {Window - x.dist : x \in {z \in M : z.len = y.len}}
    <3>5. U \subseteq Nat /\ U # {}  BY <2>2, ConstantsAssumption
    <3>6. PICK u \in U : \A v \in U : u <= v
      <4> HIDE DEF U
      <4> QED  BY <3>5, Least
    <3>7. PICK z \in M : z.len = y.len /\ u = Window - z.dist  OBVIOUS
    <3>8. ASSUME NEW x \in M  PROVE Longer(x, z)
      <4>1. CASE x.len < z.len  BY <4>1 DEF Longer
      <4>2. CASE x.len = z.len
        <5>1. Window - z.dist <= Window - x.dist  BY <3>6, <3>7, <4>2
        <5>2. x.dist <= z.dist  BY <2>2, <5>1, ConstantsAssumption
        <5> QED  BY <4>2, <5>2 DEF Longer
      <4> QED  BY <2>2, <3>4, <3>7, <4>1, <4>2
    <3> QED  BY <3>8
  <2>4. /\ FindLongest(s, max, lists) \in M
        /\ \A x \in M : Longer(x, FindLongest(s, max, lists))
    BY <2>1, <2>3
  <2>5. \A x \in M : x.len <= FindLongest(s, max, lists).len
    BY <2>2, <2>4 DEF Longer
  <2>6. \A p \in Candidates(s, lists) :
           MatchLength(p, s, max) <= FindLongest(s, max, lists).len
    <3>1. \A p \in Candidates(s, lists) :
             [len |-> MatchLength(p, s, max), dist |-> s - p] \in M
      BY DEF M
    <3> QED  BY <2>5, <3>1
  <2> QED  BY <1>1, <2>4, <2>6
<1> QED  BY <1>2, <1>3

-----------------------------------------------------------------------------
(* What the encoder has written, when it has dealt with the first p bytes:  *)
(* b, c and u are its three buffers, st where its tokens start.             *)

File == length \in Nat /\ in \in [1 .. length -> Byte]

Starts == [pos : Nat, comp : Nat, uncomp : Nat]

Streams(b, c, u, st) ==
    /\ b \in Seq({0, 1}) /\ c \in Seq(Codes) /\ u \in Seq(Byte)
    /\ st \in Seq(Starts)

\* the token stands for the bytes from a.pos to z.pos
LiteralToken(a, z, u) ==
    /\ a.uncomp + 1 <= Len(u)
    /\ length > 0 => u[a.uncomp + 1] = in[a.pos + 1]
    /\ z = Start(a.pos + 1, a.comp, a.uncomp + 1)

CopyToken(a, z, c) ==
    /\ a.comp + 1 <= Len(c)
    /\ CodeDist(c[a.comp + 1]) <= a.pos
    /\ \A i \in 1 .. CodeLength(c[a.comp + 1]) :
          in[a.pos + i] = in[a.pos + i - CodeDist(c[a.comp + 1])]
    /\ z = Start(a.pos + CodeLength(c[a.comp + 1]), a.comp + 1, a.uncomp)

Token(k, p, b, c, u, st) ==
    /\ b[k] = 1 => LiteralToken(st[k], st[k + 1], u)
    /\ b[k] = 0 => CopyToken(st[k], st[k + 1], c)
    /\ st[k + 1].pos <= p

EncInv(p, b, c, u, st) ==
    /\ p \in 0 .. Greater(length, 1)
    /\ Streams(b, c, u, st)
    /\ Len(st) = Len(b) + 1 /\ Len(b) = Len(c) + Len(u)
    /\ Len(u) + 3 * Len(c) <= p
    /\ st[1] = Start(0, 0, 0)
    /\ st[Len(b) + 1] = Start(p, Len(c), Len(u))
    /\ \A k \in 1 .. Len(b) : Token(k, p, b, c, u, st)

Begins(x, y) == Len(x) <= Len(y) /\ \A i \in 1 .. Len(x) : y[i] = x[i]

LEMMA ElementOf ==
    ASSUME NEW S, NEW x \in Seq(S)
    PROVE  Len(x) \in Nat /\ \A i \in 1 .. Len(x) : x[i] \in S
OBVIOUS

LEMMA AppendBegins ==
    ASSUME NEW S, NEW x \in Seq(S), NEW e \in S
    PROVE  /\ Append(x, e) \in Seq(S) /\ Len(Append(x, e)) = Len(x) + 1
           /\ Append(x, e)[Len(x) + 1] = e /\ Begins(x, Append(x, e))
BY DEF Begins

\* what is appended changes no token
LEMMA TokenStays ==
    ASSUME NEW p \in Nat, NEW b, NEW c, NEW u, NEW st, Streams(b, c, u, st),
           NEW q \in Nat, NEW b2, NEW c2, NEW u2, NEW st2,
           Streams(b2, c2, u2, st2), p <= q,
           Begins(b, b2), Begins(c, c2), Begins(u, u2), Begins(st, st2),
           NEW k \in 1 .. Len(b), Len(st) = Len(b) + 1,
           Token(k, p, b, c, u, st)
    PROVE  Token(k, q, b2, c2, u2, st2)
<1> DEFINE a == st[k]
           z == st[k + 1]
<1>1. b2[k] = b[k] /\ st2[k] = a /\ st2[k + 1] = z
  <2>1. Len(b) \in Nat /\ Len(st) \in Nat  BY DEF Streams
  <2>2. k \in 1 .. Len(st) /\ k + 1 \in 1 .. Len(st)  BY <2>1
  <2> QED  BY <2>2 DEF Begins
<1>2. a \in Starts /\ z \in Starts
  <2>1. Len(b) \in Nat /\ Len(st) \in Nat  BY ElementOf DEF Streams
  <2>2. k \in 1 .. Len(st) /\ k + 1 \in 1 .. Len(st)  BY <2>1
  <2> QED  BY <2>2, ElementOf DEF Streams
<1>3. Len(c) \in Nat /\ Len(u) \in Nat /\ Len(c2) \in Nat /\ Len(u2) \in Nat
      /\ Len(c) <= Len(c2) /\ Len(u) <= Len(u2)
  BY ElementOf DEF Streams, Begins
<1>4. z.pos <= q
  <2>1. z.pos \in Nat /\ z.pos <= p  BY <1>2 DEF Token, Starts
  <2> QED  BY <2>1
<1> HIDE DEF a, z
<1> USE DEF Starts
<1>5. CASE b[k] = 1
  <2>1. LiteralToken(a, z, u)  BY <1>5 DEF Token, a, z
  <2>2. a.uncomp + 1 \in 1 .. Len(u)  BY <1>2, <1>3, <2>1 DEF LiteralToken
  <2>3. u2[a.uncomp + 1] = u[a.uncomp + 1]  BY <2>2 DEF Begins
  <2>4. LiteralToken(a, z, u2)  BY <1>2, <1>3, <2>1, <2>3 DEF LiteralToken
  <2> QED  BY <1>1, <1>4, <1>5, <2>4 DEF Token
<1>6. CASE b[k] = 0
  <2>1. CopyToken(a, z, c)  BY <1>6 DEF Token, a, z
  <2>2. a.comp + 1 \in 1 .. Len(c)  BY <1>2, <1>3, <2>1 DEF CopyToken
  <2>3. c2[a.comp + 1] = c[a.comp + 1]  BY <2>2 DEF Begins
  <2>4. a.comp + 1 <= Len(c2)  BY <1>2, <1>3, <2>2
  <2>5. CopyToken(a, z, c2)  BY <2>1, <2>3, <2>4 DEF CopyToken
  <2> QED  BY <1>1, <1>4, <1>6, <2>5 DEF Token
<1>7. b[k] \in {0, 1}  BY DEF Streams
<1> QED  BY <1>5, <1>6, <1>7

LEMMA StartIn ==
    ASSUME NEW p \in Nat, NEW c \in Nat, NEW u \in Nat
    PROVE  Start(p, c, u) \in Starts
BY DEF Start, Starts

\* a token more, with the bytes from p to q
LEMMA AddToken ==
    ASSUME File, NEW p, NEW b, NEW c, NEW u, NEW st, EncInv(p, b, c, u, st),
           NEW t \in {0, 1}, NEW q \in Nat, p <= q, q <= Greater(length, 1),
           NEW c2 \in Seq(Codes), Begins(c, c2),
           NEW u2 \in Seq(Byte), Begins(u, u2),
           Len(b) + 1 = Len(c2) + Len(u2), Len(u2) + 3 * Len(c2) <= q,
           t = 1 => LiteralToken(Start(p, Len(c), Len(u)),
                                 Start(q, Len(c2), Len(u2)), u2),
           t = 0 => CopyToken(Start(p, Len(c), Len(u)),
                              Start(q, Len(c2), Len(u2)), c2)
    PROVE  EncInv(q, Append(b, t), c2, u2,
                  Append(st, Start(q, Len(c2), Len(u2))))
<1> DEFINE b2 == Append(b, t)
           s == Start(q, Len(c2), Len(u2))
           st2 == Append(st, s)
<1>1. /\ p \in Nat /\ Streams(b, c, u, st)
      /\ Len(b) \in Nat /\ Len(st) = Len(b) + 1
      /\ Len(c2) \in Nat /\ Len(u2) \in Nat
  <2>1. Streams(b, c, u, st) /\ Len(st) = Len(b) + 1  BY DEF EncInv
  <2>2. p \in 0 .. Greater(length, 1)  BY DEF EncInv
  <2>3. p \in Nat  BY <2>2 DEF File, Greater
  <2> QED  BY <2>1, <2>3, ElementOf DEF Streams
<1>2. s \in Starts  BY <1>1, StartIn
<1> HIDE DEF s
<1>3. /\ b2 \in Seq({0, 1}) /\ Len(b2) = Len(b) + 1
      /\ b2[Len(b) + 1] = t /\ Begins(b, b2)
  BY <1>1, AppendBegins DEF Streams
<1>4. /\ st2 \in Seq(Starts) /\ Len(st2) = Len(b) + 2
      /\ st2[Len(b) + 2] = s /\ Begins(st, st2)
  <2>1. st \in Seq(Starts)  BY <1>1 DEF Streams
  <2>2. /\ st2 \in Seq(Starts) /\ Len(st2) = Len(st) + 1
        /\ st2[Len(st) + 1] = s /\ Begins(st, st2)
    BY <1>2, <2>1, AppendBegins
  <2> QED  BY <1>1, <2>2
<1>5. Streams(b2, c2, u2, st2)  BY <1>3, <1>4 DEF Streams
<1>6. st2[Len(b) + 1] = Start(p, Len(c), Len(u)) /\ st2[1] = Start(0, 0, 0)
  <2>1. 1 \in 1 .. Len(st) /\ Len(b) + 1 \in 1 .. Len(st)  BY <1>1
  <2> QED  BY <1>4, <2>1 DEF Begins, EncInv
<1> HIDE DEF b2, st2
<1>7. ASSUME NEW k \in 1 .. Len(b2)  PROVE Token(k, q, b2, c2, u2, st2)
  <2>1. CASE k \in 1 .. Len(b)
    <3>1. Token(k, p, b, c, u, st)  BY <2>1 DEF EncInv
    <3> QED  BY <1>1, <1>3, <1>4, <1>5, <2>1, <3>1, TokenStays
  <2>2. CASE k = Len(b) + 1
    <3>1. b2[k] = t /\ st2[k] = Start(p, Len(c), Len(u)) /\ st2[k + 1] = s
      BY <1>1, <1>3, <1>4, <1>6, <2>2
    <3>2. s.pos = q  BY DEF s, Start
    <3> QED  BY <3>1, <3>2 DEF Token, s
  <2> QED  BY <1>1, <1>3, <2>1, <2>2
<1>8. EncInv(q, b2, c2, u2, st2)
  <2>1. q \in 0 .. Greater(length, 1)  BY DEF File, Greater
  <2>2. st2[Len(b2) + 1] = s  BY <1>1, <1>3, <1>4
  <2>3. Len(st2) = Len(b2) + 1 /\ Len(b2) = Len(c2) + Len(u2)
    BY <1>1, <1>3, <1>4
  <2> QED  BY <1>5, <1>6, <1>7, <2>1, <2>2, <2>3 DEF EncInv, s
<1> QED  BY <1>8 DEF b2, st2, s

LEMMA AddLiteral ==
    ASSUME File, NEW p, NEW b, NEW c, NEW u, NEW st, EncInv(p, b, c, u, st),
           NEW x \in Byte, p + 1 <= Greater(length, 1),
           length > 0 => x = in[p + 1]
    PROVE  EncInv(p + 1, Append(b, 1), c, Append(u, x),
                  Append(st, Start(p + 1, Len(c), Len(u) + 1)))
<1>1. /\ p \in Nat /\ c \in Seq(Codes) /\ u \in Seq(Byte)
      /\ Len(b) \in Nat /\ Len(c) \in Nat /\ Len(u) \in Nat
      /\ Len(b) = Len(c) + Len(u) /\ Len(u) + 3 * Len(c) <= p
  <2>1. p \in 0 .. Greater(length, 1) /\ Streams(b, c, u, st)  BY DEF EncInv
  <2>2. p \in Nat  BY <2>1 DEF File, Greater
  <2> QED  BY <2>1, <2>2, ElementOf DEF Streams, EncInv
<1> DEFINE u2 == Append(u, x)
<1>2. /\ u2 \in Seq(Byte) /\ Len(u2) = Len(u) + 1
      /\ u2[Len(u) + 1] = x /\ Begins(u, u2)
  BY <1>1, AppendBegins
<1> HIDE DEF u2
<1>3. LiteralToken(Start(p, Len(c), Len(u)),
                   Start(p + 1, Len(c), Len(u2)), u2)
  BY <1>1, <1>2 DEF LiteralToken, Start
<1>4. Begins(c, c)  BY <1>1 DEF Begins
<1>5. /\ p + 1 \in Nat /\ p <= p + 1 /\ Len(b) + 1 = Len(c) + Len(u2)
      /\ Len(u2) + 3 * Len(c) <= p + 1
  BY <1>1, <1>2
<1>6. EncInv(p + 1, Append(b, 1), c, u2,
             Append(st, Start(p + 1, Len(c), Len(u2))))
  <2>1. 1 \in {0, 1} /\ ~(1 = 0)  OBVIOUS
  <2>2. 1 = 0 => CopyToken(Start(p, Len(c), Len(u)),
                           Start(p + 1, Len(c), Len(u2)), c)
    BY <2>1
  <2> QED  BY <1>1, <1>2, <1>3, <1>4, <1>5, <2>1, <2>2, AddToken
<1> QED  BY <1>2, <1>6 DEF u2

\* what the two bytes of a copy hold is what was put in
LEMMA CodeFacts ==
    ASSUME NEW match, match.len \in MinMatch .. MaxMatch,
           match.dist \in 1 .. Window
    PROVE  /\ Code(match) \in Codes
           /\ CodeLength(Code(match)) = match.len
           /\ CodeDist(Code(match)) = match.dist
<1>1. /\ Lengths \in Nat /\ match.len - MinMatch \in 0 .. (Lengths - 1)
      /\ match.dist - 1 \in 0 .. (Window - 1)
  BY ConstantsAssumption DEF Lengths, MinMatch
<1>2. \A n \in Nat : \A i \in 0 .. (n - 1) : i % n = i
  <2> SUFFICES ASSUME NEW n \in Nat, NEW i \in 0 .. (n - 1)
               PROVE  i % n = i
    OBVIOUS
  <2>1. n > 0 /\ i = n * (i \div n) + (i % n) /\ i % n \in 0 .. (n - 1)
    OBVIOUS
  <2> QED  BY <2>1
<1>3. /\ (match.len - MinMatch) % Lengths = match.len - MinMatch
      /\ (match.dist - 1) % Window = match.dist - 1
  BY <1>1, <1>2, ConstantsAssumption
<1>4. Code(match) = [len |-> match.len - MinMatch, dist |-> match.dist - 1]
  BY <1>3 DEF Code
<1>5. Code(match) \in Codes  BY <1>1, <1>4 DEF Codes
<1> QED  BY <1>1, <1>4, <1>5 DEF CodeLength, CodeDist, MinMatch

LEMMA AddCopy ==
    ASSUME File, NEW p, NEW b, NEW c, NEW u, NEW st, EncInv(p, b, c, u, st),
           NEW match, match.len \in MinMatch .. MaxMatch,
           match.dist \in 1 .. Window, match.dist <= p,
           p + match.len <= length,
           \A i \in 0 .. (match.len - 1) :
              in[p + 1 + i] = in[p + 1 + i - match.dist]
    PROVE  EncInv(p + match.len, Append(b, 0), Append(c, Code(match)), u,
                  Append(st, Start(p + match.len, Len(c) + 1, Len(u))))
<1>1. /\ p \in Nat /\ c \in Seq(Codes) /\ u \in Seq(Byte)
      /\ Len(b) \in Nat /\ Len(c) \in Nat /\ Len(u) \in Nat
      /\ Len(b) = Len(c) + Len(u) /\ Len(u) + 3 * Len(c) <= p
  <2>1. p \in 0 .. Greater(length, 1) /\ Streams(b, c, u, st)  BY DEF EncInv
  <2>2. p \in Nat  BY <2>1 DEF File, Greater
  <2> QED  BY <2>1, <2>2, ElementOf DEF Streams, EncInv
<1> DEFINE code == Code(match)
           c2 == Append(c, code)
           n == match.len
<1>2. /\ code \in Codes /\ CodeLength(code) = n
      /\ CodeDist(code) = match.dist
  BY CodeFacts
<1> HIDE DEF code
<1>3. /\ c2 \in Seq(Codes) /\ Len(c2) = Len(c) + 1
      /\ c2[Len(c) + 1] = code /\ Begins(c, c2)
  BY <1>1, <1>2, AppendBegins
<1> HIDE DEF c2
<1>4. n \in Nat /\ n >= 3  BY ConstantsAssumption DEF MinMatch
<1>5. \A i \in 1 .. n : in[p + i] = in[p + i - match.dist]
  <2> SUFFICES ASSUME NEW i \in 1 .. n
               PROVE  in[p + i] = in[p + i - match.dist]
    OBVIOUS
  <2>1. /\ i \in Int /\ match.dist \in Int /\ i - 1 \in 0 .. (n - 1)
        /\ \A j \in 0 .. (n - 1) : in[p + 1 + j] = in[p + 1 + j - match.dist]
    BY <1>4, ConstantsAssumption
  <2> HIDE DEF n
  <2>2. in[p + 1 + (i - 1)] = in[p + 1 + (i - 1) - match.dist]  BY <2>1
  <2>3. /\ p + 1 + (i - 1) = p + i
        /\ p + 1 + (i - 1) - match.dist = p + i - match.dist
    BY <1>1, <2>1
  <2> QED  BY <2>2, <2>3
<1> HIDE DEF n
<1>6. CopyToken(Start(p, Len(c), Len(u)), Start(p + n, Len(c2), Len(u)), c2)
  BY <1>1, <1>2, <1>3, <1>5 DEF CopyToken, Start
<1>7. Begins(u, u)  BY <1>1 DEF Begins
<1>8. /\ p + n \in Nat /\ p <= p + n /\ Len(b) + 1 = Len(c2) + Len(u)
      /\ Len(u) + 3 * Len(c2) <= p + n
  BY <1>1, <1>3, <1>4
<1>9. p + n <= Greater(length, 1)  BY <1>8 DEF n, Greater, File
<1>10. EncInv(p + n, Append(b, 0), c2, u,
              Append(st, Start(p + n, Len(c2), Len(u))))
  BY <1>1, <1>3, <1>6, <1>7, <1>8, <1>9, AddToken
<1> QED  BY <1>3, <1>10 DEF c2, code, n

-----------------------------------------------------------------------------
(* The inductive invariant.                                                 *)

\* between two tokens, and inside a copy
AtToken == starts[bit + 1] = Start(Len(out), ci, ui)

Copying ==
    /\ length > 0 /\ bit < Len(bits) /\ bits[bit + 1] = 0
    /\ starts[bit + 1].pos <= Len(out) /\ starts[bit + 1].comp + 1 = ci
    /\ starts[bit + 2] = Start(Len(out) + left, ci, ui)
    /\ dist = CodeDist(comp[ci])

DecInv ==
    /\ phase = "encode" => /\ out = << >> /\ bit = 0 /\ ci = 0 /\ ui = 0
                           /\ left = 0
    /\ phase # "encode" => pos = Greater(length, 1)
    /\ phase = "done" => left = 0 /\ Len(out) >= length
    /\ bit \in 0 .. Len(bits)
    /\ left = 0 => AtToken
    /\ left > 0 => Copying

Written == EncInv(pos, bits, comp, uncomp, starts)

Inv == TypeOK /\ Written /\ DecInv /\ RoundTrip

LEMMA Types ==
    ASSUME TypeOK
    PROVE  File /\ pos \in Nat /\ pos <= Greater(length, 1)
BY ConstantsAssumption DEF TypeOK, File, Greater

LEMMA InitInv == Init => Inv
<1> SUFFICES ASSUME Init PROVE Inv  OBVIOUS
<1> USE ConstantsAssumption DEF Init
<1>1. /\ bits \in Seq({0, 1}) /\ comp \in Seq(Codes) /\ uncomp \in Seq(Byte)
      /\ out \in Seq(Byte)
      /\ Len(bits) = 0 /\ Len(comp) = 0 /\ Len(uncomp) = 0 /\ Len(out) = 0
  OBVIOUS
<1>2. Start(0, 0, 0) \in Starts  BY StartIn
<1>3. starts \in Seq(Starts) /\ Len(starts) = 1 /\ starts[1] = Start(0, 0, 0)
  <2>1. starts = <<Start(0, 0, 0)>>  OBVIOUS
  <2> QED  BY <1>2, <2>1
<1>4. 0 \in 0 .. Greater(length, 1)  BY DEF Greater
<1>5. dist \in 1 .. Window /\ length \in Nat  OBVIOUS
<1>6. TypeOK
  <2>1. pos \in 0 .. Greater(length, 1) /\ seen \subseteq 1 .. pos  BY <1>4
  <2> QED  BY <1>1, <1>3, <1>5, <2>1 DEF TypeOK, Starts
<1>7. Written
  <2>1. 1 .. Len(bits) = {}  BY <1>1
  <2> QED  BY <1>1, <1>3, <1>4, <2>1 DEF Written, EncInv, Streams
<1>8. DecInv  BY <1>1, <1>3 DEF DecInv, AtToken
<1>9. RoundTrip  BY <1>1, <1>5 DEF RoundTrip
<1> QED  BY <1>6, <1>7, <1>8, <1>9 DEF Inv

\* what an action of the encoder leaves alone
Encodes ==
    /\ phase = "encode"
    /\ UNCHANGED <<phase, in, length, decoder>>

\* a round of the encoder keeps the invariant, when it keeps its own part
LEMMA EncoderRound ==
    ASSUME Inv, Encodes, seen' \subseteq 1 .. pos',
           EncInv(pos', bits', comp', uncomp', starts')
    PROVE  Inv'
<1>1. File /\ File'
  BY Types DEF Inv, Encodes, File
<1>2. Written'
  BY DEF Written, Encodes, EncInv, Streams, Token, LiteralToken, CopyToken
<1>3. Streams(bits', comp', uncomp', starts') /\ pos' \in 0 .. Greater(length, 1)
      /\ starts'[1] = Start(0, 0, 0)
  BY DEF EncInv
<1>4. TypeOK'
  BY <1>3 DEF Inv, TypeOK, Encodes, decoder, Streams, Starts
<1>5. DecInv'
  <2>1. /\ phase' = "encode" /\ out' = << >> /\ bit' = 0 /\ ci' = 0 /\ ui' = 0
        /\ left' = 0
    BY DEF Inv, DecInv, Encodes, decoder
  <2>2. bit' \in 0 .. Len(bits')  BY <1>3, <2>1, ElementOf DEF Streams
  <2>3. AtToken'  BY <1>3, <2>1 DEF AtToken
  <2> QED  BY <2>1, <2>2, <2>3 DEF DecInv
<1>6. RoundTrip'  BY DEF Inv, RoundTrip, Encodes, decoder
<1> QED  BY <1>2, <1>4, <1>5, <1>6 DEF Inv

LEMMA FirstByteInv == Inv /\ FirstByte => Inv'
<1> SUFFICES ASSUME Inv, FirstByte PROVE Inv'  OBVIOUS
<1>1. File /\ Written /\ pos = 0 /\ phase = "encode"
  BY Types DEF Inv, FirstByte
<1>2. PICK b \in Byte : (length > 0 => b = in[1]) /\ uncomp' = <<b>>
  BY DEF FirstByte
<1>3. bits = << >> /\ comp = << >> /\ uncomp = << >>
  <2>1. /\ bits \in Seq({0, 1}) /\ comp \in Seq(Codes) /\ uncomp \in Seq(Byte)
        /\ Len(bits) = Len(comp) + Len(uncomp)
        /\ Len(uncomp) + 3 * Len(comp) <= 0
    BY <1>1 DEF Written, EncInv, Streams
  <2>2. Len(bits) \in Nat /\ Len(comp) \in Nat /\ Len(uncomp) \in Nat
    BY <2>1, ElementOf
  <2>3. Len(comp) = 0 /\ Len(uncomp) = 0 /\ Len(bits) = 0  BY <2>1, <2>2
  <2> QED  BY <2>1, <2>3
<1>4. 1 <= Greater(length, 1)  BY <1>1 DEF File, Greater
<1>5. EncInv(0 + 1, Append(bits, 1), comp, Append(uncomp, b),
             Append(starts, Start(0 + 1, Len(comp), Len(uncomp) + 1)))
  <2>1. EncInv(0, bits, comp, uncomp, starts)  BY <1>1 DEF Written
  <2>2. 0 + 1 = 1  OBVIOUS
  <2> QED  BY <1>1, <1>2, <1>4, <2>1, <2>2, AddLiteral
<1>6. /\ pos' = 0 + 1 /\ bits' = Append(bits, 1) /\ comp' = comp
      /\ uncomp' = Append(uncomp, b)
      /\ starts' = Append(starts, Start(0 + 1, Len(comp), Len(uncomp) + 1))
  <2>1. Len(comp) = 0 /\ Len(uncomp) + 1 = 1  BY <1>3
  <2>2. Append(bits, 1) = <<1>> /\ Append(uncomp, b) = <<b>>  BY <1>3
  <2> QED  BY <1>2, <2>1, <2>2 DEF FirstByte
<1>7. EncInv(pos', bits', comp', uncomp', starts')  BY <1>5, <1>6
<1>8. Encodes /\ seen' \subseteq 1 .. pos'  BY DEF FirstByte, Encodes
<1> QED  BY <1>7, <1>8, EncoderRound

\* what find_longest finds for the current byte, and for the one after it
LEMMA SkipDrops ==
    ASSUME NEW s, NEW lists
    PROVE  Skip(s, lists) \subseteq lists
BY DEF Skip

\* also when a copy is pushed
LEMMA Pushed ==
    ASSUME NEW S, NEW s, NEW p \in Nat, p > 0, NEW n \in Nat, p <= n,
           S \subseteq 1 .. p
    PROVE  Skip(s, S) \cup (p .. n) \subseteq 1 .. n
<1>1. Skip(s, S) \subseteq 1 .. p  BY SkipDrops
<1>2. 1 .. p \subseteq 1 .. n /\ p .. n \subseteq 1 .. n  OBVIOUS
<1> QED  BY <1>1, <1>2

LEMMA RoundFacts ==
    ASSUME Inv, phase = "encode", pos > 0, pos < length
    PROVE  /\ File /\ pos \in Nat /\ length \in Nat
           /\ pos + 1 <= Greater(length, 1)
           /\ in[pos + 1] \in Byte
           /\ SeenThen \subseteq 1 .. (pos + 1)
           /\ Compresses =>
                 /\ Longest.len \in MinMatch .. MaxMatch
                 /\ pos + Longest.len <= length
                 /\ Longest.dist \in 1 .. Window /\ Longest.dist <= pos
                 /\ \A i \in 0 .. (Longest.len - 1) :
                       in[pos + 1 + i] = in[pos + 1 + i - Longest.dist]
           /\ BetterAhead =>
                 /\ LongestAhead.len \in MinMatch .. MaxMatch
                 /\ pos + 1 + LongestAhead.len <= length
                 /\ LongestAhead.dist \in 1 .. Window
                 /\ LongestAhead.dist <= pos + 1
                 /\ \A i \in 0 .. (LongestAhead.len - 1) :
                       in[pos + 2 + i] = in[pos + 2 + i - LongestAhead.dist]
<1>1. File /\ pos \in Nat /\ length \in Nat /\ pos + 1 \in 1 .. length
      /\ pos + 1 <= Greater(length, 1) /\ seen \subseteq 1 .. pos
  BY Types DEF Inv, File, Greater, TypeOK
<1>2. in[pos + 1] \in Byte  BY <1>1 DEF File
<1>3. seen \subseteq Nat \ {0} /\ SeenThen \subseteq Nat \ {0}
      /\ SeenThen \subseteq 1 .. (pos + 1)
  <2>1. SeenThen \subseteq seen \cup {pos + 1}  BY SkipDrops DEF SeenThen
  <2>2. seen \subseteq 1 .. pos  BY <1>1
  <2>3. 1 .. pos \subseteq 1 .. (pos + 1) /\ pos + 1 \in 1 .. (pos + 1)
        /\ 1 .. (pos + 1) \subseteq Nat \ {0}
    BY <1>1
  <2> QED  BY <2>1, <2>2, <2>3, Zenon
<1>4. /\ MaxSearch \in Nat /\ MaxSearch <= MaxMatch
      /\ MaxSearch <= length - pos
      /\ AheadSearch \in Nat /\ AheadSearch <= MaxMatch
      /\ AheadSearch <= length - pos - 1
  BY <1>1, ConstantsAssumption DEF MaxSearch, AheadSearch, Lesser, MinMatch
<1>5. /\ Longest.len \in 0 .. MaxSearch
      /\ Longest.len > 0 =>
            /\ Longest.dist \in 1 .. Window /\ Longest.dist < pos + 1
            /\ \A i \in 0 .. (Longest.len - 1) :
                  in[pos + 1 + i] = in[pos + 1 + i - Longest.dist]
  <2> DEFINE s == pos + 1
             max == MaxSearch
             found == FindLongest(s, max, seen)
  <2>1. s \in Nat /\ max \in Nat  BY <1>1, <1>4
  <2> HIDE DEF s, max
  <2>2. /\ found.len \in 0 .. max
        /\ found.len > 0 =>
              /\ found.dist \in 1 .. Window /\ found.dist < s
              /\ \A i \in 0 .. (found.len - 1) :
                    in[s + i] = in[s + i - found.dist]
    BY <1>3, <2>1, LongestFacts
  <2> QED  BY <2>2 DEF Longest, s, max
<1>6. /\ LongestAhead.len \in 0 .. AheadSearch
      /\ LongestAhead.len > 0 =>
            /\ LongestAhead.dist \in 1 .. Window /\ LongestAhead.dist < pos + 2
            /\ \A i \in 0 .. (LongestAhead.len - 1) :
                  in[pos + 2 + i] = in[pos + 2 + i - LongestAhead.dist]
  <2> DEFINE s == pos + 2
             max == AheadSearch
             found == FindLongest(s, max, SeenThen)
  <2>1. s \in Nat /\ max \in Nat  BY <1>1, <1>4
  <2> HIDE DEF s, max
  <2>2. /\ found.len \in 0 .. max
        /\ found.len > 0 =>
              /\ found.dist \in 1 .. Window /\ found.dist < s
              /\ \A i \in 0 .. (found.len - 1) :
                    in[s + i] = in[s + i - found.dist]
    BY <1>3, <2>1, LongestFacts
  <2> QED  BY <2>2 DEF LongestAhead, s, max
<1> DEFINE found == Longest
           ahead == LongestAhead
<1>7. /\ Compresses => found.len > 2
      /\ BetterAhead => ahead.len > found.len + 1 /\ found.len > 2
  BY <1>5, <1>6 DEF Compresses, BetterAhead
<1>8. Compresses => /\ found.len \in MinMatch .. MaxMatch
                    /\ pos + found.len <= length /\ found.dist <= pos
  <2> HIDE DEF found
  <2>1. found.len \in 0 .. MaxSearch
        /\ (found.len > 0 => found.dist \in 1 .. Window /\ found.dist < pos + 1)
    BY <1>5 DEF found
  <2> QED  BY <1>1, <1>4, <1>7, <2>1, ConstantsAssumption DEF MinMatch
<1>9. BetterAhead => /\ ahead.len \in MinMatch .. MaxMatch
                     /\ pos + 1 + ahead.len <= length /\ ahead.dist <= pos + 1
  <2> HIDE DEF found, ahead
  <2>1. found.len \in 0 .. MaxSearch /\ ahead.len \in 0 .. AheadSearch
        /\ (ahead.len > 0 => ahead.dist \in 1 .. Window /\ ahead.dist < pos + 2)
    BY <1>5, <1>6 DEF found, ahead
  <2> QED  BY <1>1, <1>4, <1>7, <2>1, ConstantsAssumption DEF MinMatch
<1>10. Compresses => Longest.len > 0  BY <1>8, ConstantsAssumption DEF MinMatch
<1>11. BetterAhead => LongestAhead.len > 0
  BY <1>9, ConstantsAssumption DEF MinMatch
<1> QED  BY <1>1, <1>2, <1>3, <1>5, <1>6, <1>8, <1>9, <1>10, <1>11

LEMMA LiteralInv == Inv /\ Literal => Inv'
<1> SUFFICES ASSUME Inv, Literal PROVE Inv'  OBVIOUS
<1>1. phase = "encode" /\ pos > 0 /\ pos < length  BY DEF Literal
<1>2. /\ File /\ pos \in Nat /\ pos + 1 <= Greater(length, 1)
      /\ in[pos + 1] \in Byte /\ SeenThen \subseteq 1 .. (pos + 1)
  BY <1>1, RoundFacts
<1>3. EncInv(pos, bits, comp, uncomp, starts)  BY DEF Inv, Written
<1>4. EncInv(pos + 1, Append(bits, 1), comp, Append(uncomp, in[pos + 1]),
             Append(starts, Start(pos + 1, Len(comp), Len(uncomp) + 1)))
  BY <1>2, <1>3, AddLiteral
<1>5. EncInv(pos', bits', comp', uncomp', starts')  BY <1>4 DEF Literal
<1>6. Encodes /\ seen' \subseteq 1 .. pos'  BY <1>2 DEF Literal, Encodes
<1> QED  BY <1>5, <1>6, EncoderRound

LEMMA CopyInv == Inv /\ Copy => Inv'
<1> SUFFICES ASSUME Inv, Copy PROVE Inv'  OBVIOUS
<1>1. phase = "encode" /\ pos > 0 /\ pos < length /\ Compresses  BY DEF Copy
<1> DEFINE found == Longest
<1>2. /\ File /\ pos \in Nat /\ SeenThen \subseteq 1 .. (pos + 1)
      /\ found.len \in MinMatch .. MaxMatch
      /\ pos + found.len <= length
      /\ found.dist \in 1 .. Window /\ found.dist <= pos
      /\ \A i \in 0 .. (found.len - 1) :
            in[pos + 1 + i] = in[pos + 1 + i - found.dist]
  BY <1>1, RoundFacts
<1>3. EncInv(pos, bits, comp, uncomp, starts)  BY DEF Inv, Written
<1>4. /\ pos' = pos + found.len /\ bits' = Append(bits, 0)
      /\ comp' = Append(comp, Code(found)) /\ uncomp' = uncomp
      /\ starts' = Append(starts, Start(pos + found.len,
                                        Len(comp) + 1, Len(uncomp)))
      /\ seen' = Skip(pos + 2, SeenThen) \cup ((pos + 1) .. (pos + found.len))
  BY DEF Copy
<1> HIDE DEF found
<1>5. EncInv(pos + found.len, Append(bits, 0), Append(comp, Code(found)),
             uncomp, Append(starts, Start(pos + found.len,
                                          Len(comp) + 1, Len(uncomp))))
  BY <1>2, <1>3, AddCopy
<1>6. EncInv(pos', bits', comp', uncomp', starts')  BY <1>4, <1>5
<1>7. seen' \subseteq 1 .. pos'
  <2>1. found.len \in Nat /\ found.len >= 1
    BY <1>2, ConstantsAssumption DEF MinMatch
  <2>2. pos + 1 \in Nat /\ pos + 1 > 0 /\ pos + found.len \in Nat
        /\ pos + 1 <= pos + found.len
    BY <1>2, <2>1
  <2> QED  BY <1>2, <1>4, <2>2, Pushed
<1>8. Encodes  BY DEF Copy, Encodes
<1> QED  BY <1>6, <1>7, <1>8, EncoderRound

LEMMA TwoAppends ==
    ASSUME NEW S, NEW x \in Seq(S), NEW d \in S, NEW e \in S
    PROVE  x \o <<d, e>> = Append(Append(x, d), e)
OBVIOUS

LEMMA LiteralThenCopyInv == Inv /\ LiteralThenCopy => Inv'
<1> SUFFICES ASSUME Inv, LiteralThenCopy PROVE Inv'  OBVIOUS
<1>1. phase = "encode" /\ pos > 0 /\ pos < length /\ BetterAhead
  BY DEF LiteralThenCopy
<1> DEFINE found == LongestAhead
           p == pos + 1
           b == Append(bits, 1)
           u == Append(uncomp, in[pos + 1])
           s == Start(pos + 1, Len(comp), Len(uncomp) + 1)
           z == Start(pos + 1 + found.len, Len(comp) + 1, Len(uncomp) + 1)
           st == Append(starts, s)
<1>2. /\ File /\ pos \in Nat /\ p <= Greater(length, 1)
      /\ in[p] \in Byte /\ SeenThen \subseteq 1 .. p
      /\ found.len \in MinMatch .. MaxMatch /\ p + found.len <= length
      /\ found.dist \in 1 .. Window /\ found.dist <= p
      /\ \A i \in 0 .. (found.len - 1) :
            in[pos + 2 + i] = in[pos + 2 + i - found.dist]
  BY <1>1, RoundFacts
<1>3. /\ EncInv(pos, bits, comp, uncomp, starts)
      /\ bits \in Seq({0, 1}) /\ starts \in Seq(Starts)
      /\ Len(comp) \in Nat /\ Len(uncomp) \in Nat
      /\ uncomp \in Seq(Byte)
  BY ElementOf DEF Inv, Written, EncInv, Streams
<1>4. found.len \in Nat /\ found.len >= 1
  BY <1>2, ConstantsAssumption DEF MinMatch
<1>5. s \in Starts /\ z \in Starts
  <2> HIDE DEF found
  <2> QED  BY <1>2, <1>3, <1>4, StartIn
<1>6. /\ pos' = p + found.len /\ bits' = bits \o <<1, 0>>
      /\ comp' = Append(comp, Code(found)) /\ uncomp' = u
      /\ starts' = starts \o <<s, z>>
      /\ seen' = Skip(pos + 2, SeenThen) \cup (p .. (p + found.len))
  BY DEF LiteralThenCopy
<1>7. EncInv(p, b, comp, u, st)  BY <1>2, <1>3, AddLiteral
<1>8. Len(u) = Len(uncomp) + 1  BY <1>2, <1>3
<1> HIDE DEF found
<1>9. bits' = Append(b, 0)  BY <1>3, <1>6, TwoAppends
<1>10. starts' = Append(st, z)
  <2> HIDE DEF s, z
  <2> QED  BY <1>3, <1>5, <1>6, TwoAppends
<1>11. \A i \in 0 .. (found.len - 1) : in[p + 1 + i] = in[p + 1 + i - found.dist]
  <2>1. p + 1 = pos + 2  BY <1>2
  <2> HIDE DEF p
  <2> QED  BY <1>2, <2>1
<1> HIDE DEF p, b, u, st
<1>12. EncInv(p + found.len, Append(b, 0), Append(comp, Code(found)), u,
              Append(st, Start(p + found.len, Len(comp) + 1, Len(u))))
  BY <1>2, <1>7, <1>11, AddCopy
<1>13. z = Start(p + found.len, Len(comp) + 1, Len(u))  BY <1>8 DEF p
<1>14. EncInv(pos', bits', comp', uncomp', starts')
  BY <1>6, <1>9, <1>10, <1>12, <1>13
<1>15. seen' \subseteq 1 .. pos'
  <2>1. p \in Nat /\ p > 0 /\ p + found.len \in Nat /\ p <= p + found.len
    BY <1>2, <1>4 DEF p
  <2> QED  BY <1>2, <1>6, <2>1, Pushed
<1>16. Encodes  BY DEF LiteralThenCopy, Encodes
<1> QED  BY <1>14, <1>15, <1>16, EncoderRound

LEMMA EncodedInv == Inv /\ Encoded => Inv'
<1> SUFFICES ASSUME Inv, Encoded PROVE Inv'  OBVIOUS
<1> USE DEF Encoded, encoder, decoder
<1>1. TypeOK'  BY DEF Inv, TypeOK, Codes
<1>2. Written'
  BY DEF Inv, Written, EncInv, Streams, Token, LiteralToken, CopyToken
<1>3. pos = Greater(length, 1)
  <2>1. pos \in Nat /\ length \in Nat /\ pos <= Greater(length, 1)
    BY Types DEF Inv, File
  <2> QED  BY <2>1 DEF Greater
<1>4. AtToken /\ left = 0 /\ bit \in 0 .. Len(bits)  BY DEF Inv, DecInv
<1>5. DecInv'  BY <1>3, <1>4 DEF DecInv, AtToken
<1>6. RoundTrip'  BY DEF Inv, RoundTrip
<1> QED  BY <1>1, <1>2, <1>5, <1>6 DEF Inv

LEMMA DecodedInv == Inv /\ Decoded => Inv'
<1> SUFFICES ASSUME Inv, Decoded PROVE Inv'  OBVIOUS
<1> USE DEF Decoded, encoder, decoder
<1>1. TypeOK'  BY DEF Inv, TypeOK, Codes
<1>2. Written'
  BY DEF Inv, Written, EncInv, Streams, Token, LiteralToken, CopyToken
<1>3. AtToken /\ bit \in 0 .. Len(bits) /\ pos = Greater(length, 1)
  BY DEF Inv, DecInv
<1>4. DecInv'  BY <1>3 DEF DecInv, AtToken
<1>5. RoundTrip'  BY DEF Inv, RoundTrip
<1> QED  BY <1>1, <1>2, <1>4, <1>5 DEF Inv

\* the decoder's next token is one the encoder has written
LEMMA TokenRead ==
    ASSUME Inv, phase # "encode", bit < Len(bits)
    PROVE  /\ bit + 1 \in 1 .. Len(bits) /\ bits[bit + 1] \in {0, 1}
           /\ starts[bit + 1] \in Starts
           /\ bits[bit + 1] = 1 =>
                 LiteralToken(starts[bit + 1], starts[bit + 2], uncomp)
           /\ bits[bit + 1] = 0 =>
                 CopyToken(starts[bit + 1], starts[bit + 2], comp)
           /\ starts[bit + 2].pos <= Greater(length, 1)
<1>1. /\ bit \in 0 .. Len(bits) /\ pos = Greater(length, 1) /\ Written
      /\ bits \in Seq({0, 1}) /\ starts \in Seq(Starts)
      /\ Len(starts) = Len(bits) + 1
  BY DEF Inv, DecInv, Written, EncInv, Streams
<1>2. Len(bits) \in Nat  BY <1>1, ElementOf
<1>3. bit + 1 \in 1 .. Len(bits) /\ bit + 1 \in 1 .. Len(starts)
      /\ bit + 1 + 1 = bit + 2
  BY <1>1, <1>2
<1>4. bits[bit + 1] \in {0, 1} /\ starts[bit + 1] \in Starts
  BY <1>1, <1>3, ElementOf
<1>5. Token(bit + 1, pos, bits, comp, uncomp, starts)
  BY <1>1, <1>3 DEF Written, EncInv
<1> QED  BY <1>1, <1>3, <1>4, <1>5 DEF Token

\* there is one while the file is not complete
LEMMA TokenLeft ==
    ASSUME Inv, phase # "encode", left = 0, Len(out) < length
    PROVE  /\ bit < Len(bits) /\ length > 0
           /\ Len(out) \in Nat /\ length \in Nat
<1>1. /\ bit \in 0 .. Len(bits) /\ pos = Greater(length, 1) /\ AtToken
      /\ starts[Len(bits) + 1] = Start(pos, Len(comp), Len(uncomp))
      /\ bits \in Seq({0, 1})
  BY DEF Inv, DecInv, Written, EncInv, Streams
<1>2. length \in Nat /\ out \in Seq(Byte)  BY Types DEF Inv, File, TypeOK
<1>3. Len(bits) \in Nat /\ Len(out) \in Nat  BY <1>1, <1>2, ElementOf
<1>4. bit # Len(bits)
  <2> SUFFICES ASSUME bit = Len(bits) PROVE FALSE  OBVIOUS
  <2>1. Start(Len(out), ci, ui) = Start(pos, Len(comp), Len(uncomp))
    BY <1>1 DEF AtToken
  <2>2. Len(out) = pos  BY <2>1 DEF Start
  <2> QED  BY <1>1, <1>2, <1>3, <2>2 DEF Greater
<1> QED  BY <1>1, <1>2, <1>3, <1>4

LEMMA DecoderFile ==
    ASSUME phase' = phase, UNCHANGED <<in, length, encoder>>, Inv
    PROVE  Written'
BY DEF Inv, Written, EncInv, Streams, Token, LiteralToken, CopyToken, encoder

LEMMA OutGrows ==
    ASSUME Inv, Len(out) < length, NEW x, x = in[Len(out) + 1],
           out' = Append(out, x), UNCHANGED <<in, length>>
    PROVE  /\ RoundTrip' /\ out' \in Seq(Byte) /\ Len(out') = Len(out) + 1
           /\ Len(out) \in Nat
<1>1. out \in Seq(Byte) /\ length \in Nat /\ in \in [1 .. length -> Byte]
      /\ \A i \in 1 .. Len(out) : out[i] = in[i]
  BY Types DEF Inv, File, TypeOK, RoundTrip
<1>2. Len(out) \in Nat  BY <1>1, ElementOf
<1>3. Len(out) + 1 \in 1 .. length  BY <1>1, <1>2
<1>4. x \in Byte  BY <1>1, <1>3
<1>5. out' \in Seq(Byte) /\ Len(out') = Len(out) + 1
      /\ out'[Len(out) + 1] = x /\ Begins(out, out')
  BY <1>1, <1>4, AppendBegins
<1>6. \A i \in 1 .. Len(out') : out'[i] = in[i]
  <2> SUFFICES ASSUME NEW i \in 1 .. Len(out') PROVE out'[i] = in[i]  OBVIOUS
  <2>1. CASE i \in 1 .. Len(out)  BY <1>1, <1>5, <2>1 DEF Begins
  <2>2. CASE i = Len(out) + 1  BY <1>5, <2>2
  <2> QED  BY <1>2, <1>5, <2>1, <2>2
<1> QED  BY <1>1, <1>2, <1>3, <1>5, <1>6 DEF RoundTrip

LEMMA PullLiteralInv == Inv /\ PullLiteral => Inv'
<1> SUFFICES ASSUME Inv, PullLiteral PROVE Inv'  OBVIOUS
<1>1. /\ phase = "decode" /\ left = 0 /\ Len(out) < length
      /\ bits[bit + 1] = 1
  BY DEF PullLiteral, Pulls
<1>2. bit < Len(bits) /\ length > 0 /\ Len(out) \in Nat  BY <1>1, TokenLeft
<1>3. /\ bit + 1 \in 1 .. Len(bits)
      /\ LiteralToken(starts[bit + 1], starts[bit + 2], uncomp)
  BY <1>1, <1>2, TokenRead
<1>4. /\ starts[bit + 1] = Start(Len(out), ci, ui)
      /\ bit \in 0 .. Len(bits) /\ pos = Greater(length, 1)
  BY <1>1 DEF Inv, DecInv, AtToken
<1>5. /\ uncomp[ui + 1] = in[Len(out) + 1]
      /\ starts[bit + 2] = Start(Len(out) + 1, ci, ui + 1)
  BY <1>2, <1>3, <1>4 DEF LiteralToken, Start
<1>6. /\ RoundTrip' /\ out' \in Seq(Byte) /\ Len(out') = Len(out) + 1
  BY <1>1, <1>5, OutGrows DEF PullLiteral
<1>7. bit \in Nat /\ bit' = bit + 1 /\ ui' = ui + 1 /\ bit + 1 + 1 = bit + 2
      /\ bit + 1 \in Nat /\ ui + 1 \in Nat
  BY <1>4 DEF Inv, TypeOK, PullLiteral
<1>8. TypeOK'
  BY <1>6, <1>7 DEF Inv, TypeOK, Codes, PullLiteral, encoder
<1>9. Written'  BY DecoderFile DEF PullLiteral
<1>10. DecInv'
  <2>1. /\ phase' = "decode" /\ left' = 0 /\ ci' = ci /\ starts' = starts
        /\ bits' = bits /\ pos' = pos /\ length' = length
    BY <1>1 DEF PullLiteral, encoder
  <2>2. starts[bit' + 1] = Start(Len(out'), ci, ui')
    BY <1>5, <1>6, <1>7
  <2>3. AtToken'  BY <2>1, <2>2 DEF AtToken
  <2>4. bit' \in 0 .. Len(bits')  BY <1>3, <1>7, <2>1
  <2> QED  BY <1>4, <2>1, <2>3, <2>4 DEF DecInv
<1> QED  BY <1>6, <1>8, <1>9, <1>10 DEF Inv

LEMMA PullCodeInv == Inv /\ PullCode => Inv'
<1> SUFFICES ASSUME Inv, PullCode PROVE Inv'  OBVIOUS
<1>1. /\ phase = "decode" /\ left = 0 /\ Len(out) < length
      /\ bits[bit + 1] = 0
  BY DEF PullCode, Pulls
<1>2. bit < Len(bits) /\ length > 0 /\ Len(out) \in Nat  BY <1>1, TokenLeft
<1>3. CopyToken(starts[bit + 1], starts[bit + 2], comp)
  BY <1>1, <1>2, TokenRead
<1>4. /\ starts[bit + 1] = Start(Len(out), ci, ui) /\ ci \in Nat
      /\ bit \in 0 .. Len(bits) /\ pos = Greater(length, 1)
  BY <1>1 DEF Inv, DecInv, AtToken, TypeOK
<1> DEFINE code == comp[ci + 1]
<1>5. code \in Codes
  <2>1. comp \in Seq(Codes) /\ Len(comp) \in Nat
    BY ElementOf DEF Inv, Written, EncInv, Streams
  <2>2. ci + 1 <= Len(comp)  BY <1>3, <1>4 DEF CopyToken, Start
  <2>3. ci + 1 \in 1 .. Len(comp)  BY <1>4, <2>1, <2>2
  <2> QED  BY <2>1, <2>3, ElementOf
<1>6. starts[bit + 2] = Start(Len(out) + CodeLength(code), ci + 1, ui)
  BY <1>3, <1>4 DEF CopyToken, Start
<1> HIDE DEF code
<1>7. CodeLength(code) \in Nat /\ CodeLength(code) > 0
      /\ CodeDist(code) \in 1 .. Window
  BY <1>5, ConstantsAssumption
  DEF Codes, CodeLength, CodeDist, MinMatch, Lengths
<1>8. /\ left' = CodeLength(code) /\ dist' = CodeDist(code) /\ ci' = ci + 1
      /\ phase' = phase /\ starts' = starts /\ bits' = bits /\ comp' = comp
      /\ pos' = pos /\ length' = length /\ out' = out /\ bit' = bit
      /\ ui' = ui /\ in' = in /\ seen' = seen /\ uncomp' = uncomp
  BY DEF PullCode, encoder, code
<1>9. TypeOK'
  <2>1. left' \in Nat /\ dist' \in 1 .. Window /\ ci' \in Nat
    BY <1>4, <1>7, <1>8
  <2> QED  BY <1>8, <2>1 DEF Inv, TypeOK
<1>10. Written'  BY DecoderFile DEF PullCode
<1>11. DecInv'
  <2>1. starts[bit + 1].pos = Len(out) /\ starts[bit + 1].comp = ci
    BY <1>4 DEF Start
  <2>2. comp'[ci'] = code  BY <1>8 DEF code
  <2>3. Copying'  BY <1>1, <1>2, <1>6, <1>8, <2>1, <2>2 DEF Copying
  <2>4. left' # 0 /\ left' > 0  BY <1>7, <1>8
  <2> QED  BY <1>1, <1>4, <1>8, <2>3, <2>4 DEF DecInv
<1>12. RoundTrip'  BY <1>8 DEF Inv, RoundTrip
<1> QED  BY <1>9, <1>10, <1>11, <1>12 DEF Inv

LEMMA CopyByteInv == Inv /\ CopyByte => Inv'
<1> SUFFICES ASSUME Inv, CopyByte PROVE Inv'  OBVIOUS
<1>1. phase = "decode" /\ left > 0 /\ Copying  BY DEF CopyByte, Inv, DecInv
<1> DEFINE a == starts[bit + 1]
           n == Len(out)
<1>2. /\ bit + 1 \in 1 .. Len(bits) /\ a \in Starts
      /\ CopyToken(a, starts[bit + 2], comp)
      /\ starts[bit + 2].pos <= Greater(length, 1)
  BY <1>1, TokenRead DEF Copying
<1>3. /\ length > 0 /\ a.pos <= n /\ a.comp + 1 = ci
      /\ starts[bit + 2] = Start(n + left, ci, ui)
      /\ dist = CodeDist(comp[ci])
  BY <1>1 DEF Copying
<1>4. /\ n \in Nat /\ left \in Nat /\ dist \in 1 .. Window /\ length \in Nat
      /\ a.pos \in Nat /\ a.comp \in Nat /\ bit \in 0 .. Len(bits)
      /\ pos = Greater(length, 1) /\ bit \in Nat /\ dist \in Nat
  <2>1. out \in Seq(Byte) /\ left \in Nat /\ dist \in 1 .. Window
        /\ length \in Nat /\ bit \in Nat
    BY Types DEF Inv, TypeOK, File
  <2>2. n \in Nat  BY <2>1, ElementOf
  <2>3. bit \in 0 .. Len(bits) /\ pos = Greater(length, 1)
    BY <1>1 DEF Inv, DecInv
  <2>4. a.pos \in Nat /\ a.comp \in Nat  BY <1>2 DEF Starts
  <2> QED  BY <2>1, <2>2, <2>3, <2>4, ConstantsAssumption
<1>5. n + left <= length
  BY <1>2, <1>3, <1>4 DEF Start, Greater
<1>6. /\ dist <= a.pos
      /\ \A i \in 1 .. CodeLength(comp[ci]) : in[a.pos + i] = in[a.pos + i - dist]
      /\ n + left = a.pos + CodeLength(comp[ci])
  <2>1. comp[a.comp + 1] = comp[ci]  BY <1>3
  <2>2. starts[bit + 2] = Start(a.pos + CodeLength(comp[ci]), a.comp + 1, a.uncomp)
        /\ dist <= a.pos
        /\ \A i \in 1 .. CodeLength(comp[ci]) :
              in[a.pos + i] = in[a.pos + i - dist]
    BY <1>2, <1>3, <2>1 DEF CopyToken
  <2> QED  BY <1>3, <2>2 DEF Start
<1> HIDE DEF a, n
<1>7. out[n + 1 - dist] = in[n + 1]
  <2>1. n + 1 - dist \in 1 .. n  BY <1>3, <1>4, <1>6
  <2>2. out[n + 1 - dist] = in[n + 1 - dist]
    BY <2>1 DEF Inv, RoundTrip, n
  <2> DEFINE i == n + 1 - a.pos
             m == CodeLength(comp[ci])
  <2>3. m \in Int
    <3>1. comp \in Seq(Codes) /\ Len(comp) \in Nat
      BY ElementOf DEF Inv, Written, EncInv, Streams
    <3>2. ci \in 1 .. Len(comp)
      <4>1. a.comp + 1 <= Len(comp)  BY <1>2 DEF CopyToken, a
      <4> QED  BY <1>3, <1>4, <3>1, <4>1
    <3>3. comp[ci] \in Codes  BY <3>1, <3>2, ElementOf
    <3> QED  BY <3>3, ConstantsAssumption
         DEF Codes, CodeLength, Lengths, MinMatch
  <2>4. n + left = a.pos + m
        /\ \A j \in 1 .. m : in[a.pos + j] = in[a.pos + j - dist]
    BY <1>6
  <2> HIDE DEF m
  <2>5. i \in 1 .. m
    <3>1. left > 0 /\ a.pos <= n /\ n + left = a.pos + m
      BY <1>1, <1>3, <2>4
    <3>2. n \in Int /\ left \in Int /\ a.pos \in Int  BY <1>4
    <3> QED  BY <2>3, <3>1, <3>2
  <2>6. in[a.pos + i] = in[a.pos + i - dist]  BY <2>4, <2>5
  <2>7. a.pos + i = n + 1 /\ a.pos + i - dist = n + 1 - dist  BY <1>4
  <2> QED  BY <2>2, <2>6, <2>7
<1>8. RoundTrip' /\ out' \in Seq(Byte) /\ Len(out') = n + 1
  <2>1. n < length  BY <1>1, <1>4, <1>5
  <2> QED  BY <1>7, <2>1, OutGrows DEF CopyByte, n
<1>9. /\ left' = left - 1 /\ bit' = (IF left = 1 THEN bit + 1 ELSE bit)
      /\ phase' = phase /\ starts' = starts /\ bits' = bits /\ comp' = comp
      /\ pos' = pos /\ length' = length /\ ci' = ci /\ dist' = dist
      /\ ui' = ui /\ in' = in /\ seen' = seen /\ uncomp' = uncomp
  BY DEF CopyByte, encoder
<1>10. TypeOK'
  <2>1. left' \in Nat /\ bit' \in Nat  BY <1>1, <1>4, <1>9
  <2> QED  BY <1>8, <1>9, <2>1 DEF Inv, TypeOK, Codes
<1>11. Written'  BY DecoderFile DEF CopyByte
<1>12. DecInv'
  <2>1. CASE left = 1
    <3>1. left' = 0 /\ bit' = bit + 1 /\ bit' + 1 = bit + 2  BY <1>4, <1>9, <2>1
    <3>2. AtToken'
      <4>1. starts[bit + 2] = Start(Len(out'), ci, ui)  BY <1>3, <1>8, <2>1
      <4> QED  BY <1>9, <3>1, <4>1 DEF AtToken
    <3>3. bit' \in 0 .. Len(bits')  BY <1>2, <1>9, <3>1
    <3> QED  BY <1>1, <1>4, <1>9, <3>1, <3>2, <3>3 DEF DecInv
  <2>2. CASE left # 1
    <3>1. left' > 0 /\ left' # 0 /\ bit' = bit  BY <1>1, <1>4, <1>9, <2>2
    <3>2. Copying'
      <4>1. Len(out') + left' = n + left /\ a.pos <= Len(out')
        BY <1>3, <1>4, <1>8, <1>9
      <4>2. bit < Len(bits) /\ bits[bit + 1] = 0  BY <1>1 DEF Copying
      <4> QED  BY <1>3, <1>9, <3>1, <4>1, <4>2 DEF Copying, a
    <3> QED  BY <1>1, <1>4, <1>9, <3>1, <3>2 DEF DecInv
  <2> QED  BY <2>1, <2>2
<1> QED  BY <1>8, <1>10, <1>11, <1>12 DEF Inv

LEMMA StutterInv == Inv /\ UNCHANGED vars => Inv'
<1> SUFFICES ASSUME Inv, UNCHANGED vars PROVE Inv'  OBVIOUS
<1> USE DEF vars, encoder, decoder
<1>1. TypeOK'  BY DEF Inv, TypeOK, Codes
<1>2. Written'  BY DecoderFile
<1>3. DecInv'  BY DEF Inv, DecInv, AtToken, Copying
<1>4. RoundTrip'  BY DEF Inv, RoundTrip
<1> QED  BY <1>1, <1>2, <1>3, <1>4 DEF Inv

-----------------------------------------------------------------------------
\* The inductive invariant holds of every file, window and longest copy.
THEOREM Invariant == Spec => []Inv
<1>1. Inv /\ [Next]_vars => Inv'
  BY FirstByteInv, LiteralInv, CopyInv, LiteralThenCopyInv, EncodedInv,
     PullLiteralInv, PullCodeInv, CopyByteInv, DecodedInv, StutterInv
  DEF Next
<1> QED  BY <1>1, InitInv, PTL DEF Spec

(* The types of mio0_encode's and mio0_decode's variables: no copy reaches  *)
(* back farther than the window, and find_longest is never asked about a    *)
(* byte behind the file.                                                    *)
THEOREM TypeCorrect == Spec => []TypeOK
<1>1. Inv => TypeOK  BY DEF Inv
<1> QED  BY <1>1, Invariant, PTL

(* mio0_decode writes, byte for byte, the file that mio0_encode has read,   *)
(* and nothing behind its end.                                              *)
THEOREM RoundTripAlways == Spec => []RoundTrip
<1>1. Inv => RoundTrip  BY DEF Inv
<1> QED  BY <1>1, Invariant, PTL

(* When mio0_decode returns it has read every bit, code and literal that    *)
(* mio0_encode has written, and no more.                                    *)
THEOREM AllReadAlways == Spec => []AllRead
<1>1. Inv => AllRead
  <2> SUFFICES ASSUME Inv, phase = "done", length > 0
               PROVE  /\ Len(out) = length /\ bit = Len(bits)
                      /\ ci = Len(comp)
                      /\ UncompOffset + ui = BytesWritten
    BY DEF AllRead
  <2>1. /\ left = 0 /\ AtToken /\ Len(out) >= length /\ Len(out) <= length
        /\ bit \in 0 .. Len(bits) /\ pos = Greater(length, 1)
        /\ starts[Len(bits) + 1] = Start(pos, Len(comp), Len(uncomp))
        /\ bits \in Seq({0, 1}) /\ out \in Seq(Byte) /\ length \in Nat
    BY Types DEF Inv, DecInv, RoundTrip, Written, EncInv, Streams, TypeOK, File
  <2>2. Len(bits) \in Nat /\ Len(out) \in Nat  BY <2>1, ElementOf
  <2>3. Len(out) = length /\ pos = length  BY <2>1, <2>2 DEF Greater
  <2>4. bit = Len(bits)
    <3> SUFFICES ASSUME bit # Len(bits) PROVE FALSE  OBVIOUS
    <3>1. bit < Len(bits)  BY <2>1, <2>2
    <3>2. /\ bits[bit + 1] \in {0, 1}
          /\ bits[bit + 1] = 1 =>
                LiteralToken(starts[bit + 1], starts[bit + 2], uncomp)
          /\ bits[bit + 1] = 0 =>
                CopyToken(starts[bit + 1], starts[bit + 2], comp)
          /\ starts[bit + 2].pos <= length
      BY <2>1, <2>3, <3>1, TokenRead
    <3>3. starts[bit + 1].pos = length  BY <2>1, <2>3 DEF AtToken, Start
    <3>4. CASE bits[bit + 1] = 1
      <4>1. starts[bit + 2].pos = length + 1
        BY <3>2, <3>3, <3>4 DEF LiteralToken, Start
      <4> QED  BY <2>1, <3>2, <4>1
    <3>5. CASE bits[bit + 1] = 0
      <4> DEFINE a == starts[bit + 1]
                 code == comp[a.comp + 1]
      <4>1. a.comp + 1 <= Len(comp) /\ a \in Starts
            /\ starts[bit + 2].pos = length + CodeLength(code)
        BY <2>1, <3>1, <3>2, <3>3, <3>5, TokenRead DEF CopyToken, Start
      <4>2. comp \in Seq(Codes) /\ Len(comp) \in Nat
        BY ElementOf DEF Inv, Written, EncInv, Streams
      <4>3. a.comp \in Nat  BY <4>1 DEF Starts
      <4> HIDE DEF a
      <4>4. code \in Codes  BY <4>1, <4>2, <4>3, ElementOf
      <4> HIDE DEF code
      <4>5. CodeLength(code) \in Nat /\ CodeLength(code) > 0
        BY <4>4, ConstantsAssumption DEF Codes, CodeLength, Lengths, MinMatch
      <4> QED  BY <2>1, <3>2, <4>1, <4>5
    <3> QED  BY <3>2, <3>4, <3>5
  <2>5. ci = Len(comp) /\ ui = Len(uncomp)
    BY <2>1, <2>4 DEF AtToken, Start
  <2> QED  BY <2>3, <2>4, <2>5 DEF BytesWritten
<1> QED  BY <1>1, Invariant, PTL

(* The encoder's three buffers hold what is written to them, of every file  *)
(* that is not empty.                                                       *)
THEOREM BuffersSufficeAlways ==
    ASSUME MinLength > 0
    PROVE  Spec => []BuffersSuffice
<1>1. Inv => BuffersSuffice
  <2> SUFFICES ASSUME Inv PROVE BuffersSuffice  OBVIOUS
  <2>1. /\ bits \in Seq({0, 1}) /\ comp \in Seq(Codes) /\ uncomp \in Seq(Byte)
        /\ Len(bits) = Len(comp) + Len(uncomp)
        /\ Len(uncomp) + 3 * Len(comp) <= pos
        /\ pos \in Nat /\ pos <= Greater(length, 1)
    BY Types DEF Inv, Written, EncInv, Streams
  <2>2. Len(bits) \in Nat /\ Len(comp) \in Nat /\ Len(uncomp) \in Nat
    BY <2>1, ElementOf
  <2>3. length \in Nat /\ length > 0
    BY ConstantsAssumption DEF Inv, TypeOK
  <2>4. pos <= length  BY <2>1, <2>3 DEF Greater
  <2>5. Len(bits) <= length /\ 2 * Len(comp) <= length
        /\ Len(uncomp) <= length
    BY <2>1, <2>2, <2>3, <2>4
  <2>6. length <= 8 * ((length + 7) \div 8)  BY <2>3
  <2>7. Len(bits) <= 8 * BitBufSize  BY <2>2, <2>3, <2>5, <2>6 DEF BitBufSize
  <2> QED  BY <2>5, <2>7 DEF BuffersSuffice, CompBufSize, UncompBufSize
<1> QED  BY <1>1, Invariant, PTL

-----------------------------------------------------------------------------
(* The lists hold what is in the window: Farthest grows with the position,  *)
(* and every byte of a token is pushed.                                     *)
WindowPushed ==
    phase = "encode" /\ pos > 0 =>
        \A p \in 1 .. pos : p >= Farthest(pos + 1) => p \in seen

LEMMA FarthestGrows ==
    ASSUME NEW s \in Nat, NEW t \in Nat, s <= t
    PROVE  Farthest(s) <= Farthest(t) /\ Farthest(s) \in Nat \ {0}
BY ConstantsAssumption DEF Farthest, Greater

\* what Skip drops for an earlier position is behind the window of a later
LEMMA SkipKeeps ==
    ASSUME NEW s \in Nat, NEW t \in Nat, s <= t, NEW lists,
           NEW p \in lists, p \in Nat, p >= Farthest(t)
    PROVE  p \in Skip(s, lists)
<1>1. Farthest(s) <= Farthest(t) /\ Farthest(s) \in Nat /\ Farthest(t) \in Nat
  BY FarthestGrows
<1>2. p >= Farthest(s)  BY <1>1
<1> QED  BY <1>2 DEF Skip

LEMMA WindowPushedKept ==
    ASSUME Inv, WindowPushed, Inv', [Next]_vars
    PROVE  WindowPushed'
<1> SUFFICES ASSUME phase' = "encode", pos' > 0, NEW p \in 1 .. pos',
                    p >= Farthest(pos' + 1)
             PROVE  p \in seen'
  BY DEF WindowPushed, Farthest, Greater
<1>0. pos \in Nat /\ pos' \in Nat  BY DEF Inv, TypeOK
<1>1. /\ pos \in Nat /\ pos + 2 \in Nat /\ p \in Nat
      /\ pos' \in Nat /\ pos' + 1 \in Nat
  <2> DEFINE q == pos'
  <2>1. pos \in Nat /\ q \in Nat /\ p \in 1 .. q  BY <1>0
  <2> HIDE DEF q
  <2>2. pos + 2 \in Nat /\ p \in Nat /\ q + 1 \in Nat  BY <2>1
  <2> QED  BY <1>0, <2>2 DEF q
<1>2. CASE FirstByte  BY <1>2 DEF FirstByte
\* a round pushes the bytes from pos + 1 on, and skips for pos + 1 or pos + 2
<1>3. ASSUME pos > 0, phase = "encode", pos < pos', p <= pos
      PROVE  p \in seen /\ p \in SeenThen
             /\ (pos + 2 <= pos' + 1 => p \in Skip(pos + 2, SeenThen))
  <2>1. Farthest(pos + 1) <= Farthest(pos' + 1)
        /\ Farthest(pos + 1) \in Nat /\ Farthest(pos' + 1) \in Nat
    BY <1>1, <1>3, FarthestGrows
  <2>2. p \in seen  BY <1>1, <1>3, <2>1 DEF WindowPushed
  <2>3. p \in Skip(pos + 1, seen)  BY <1>1, <1>3, <2>2, SkipKeeps
  <2>4. p \in SeenThen  BY <2>3 DEF SeenThen
  <2>5. ASSUME pos + 2 <= pos' + 1  PROVE p \in Skip(pos + 2, SeenThen)
    <3> DEFINE t == pos' + 1
    <3>1. pos + 2 \in Nat /\ t \in Nat /\ p >= Farthest(t) /\ pos + 2 <= t
      BY <1>1, <2>5
    <3> HIDE DEF t
    <3> QED  BY <1>1, <2>4, <3>1, SkipKeeps
  <2> QED  BY <2>2, <2>4, <2>5
<1>4. CASE Literal
  <2>1. /\ pos > 0 /\ phase = "encode" /\ pos' = pos + 1 /\ seen' = SeenThen
    BY <1>4 DEF Literal
  <2> QED  BY <1>1, <1>3, <2>1 DEF SeenThen
<1>5. CASE Copy
  <2> DEFINE n == Longest.len
  <2>1. /\ pos > 0 /\ phase = "encode" /\ pos' = pos + n
        /\ seen' = Skip(pos + 2, SeenThen) \cup ((pos + 1) .. (pos + n))
        /\ pos < length /\ Compresses
    BY <1>5 DEF Copy
  <2>2. n \in MinMatch .. MaxMatch  BY <2>1, RoundFacts
  <2> HIDE DEF n
  <2>3. n \in Nat /\ n > 0  BY <2>2, ConstantsAssumption DEF MinMatch
  <2>4. CASE p <= pos
    <3>1. pos < pos' /\ pos + 2 <= pos' + 1  BY <1>1, <2>1, <2>3
    <3> QED  BY <1>3, <2>1, <2>4, <3>1
  <2>5. CASE p > pos
    <3>1. p \in (pos + 1) .. (pos + n)  BY <1>1, <2>1, <2>3, <2>5
    <3> QED  BY <2>1, <3>1
  <2> QED  BY <1>1, <2>4, <2>5
<1>6. CASE LiteralThenCopy
  <2> DEFINE n == LongestAhead.len
  <2>1. /\ pos > 0 /\ phase = "encode" /\ pos' = pos + 1 + n
        /\ seen' = Skip(pos + 2, SeenThen) \cup ((pos + 1) .. (pos + 1 + n))
        /\ pos < length /\ BetterAhead
    BY <1>6 DEF LiteralThenCopy
  <2>2. n \in MinMatch .. MaxMatch  BY <2>1, RoundFacts
  <2> HIDE DEF n
  <2>3. n \in Nat  BY <2>2, ConstantsAssumption DEF MinMatch
  <2>4. CASE p <= pos
    <3>1. pos < pos' /\ pos + 2 <= pos' + 1  BY <1>1, <2>1, <2>3
    <3> QED  BY <1>3, <2>1, <2>4, <3>1
  <2>5. CASE p > pos
    <3>1. p \in (pos + 1) .. (pos + 1 + n)  BY <1>1, <2>1, <2>3, <2>5
    <3> QED  BY <2>1, <3>1
  <2> QED  BY <1>1, <2>4, <2>5
<1>7. CASE Encoded  BY <1>7 DEF Encoded
<1>8. CASE PullLiteral \/ PullCode \/ CopyByte \/ Decoded
  BY <1>8 DEF PullLiteral, PullCode, CopyByte, Decoded, Pulls
<1>9. CASE UNCHANGED vars  BY <1>9 DEF vars, encoder, WindowPushed
<1> QED  BY <1>2, <1>4, <1>5, <1>6, <1>7, <1>8, <1>9 DEF Next

(* find_longest finds the longest match that begins in the window, for      *)
(* every file, window and longest copy: starting over at the current byte   *)
(* loses nothing, and what is in no list any more is behind the window.     *)
THEOREM LongestFoundAlways == Spec => []LongestFound
<1>1. Init => WindowPushed  BY DEF Init, WindowPushed
<1>2. Inv /\ WindowPushed => LongestFound
  <2> SUFFICES ASSUME Inv, WindowPushed, phase = "encode", pos > 0, pos < length,
                      NEW p \in Farthest(pos + 1) .. pos
               PROVE  Same(pos + 1, p, MaxSearch) <= Longest.len
    BY DEF LongestFound
  <2> DEFINE s == pos + 1
             max == MaxSearch
             k == Same(s, p, max)
  <2>1. /\ pos \in Nat /\ length \in Nat /\ seen \subseteq 1 .. pos
        /\ max \in Nat
    BY Types, ConstantsAssumption
    DEF Inv, File, TypeOK, MaxSearch, Lesser, MinMatch
  <2>2. s \in Nat /\ Farthest(s) \in Nat \ {0}  BY <2>1, FarthestGrows
  <2>3. p \in Nat /\ p \in 1 .. pos /\ p >= Farthest(s) /\ p < s
    BY <2>1, <2>2
  <2>4. p \in seen  BY <2>3 DEF WindowPushed
  <2>5. seen \subseteq Nat \ {0}  BY <2>1
  <2> HIDE DEF max, s
  <2>6. /\ FindLongest(s, max, seen).len \in 0 .. max
        /\ \A c \in Candidates(s, seen) :
              MatchLength(c, s, max) <= FindLongest(s, max, seen).len
    BY <2>1, <2>2, <2>5, LongestFacts
  <2>7. k \in 0 .. max /\ \A i \in 0 .. (k - 1) : in[s + i] = in[p + i]
    <3>1. s \in Nat /\ p \in Nat /\ max \in Nat  BY <2>1, <2>2, <2>3
    <3> QED  BY <3>1, SameFacts
  <2>8. k <= FindLongest(s, max, seen).len
    <3> DEFINE n == FindLongest(s, max, seen).len
               m == MatchLength(p, s, max)
    <3>1. CASE k = 0
      <4>1. n \in 0 .. max  BY <2>6
      <4>2. k <= n
        <5> HIDE DEF n, k
        <5> QED  BY <2>1, <3>1, <4>1
      <4> QED  BY <4>2
    <3>2. CASE k # 0
      <4>1. 0 \in 0 .. (k - 1) /\ s + 0 = s /\ p + 0 = p
        BY <2>2, <2>3, <2>7, <3>2
      <4>2. in[s] = in[p]  BY <2>7, <4>1
      <4>3. p \in Candidates(s, seen)
        BY <2>3, <2>4, <4>2 DEF Candidates, Skip
      <4>4. m <= n  BY <2>6, <4>3
      <4>5. k <= m /\ m \in 0 .. max
        BY <2>1, <2>2, <2>3, MatchIsWhole, MatchFacts
      <4>6. n \in 0 .. max  BY <2>6
      <4>7. k \in 0 .. max  BY <2>7
      <4>8. k <= n
        <5> HIDE DEF n, m, k
        <5> QED  BY <2>1, <4>4, <4>5, <4>6, <4>7
      <4> QED  BY <4>8
    <3> QED  BY <3>1, <3>2
  <2> QED  BY <2>8 DEF s, max, Longest
<1> QED
  BY <1>1, <1>2, Invariant, WindowPushedKept, PTL DEF Spec
=============================================================================
