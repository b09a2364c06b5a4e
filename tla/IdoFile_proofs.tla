--------------------------- MODULE IdoFile_proofs ---------------------------
(***************************************************************************)
(* For buffers, files and programs of every size: no call leaves the       *)
(* buffer, and a stream of a careful program is a file without one.        *)
(***************************************************************************)
EXTENDS IdoFile, SequenceTheorems, TLAPS

-----------------------------------------------------------------------------
(* Bytes over bytes.                                                       *)
LEMMA Cat ==
    ASSUME NEW S, NEW s \in Seq(S), NEW t \in Seq(S), NEW m, m = Len(s),
           NEW n, n = Len(t)
    PROVE  /\ s \o t \in Seq(S) /\ Len(s \o t) = m + n
           /\ \A i \in 1 .. m : (s \o t)[i] = s[i]
           /\ \A i \in 1 .. n : (s \o t)[m + i] = t[i]
OBVIOUS

LEMMA Sub ==
    ASSUME NEW S, NEW s \in Seq(S), NEW a \in Nat, NEW b \in Nat,
           a <= b, b <= Len(s), NEW n, n = b - a
    PROVE  /\ SubSeq(s, a + 1, b) \in Seq(S) /\ Len(SubSeq(s, a + 1, b)) = n
           /\ \A i \in 1 .. n : SubSeq(s, a + 1, b)[i] = s[a + i]
<1>1. PICK m : m = a + 1
  OBVIOUS
<1>2. m \in Int /\ b \in Int /\ \A i \in m .. b : s[i] \in S
  <2>1. \A i \in 1 .. Len(s) : s[i] \in S
    BY ElementOfSeq
  <2> QED BY <1>1, <2>1
<1>3. /\ SubSeq(s, m, b) \in Seq(S)
      /\ Len(SubSeq(s, m, b)) = IF m <= b THEN b - m + 1 ELSE 0
      /\ \A i \in 1 .. b - m + 1 : SubSeq(s, m, b)[i] = s[m + i - 1]
  BY <1>2, SubSeqProperties
<1>4. \A i \in 1 .. b - a : i \in 1 .. b - m + 1 /\ m + i - 1 = a + i
  BY <1>1
<1>5. (IF m <= b THEN b - m + 1 ELSE 0) = b - a
  BY <1>1
<1> QED BY <1>1, <1>3, <1>4, <1>5

LEMMA OverFacts ==
    ASSUME NEW S, NEW d \in Seq(S), NEW p \in 0 .. Len(d), NEW bs \in Seq(S)
    PROVE  /\ Overwritten(d, p, bs) \in Seq(S)
           /\ Len(Overwritten(d, p, bs)) =
                 IF p + Len(bs) > Len(d) THEN p + Len(bs) ELSE Len(d)
           /\ \A k \in 1 .. Len(Overwritten(d, p, bs)) :
                 Overwritten(d, p, bs)[k] =
                    IF p < k /\ k <= p + Len(bs) THEN bs[k - p] ELSE d[k]
<1>1. PICK n : n = Len(d)
  OBVIOUS
<1>2. PICK m : m = Len(bs)
  OBVIOUS
<1>3. p \in Nat /\ n \in Nat /\ m \in Nat /\ p <= n /\ p + m \in Nat
  BY <1>1, <1>2
<1>4. PICK a : a = SubSeq(d, 1, p)
  OBVIOUS
<1>5. a \in Seq(S) /\ Len(a) = p /\ \A i \in 1 .. p : a[i] = d[i]
  <2>1. /\ SubSeq(d, 0 + 1, p) \in Seq(S) /\ Len(SubSeq(d, 0 + 1, p)) = p
        /\ \A i \in 1 .. p : SubSeq(d, 0 + 1, p)[i] = d[0 + i]
    BY <1>1, <1>3, Sub
  <2>2. 0 + 1 = 1 /\ \A i \in 1 .. p : 0 + i = i
    BY <1>3
  <2> QED BY <1>4, <2>1, <2>2
<1>6. PICK r : r = IF p + m <= n THEN n - (p + m) ELSE 0
  OBVIOUS
<1>7. PICK c : c = SubSeq(d, p + m + 1, n)
  OBVIOUS
<1>8. r \in Nat /\ c \in Seq(S) /\ Len(c) = r /\ \A i \in 1 .. r : c[i] = d[p + m + i]
  <2>1. PICK b : b = p + m
    OBVIOUS
  <2>2. CASE b <= n
    <3>1. r = n - b
      BY <1>6, <2>1, <2>2
    <3>2. b \in Nat /\ r \in Nat
      BY <1>3, <2>1, <2>2, <3>1
    <3>3. /\ SubSeq(d, b + 1, n) \in Seq(S) /\ Len(SubSeq(d, b + 1, n)) = r
          /\ \A i \in 1 .. r : SubSeq(d, b + 1, n)[i] = d[b + i]
      BY <1>1, <1>3, <2>2, <3>1, <3>2, Sub
    <3> QED BY <1>7, <2>1, <3>2, <3>3
  <2>3. CASE b > n
    <3>1. PICK h : h = b + 1
      OBVIOUS
    <3>2. SubSeq(d, h, n) = << >> /\ r = 0
      BY <1>3, <1>6, <2>1, <2>3, <3>1, SubSeqEmpty
    <3>3. << >> \in Seq(S) /\ Len(<< >>) = 0
      BY EmptySeq
    <3>4. \A i \in 1 .. 0 : FALSE
      OBVIOUS
    <3>5. c = << >>
      BY <1>7, <2>1, <3>1, <3>2
    <3>6. r \in Nat /\ c \in Seq(S) /\ Len(c) = r
      BY <3>2, <3>3, <3>5
    <3> QED BY <3>2, <3>4, <3>6
  <2> QED BY <1>3, <2>1, <2>2, <2>3
<1>9. PICK e : e = a \o bs
  OBVIOUS
<1>10. /\ e \in Seq(S) /\ Len(e) = p + m
       /\ \A i \in 1 .. p : e[i] = a[i]
       /\ \A i \in 1 .. m : e[p + i] = bs[i]
  <2>1. a \in Seq(S) /\ p = Len(a) /\ bs \in Seq(S) /\ m = Len(bs)
    BY <1>2, <1>5
  <2>2. /\ a \o bs \in Seq(S) /\ Len(a \o bs) = p + m
        /\ \A i \in 1 .. p : (a \o bs)[i] = a[i]
        /\ \A i \in 1 .. m : (a \o bs)[p + i] = bs[i]
    BY <2>1, Cat
  <2> QED BY <1>9, <2>2
<1>11. PICK o : o = e \o c
  OBVIOUS
<1>12. /\ o \in Seq(S) /\ Len(o) = p + m + r
       /\ \A i \in 1 .. p + m : o[i] = e[i]
       /\ \A i \in 1 .. r : o[p + m + i] = c[i]
  <2>1. PICK b : b = p + m
    OBVIOUS
  <2>2. e \in Seq(S) /\ b = Len(e) /\ c \in Seq(S) /\ r = Len(c)
    BY <1>8, <1>10, <2>1
  <2>3. /\ o \in Seq(S) /\ Len(o) = b + r
        /\ \A i \in 1 .. b : o[i] = e[i]
        /\ \A i \in 1 .. r : o[b + i] = c[i]
    BY <1>11, <2>2, Cat
  <2> QED BY <2>1, <2>3
<1>13. Overwritten(d, p, bs) = o
  BY <1>1, <1>2, <1>4, <1>7, <1>9, <1>11 DEF Overwritten
<1>14. Len(o) = IF p + m > n THEN p + m ELSE n
  BY <1>3, <1>6, <1>12
<1>15. ASSUME NEW k \in 1 .. Len(o)
       PROVE  o[k] = IF p < k /\ k <= p + m THEN bs[k - p] ELSE d[k]
  <2>1. k \in Nat /\ k >= 1 /\ k <= p + m + r
    BY <1>3, <1>8, <1>12, <1>15
  <2>2. CASE k <= p
    <3>1. o[k] = e[k] /\ e[k] = a[k] /\ a[k] = d[k]
      BY <1>3, <1>5, <1>10, <1>12, <2>1, <2>2
    <3> QED BY <1>3, <2>1, <2>2, <3>1
  <2>3. CASE k > p /\ k <= p + m
    <3>1. k - p \in 1 .. m /\ p + (k - p) = k
      BY <1>3, <2>1, <2>3
    <3>2. o[k] = e[k] /\ e[p + (k - p)] = bs[k - p]
      BY <1>3, <1>10, <1>12, <2>1, <2>3, <3>1
    <3> QED BY <2>3, <3>1, <3>2
  <2>4. CASE k > p + m
    <3>1. k - (p + m) \in 1 .. r /\ p + m + (k - (p + m)) = k
      BY <1>3, <1>8, <2>1, <2>4
    <3>2. /\ o[p + m + (k - (p + m))] = c[k - (p + m)]
          /\ c[k - (p + m)] = d[p + m + (k - (p + m))]
      BY <1>8, <1>12, <3>1
    <3>3. o[k] = d[k]
      BY <3>1, <3>2
    <3> QED BY <1>3, <2>1, <2>4, <3>3
  <2> QED BY <1>3, <2>1, <2>2, <2>3, <2>4
<1> QED BY <1>1, <1>2, <1>12, <1>13, <1>14, <1>15

LEMMA OverNone ==
    ASSUME NEW S, NEW d \in Seq(S), NEW p \in 0 .. Len(d)
    PROVE  Overwritten(d, p, << >>) = d
<1>1. << >> \in Seq(S) /\ Len(<< >>) = 0
  BY EmptySeq
<1>2. PICK e : e = << >>
  OBVIOUS
<1>3. PICK o : o = Overwritten(d, p, e)
  OBVIOUS
<1>4. /\ o \in Seq(S) /\ Len(o) = IF p + Len(e) > Len(d) THEN p + Len(e) ELSE Len(d)
      /\ \A k \in 1 .. Len(o) : o[k] = IF p < k /\ k <= p + Len(e) THEN e[k - p] ELSE d[k]
  <2>1. e \in Seq(S)
    BY <1>1, <1>2
  <2> QED BY <1>3, <2>1, OverFacts
<1>5. Len(e) = 0 /\ Len(d) \in Nat /\ p \in Nat /\ p <= Len(d)
  BY <1>1, <1>2
<1>6. Len(o) = Len(d) /\ \A k \in 1 .. Len(o) : o[k] = d[k]
  BY <1>4, <1>5
<1>7. o = d
  BY <1>4, <1>6, SeqEqual
<1> QED BY <1>2, <1>3, <1>7

LEMMA OverTwice ==
    ASSUME NEW S, NEW d \in Seq(S), NEW p \in 0 .. Len(d),
           NEW a \in Seq(S), NEW b \in Seq(S)
    PROVE  Overwritten(Overwritten(d, p, a), p + Len(a), b) = Overwritten(d, p, a \o b)
<1>1. PICK n : n = Len(d)
  OBVIOUS
<1>2. PICK m : m = Len(a)
  OBVIOUS
<1>3. PICK h : h = Len(b)
  OBVIOUS
<1>4. p \in Nat /\ n \in Nat /\ m \in Nat /\ h \in Nat /\ p <= n
  BY <1>1, <1>2, <1>3
<1>5. PICK c : c = a \o b
  OBVIOUS
<1>6. /\ c \in Seq(S) /\ Len(c) = m + h
      /\ \A i \in 1 .. m : c[i] = a[i]
      /\ \A i \in 1 .. h : c[m + i] = b[i]
  BY <1>2, <1>3, <1>5, Cat
<1>7. PICK x : x = Overwritten(d, p, a)
  OBVIOUS
<1>8. /\ x \in Seq(S) /\ Len(x) = IF p + m > n THEN p + m ELSE n
      /\ \A k \in 1 .. Len(x) : x[k] = IF p < k /\ k <= p + m THEN a[k - p] ELSE d[k]
  BY <1>1, <1>2, <1>7, OverFacts
<1>9. PICK q : q = p + m
  OBVIOUS
<1>10. q \in 0 .. Len(x)
  BY <1>4, <1>8, <1>9
<1>11. PICK y : y = Overwritten(x, q, b)
  OBVIOUS
<1>12. /\ y \in Seq(S) /\ Len(y) = IF q + h > Len(x) THEN q + h ELSE Len(x)
       /\ \A k \in 1 .. Len(y) : y[k] = IF q < k /\ k <= q + h THEN b[k - q] ELSE x[k]
  BY <1>3, <1>8, <1>10, <1>11, OverFacts
<1>13. PICK z : z = Overwritten(d, p, c)
  OBVIOUS
<1>14. /\ z \in Seq(S) /\ Len(z) = IF p + Len(c) > n THEN p + Len(c) ELSE n
       /\ \A k \in 1 .. Len(z) : z[k] = IF p < k /\ k <= p + Len(c) THEN c[k - p] ELSE d[k]
  BY <1>1, <1>6, <1>13, OverFacts
<1>15. Len(y) = Len(z) /\ Len(y) \in Nat
  BY <1>4, <1>6, <1>8, <1>9, <1>12, <1>14
<1>16. ASSUME NEW k \in 1 .. Len(y)
       PROVE  y[k] = z[k]
  <2>1. k \in Nat /\ k >= 1 /\ k <= Len(y)
    BY <1>15
  <2>2. CASE q < k /\ k <= q + h
    <3>1. k - q \in 1 .. h /\ k - p = m + (k - q)
      BY <1>4, <1>9, <2>1, <2>2
    <3>2. y[k] = b[k - q]
      BY <1>12, <2>2
    <3>3. c[m + (k - q)] = b[k - q]
      BY <1>6, <3>1
    <3>4. p < k /\ k <= p + Len(c)
      BY <1>4, <1>6, <1>9, <2>1, <2>2
    <3>5. z[k] = c[k - p]
      BY <1>14, <1>15, <3>4
    <3> QED BY <3>1, <3>2, <3>3, <3>5
  <2>3. CASE ~(q < k /\ k <= q + h)
    <3>1. y[k] = x[k] /\ k \in 1 .. Len(x)
      <4>1. y[k] = x[k]
        BY <1>12, <2>3
      <4>2. Len(x) \in Nat /\ q \in Nat /\ q <= Len(x)
        BY <1>4, <1>8, <1>9
      <4>3. k <= Len(x)
        BY <1>4, <1>12, <2>1, <2>3, <4>2
      <4> QED BY <2>1, <4>1, <4>2, <4>3
    <3>2. CASE p < k /\ k <= q
      <4>1. k - p \in 1 .. m /\ k <= p + Len(c)
        BY <1>4, <1>6, <1>9, <2>1, <3>2
      <4>2. x[k] = a[k - p]
        BY <1>8, <1>9, <3>1, <3>2
      <4>3. z[k] = c[k - p]
        BY <1>14, <1>15, <3>2, <4>1
      <4> QED BY <1>6, <3>1, <4>1, <4>2, <4>3
    <3>3. CASE ~(p < k /\ k <= q)
      <4>1. x[k] = d[k]
        BY <1>8, <1>9, <3>1, <3>3
      <4>2. ~(p < k /\ k <= p + Len(c))
        BY <1>4, <1>6, <1>9, <2>1, <2>3, <3>3
      <4>3. z[k] = d[k]
        BY <1>14, <1>15, <4>2
      <4> QED BY <3>1, <4>1, <4>3
    <3> QED BY <3>2, <3>3
  <2> QED BY <2>2, <2>3
<1>17. y = z
  BY <1>12, <1>14, <1>15, <1>16, SeqEqual
<1> QED BY <1>2, <1>5, <1>7, <1>9, <1>11, <1>13, <1>17

\* what was just written there
LEMMA OverSub ==
    ASSUME NEW S, NEW d \in Seq(S), NEW p \in 0 .. Len(d), NEW bs \in Seq(S)
    PROVE  SubSeq(Overwritten(d, p, bs), p + 1, p + Len(bs)) = bs
<1>1. PICK x : x = Overwritten(d, p, bs)
  OBVIOUS
<1>2. PICK m : m = Len(bs)
  OBVIOUS
<1>3. p \in Nat /\ m \in Nat /\ Len(d) \in Nat
  BY <1>2
<1>4. /\ x \in Seq(S) /\ Len(x) = IF p + m > Len(d) THEN p + m ELSE Len(d)
      /\ \A k \in 1 .. Len(x) : x[k] = IF p < k /\ k <= p + m THEN bs[k - p] ELSE d[k]
  BY <1>1, <1>2, OverFacts
<1>5. PICK b : b = p + m
  OBVIOUS
<1>6. b \in Nat /\ p <= b /\ b <= Len(x) /\ m = b - p
  BY <1>3, <1>4, <1>5
<1>7. PICK y : y = SubSeq(x, p + 1, b)
  OBVIOUS
<1>8. y \in Seq(S) /\ Len(y) = m /\ \A i \in 1 .. m : y[i] = x[p + i]
  BY <1>3, <1>4, <1>6, <1>7, Sub
<1>9. \A i \in 1 .. m : x[p + i] = bs[i]
  <2>1. ASSUME NEW i \in 1 .. m
        PROVE  x[p + i] = bs[i]
    <3>1. PICK k : k = p + i
      OBVIOUS
    <3>2. k \in 1 .. Len(x) /\ p < k /\ k <= p + m /\ k - p = i
      BY <1>3, <1>4, <3>1
    <3> QED BY <1>4, <3>1, <3>2
  <2> QED BY <2>1
<1>10. y = bs
  BY <1>2, <1>8, <1>9, SeqEqual
<1> QED BY <1>1, <1>2, <1>5, <1>7, <1>10

\* what is before the end of what was just written
LEMMA OverPrefix ==
    ASSUME NEW S, NEW d \in Seq(S), NEW p \in 0 .. Len(d), NEW bs \in Seq(S)
    PROVE  SubSeq(Overwritten(d, p, bs), 1, p + Len(bs)) = SubSeq(d, 1, p) \o bs
<1>1. PICK x : x = Overwritten(d, p, bs)
  OBVIOUS
<1>2. PICK m : m = Len(bs)
  OBVIOUS
<1>3. p \in Nat /\ m \in Nat /\ Len(d) \in Nat /\ p <= Len(d)
  BY <1>2
<1>4. /\ x \in Seq(S) /\ Len(x) = IF p + m > Len(d) THEN p + m ELSE Len(d)
      /\ \A k \in 1 .. Len(x) : x[k] = IF p < k /\ k <= p + m THEN bs[k - p] ELSE d[k]
  BY <1>1, <1>2, OverFacts
<1>5. PICK b : b = p + m
  OBVIOUS
<1>6. b \in Nat /\ 0 <= b /\ b <= Len(x) /\ b = b - 0 /\ p = p - 0
  BY <1>3, <1>4, <1>5
<1>7. PICK y : y = SubSeq(x, 0 + 1, b)
  OBVIOUS
<1>8. y \in Seq(S) /\ Len(y) = b /\ \A i \in 1 .. b : y[i] = x[0 + i]
  BY <1>4, <1>6, <1>7, Sub
<1>9. PICK a : a = SubSeq(d, 0 + 1, p)
  OBVIOUS
<1>10. a \in Seq(S) /\ Len(a) = p /\ \A i \in 1 .. p : a[i] = d[0 + i]
  BY <1>3, <1>6, <1>9, Sub
<1>11. PICK c : c = a \o bs
  OBVIOUS
<1>12. /\ c \in Seq(S) /\ Len(c) = p + m
       /\ \A i \in 1 .. p : c[i] = a[i]
       /\ \A i \in 1 .. m : c[p + i] = bs[i]
  BY <1>2, <1>10, <1>11, Cat
<1>13. \A i \in 1 .. b : y[i] = c[i]
  <2>1. ASSUME NEW i \in 1 .. b
        PROVE  y[i] = c[i]
    <3>1. i \in Nat /\ i >= 1 /\ i <= p + m /\ 0 + i = i /\ i \in 1 .. Len(x)
      BY <1>3, <1>5, <1>6
    <3>2. y[i] = x[i]
      BY <1>8, <3>1
    <3>3. CASE i <= p
      <4>1. x[i] = d[i]
        BY <1>3, <1>4, <3>1, <3>3
      <4>2. i \in 1 .. p
        BY <1>3, <3>1, <3>3
      <4>3. c[i] = a[i] /\ a[i] = d[i]
        BY <1>10, <1>12, <3>1, <4>2
      <4> QED BY <3>2, <4>1, <4>3
    <3>4. CASE i > p
      <4>1. i - p \in 1 .. m /\ p + (i - p) = i
        BY <1>3, <3>1, <3>4
      <4>2. x[i] = bs[i - p]
        BY <1>3, <1>4, <3>1, <3>4
      <4>3. c[p + (i - p)] = bs[i - p]
        BY <1>12, <4>1
      <4> QED BY <3>2, <4>1, <4>2, <4>3
    <3> QED BY <1>3, <3>1, <3>3, <3>4
  <2> QED BY <2>1
<1>14. y = c
  BY <1>5, <1>8, <1>12, <1>13, SeqEqual
<1>15. 0 + 1 = 1
  OBVIOUS
<1> QED BY <1>1, <1>2, <1>5, <1>7, <1>9, <1>11, <1>14, <1>15

\* a byte written over itself
LEMMA OverSame ==
    ASSUME NEW S, NEW d \in Seq(S), NEW p \in Nat, p < Len(d),
           NEW bs \in Seq(S), Len(bs) = 1, bs[1] = d[p + 1]
    PROVE  Overwritten(d, p, bs) = d
<1>1. PICK x : x = Overwritten(d, p, bs)
  OBVIOUS
<1>2. p \in 0 .. Len(d) /\ Len(d) \in Nat
  OBVIOUS
<1>3. /\ x \in Seq(S) /\ Len(x) = IF p + Len(bs) > Len(d) THEN p + Len(bs) ELSE Len(d)
      /\ \A k \in 1 .. Len(x) : x[k] = IF p < k /\ k <= p + Len(bs) THEN bs[k - p] ELSE d[k]
  BY <1>1, <1>2, OverFacts
<1>4. Len(x) = Len(d)
  BY <1>2, <1>3
<1>5. \A k \in 1 .. Len(x) : x[k] = d[k]
  <2>1. ASSUME NEW k \in 1 .. Len(x)
        PROVE  x[k] = d[k]
    <3>1. CASE k = p + 1
      <4>1. p < k /\ k <= p + Len(bs) /\ k - p = 1
        BY <3>1
      <4> QED BY <1>3, <3>1, <4>1
    <3>2. CASE k # p + 1
      <4>1. ~(p < k /\ k <= p + Len(bs))
        BY <1>2, <1>4, <3>2
      <4> QED BY <1>3, <4>1
    <3> QED BY <3>1, <3>2
  <2> QED BY <2>1
<1>6. x = d
  BY <1>3, <1>4, <1>5, SeqEqual
<1> QED BY <1>1, <1>6
-----------------------------------------------------------------------------
(* The bounds of the buffer.  A stream reads or writes, one at a time; the  *)
(* count and the pointer together never pass the buffer's end, also when a  *)
(* program has let the count fall below 0, and nothing is read where no     *)
(* byte was stored.                                                        *)
Kinds == {"void", "put", "get", "unget", "tell", "seek", "error"}

Takes == [op : {"fread", "fgets"}, left : Nat \ {0}]

Shapes ==
    /\ call.op = "closed" <=> call = Closed
    /\ call.op = "fwrite" => call \in [op : {"fwrite"}, rest : Seq(Byte)]
    /\ call.op \in {"fread", "fgets"} => call \in Takes
    /\ ret.op = "get" => ret.bytes \in Seq(Byte)
    /\ pos <= Len(disk)

Direction ==
    /\ "READ" \in flag => "WRT" \notin flag
    /\ append \/ "NBF" \in flag => "READ" \notin flag /\ "RW" \notin flag
    /\ call # Closed /\ "READ" \notin flag /\ "WRT" \notin flag =>
          "RW" \in flag /\ cnt = 0 /\ ptr = 0
    /\ call = Closed => flag = {}
    /\ ret.op = "get" => "READ" \in flag

InCall ==
    /\ call.op \in {"fwrite", "unbuffer"} => own /\ "WRT" \in flag /\ based
    /\ call.op = "fwrite" => cnt >= 0
    /\ call.op \in {"fread", "fgets", "gets"} => ~append /\ "WRT" \notin flag

Bounds ==
    /\ ~based => cnt = 0 /\ ptr = 0
    /\ based => size > 0 /\ ptr <= size /\ cnt + ptr <= size
    /\ ptr <= Len(buf)
    /\ "READ" \in flag => cnt + ptr <= Len(buf)
    /\ own /\ "WRT" \in flag => cnt >= 0 \/ ptr <= 1

BInv == TypeOK /\ Shapes /\ Direction /\ InCall /\ Bounds

LEMMA Ops ==
    /\ Idle.op = "none" /\ Closed.op = "closed" /\ Idle # Closed
    /\ Void.op = "void" /\ Failed.op = "error" /\ Returned.op = "unget"
    /\ \A n : Told(n).op = "tell" /\ Sought(n).op = "seek"
    /\ \A bs : Wrote(bs).op = "put" /\ Got(bs).op = "get" /\ Got(bs).bytes = bs
BY DEF Idle, Closed, Void, Failed, Returned, Told, Sought, Wrote, Got

LEMMA PendingIs ==
    ASSUME TypeOK, Shapes, Bounds
    PROVE  /\ Pending \in Seq(Byte) /\ Len(Pending) = IF "WRT" \in flag THEN ptr ELSE 0
           /\ WriteAt \in 0 .. Len(disk)
           /\ Content \in Seq(Byte)
           /\ Len(Content) = IF WriteAt + Len(Pending) > Len(disk)
                             THEN WriteAt + Len(Pending) ELSE Len(disk)
           /\ Pending # << >> => "WRT" \in flag /\ ptr > 0
<1>1. /\ ptr \in Nat /\ buf \in Seq(Byte) /\ ptr <= Len(buf) /\ disk \in Seq(Byte)
      /\ pos \in Nat /\ pos <= Len(disk) /\ Len(disk) \in Nat
  BY DEF TypeOK, Shapes, Bounds
<1>2. Pending \in Seq(Byte) /\ Len(Pending) = IF "WRT" \in flag THEN ptr ELSE 0
  <2>1. CASE "WRT" \in flag
    <3>1. ptr = ptr - 0 /\ 0 + 1 = 1 /\ 0 <= ptr
      BY <1>1
    <3>2. SubSeq(buf, 0 + 1, ptr) \in Seq(Byte) /\ Len(SubSeq(buf, 0 + 1, ptr)) = ptr
      BY <1>1, <3>1, Sub
    <3> QED BY <2>1, <3>1, <3>2 DEF Pending
  <2>2. CASE "WRT" \notin flag
    BY <2>2, EmptySeq DEF Pending
  <2> QED BY <2>1, <2>2
<1>3. WriteAt \in 0 .. Len(disk)
  BY <1>1 DEF WriteAt
<1>4. Pending # << >> => "WRT" \in flag /\ ptr > 0
  <2>1. Pending # << >> => Len(Pending) > 0
    BY <1>2, EmptySeq
  <2> QED BY <1>1, <1>2, <2>1
<1> QED BY <1>1, <1>2, <1>3, <1>4, OverFacts DEF Content

LEMMA WrittenTypes ==
    ASSUME TypeOK, Shapes, Bounds, NEW bs \in Seq(Byte), Written(bs)
    PROVE  /\ disk' \in Seq(Byte) /\ pos' \in Nat /\ pos' <= Len(disk')
           /\ Len(disk) <= Len(disk')
<1>1. /\ disk \in Seq(Byte) /\ pos \in Nat /\ pos <= Len(disk) /\ Len(disk) \in Nat
      /\ WriteAt \in 0 .. Len(disk) /\ Len(bs) \in Nat
  BY PendingIs DEF TypeOK, Shapes
<1>2. /\ disk' \in Seq(Byte)
      /\ Len(disk') = IF WriteAt + Len(bs) > Len(disk) THEN WriteAt + Len(bs) ELSE Len(disk)
  BY <1>1, OverFacts DEF Written
<1>3. pos' = IF bs = << >> THEN pos ELSE WriteAt + Len(bs)
  BY DEF Written
<1> QED BY <1>1, <1>2, <1>3

LEMMA FlushTypes ==
    ASSUME TypeOK, Shapes, Bounds, Flushes \/ FlushFails
    PROVE  /\ disk' \in Seq(Byte) /\ pos' \in Nat /\ pos' <= Len(disk')
           /\ own' \in BOOLEAN /\ (own' => own)
<1>1. CASE Flushes
  BY <1>1, PendingIs, WrittenTypes DEF Flushes, TypeOK
<1>2. CASE FlushFails
  <2>1. PICK k \in 0 .. (Len(Pending) - 1) : Written(SubSeq(Pending, 1, k))
    BY <1>2 DEF FlushFails
  <2>2. SubSeq(Pending, 1, k) \in Seq(Byte)
    <3>1. Pending \in Seq(Byte) /\ k \in Nat /\ k <= Len(Pending) /\ 0 <= k
          /\ 0 + 1 = 1 /\ k = k - 0
      BY PendingIs
    <3>2. SubSeq(Pending, 0 + 1, k) \in Seq(Byte)
      BY <3>1, Sub
    <3> QED BY <3>1, <3>2
  <2>3. own' = FALSE
    BY <1>2 DEF FlushFails
  <2> QED BY <2>1, <2>2, <2>3, WrittenTypes
<1> QED BY <1>1, <1>2

LEMMA StoredTypes ==
    ASSUME TypeOK, NEW p \in Nat, p <= Len(buf), NEW bs \in Seq(Byte)
    PROVE  /\ Stored(p, bs) \in Seq(Byte) /\ Len(Stored(p, bs)) \in Nat
           /\ p + Len(bs) <= Len(Stored(p, bs)) /\ Len(buf) <= Len(Stored(p, bs))
<1>1. buf \in Seq(Byte) /\ p \in 0 .. Len(buf) /\ Len(buf) \in Nat /\ Len(bs) \in Nat
  BY DEF TypeOK
<1>2. /\ Stored(p, bs) \in Seq(Byte)
      /\ Len(Stored(p, bs)) = IF p + Len(bs) > Len(buf) THEN p + Len(bs) ELSE Len(buf)
  BY <1>1, OverFacts DEF Stored
<1> QED BY <1>1, <1>2

LEMMA One == ASSUME NEW b \in Byte
             PROVE  << b >> \in Seq(Byte) /\ Len(<< b >>) = 1 /\ << b >>[1] = b
OBVIOUS
-----------------------------------------------------------------------------
(* Every call keeps to the bounds.                                         *)
LEMMA PutcBounds ==
    ASSUME Careful, BInv, NEW b \in Byte, Putc(b)
    PROVE  BInv'
<1>1. /\ own /\ "WRT" \in flag /\ call.op = "none" /\ "READ" \notin flag
      /\ call # Closed
  BY Ops DEF Putc, PutcSafe, Calling, BInv, Direction, Shapes
<1>2. /\ cnt \in Int /\ ptr \in Nat /\ size \in Nat /\ Len(buf) \in Nat
      /\ ptr <= Len(buf) /\ based \in BOOLEAN /\ Size \in Nat \ {0}
      /\ (~based => cnt = 0 /\ ptr = 0)
      /\ (based => size > 0 /\ ptr <= size /\ cnt + ptr <= size)
      /\ (cnt >= 0 \/ ptr <= 1)
  BY <1>1, Shape DEF BInv, TypeOK, Bounds
<1>3. << b >> \in Seq(Byte) /\ Len(<< b >>) = 1
  BY One
<1>4. CASE PutcStores(b)
  <2>1. /\ cnt > 0 /\ buf' = Stored(ptr, << b >>) /\ ptr' = ptr + 1 /\ cnt' = cnt - 1
        /\ call' = Idle /\ ret' = Wrote(<< b >>)
        /\ UNCHANGED <<flag, based, size, own, append, disk, pos>>
    BY <1>4 DEF PutcStores, Returns
  <2>2. buf' \in Seq(Byte) /\ Len(buf') \in Nat /\ ptr' <= Len(buf')
    BY <1>2, <1>3, <2>1, StoredTypes DEF BInv
  <2>3. TypeOK'
    BY <1>2, <2>1, <2>2, Ops DEF BInv, TypeOK
  <2>4. Shapes'
    BY <2>1, Ops DEF BInv, Shapes
  <2>5. Direction'
    BY <1>1, <2>1, Ops DEF BInv, Direction
  <2>6. InCall'
    BY <2>1, Ops DEF InCall
  <2>7. Bounds'
    BY <1>1, <1>2, <2>1, <2>2 DEF BInv, Bounds
  <2> QED BY <2>3, <2>4, <2>5, <2>6, <2>7 DEF BInv
<1>5. CASE Flsbuf(b) /\ FlushFails
           /\ cnt' = cnt - 1 /\ Returns(Failed) /\ UNCHANGED <<ptr, based, size, buf>>
  <2>1. /\ cnt <= 0 /\ UNCHANGED <<flag, append>> /\ call' = Idle /\ ret' = Failed
        /\ own' = FALSE /\ ptr > 0
    BY <1>5, PendingIs DEF Flsbuf, Returns, FlushFails, BInv
  <2>2. disk' \in Seq(Byte) /\ pos' \in Nat /\ pos' <= Len(disk') /\ own' \in BOOLEAN
    BY <1>5, FlushTypes DEF BInv
  <2>3. TypeOK'
    BY <1>2, <1>5, <2>1, <2>2, Ops DEF BInv, TypeOK
  <2>4. Shapes'
    BY <2>1, <2>2, Ops DEF Shapes
  <2>5. Direction'
    BY <1>1, <1>5, <2>1, Ops DEF BInv, Direction
  <2>6. InCall'
    BY <2>1, Ops DEF InCall
  <2>7. Bounds'
    BY <1>1, <1>2, <1>5, <2>1 DEF BInv, Bounds
  <2> QED BY <2>3, <2>4, <2>5, <2>6, <2>7 DEF BInv
<1>6. ASSUME NEW p, p = (IF based THEN PtrFlushed ELSE 0),
             NEW c, c = (IF based THEN CntFlushed(cnt - 1) ELSE Size),
             Flsbuf(b), Flushes, AssignBuffer, buf' = Stored(p, << b >>),
             ptr' = p + 1, cnt' = c - 1,
             call' = IF "NBF" \in flag THEN [op |-> "unbuffer"] ELSE Idle,
             ret' = Wrote(<< b >>)
      PROVE  BInv'
  <2>1. p = 0 /\ c = IF based THEN cnt - 1 + ptr ELSE Size
    BY <1>1, <1>6 DEF PtrFlushed, CntFlushed
  <2>2. /\ cnt <= 0 /\ UNCHANGED <<flag, append>>
        /\ based' = TRUE /\ size' = IF based THEN size ELSE Size
    BY <1>6 DEF Flsbuf, AssignBuffer
  <2>3. /\ disk' \in Seq(Byte) /\ pos' \in Nat /\ pos' <= Len(disk')
        /\ own' \in BOOLEAN /\ own' = own
    BY <1>6, FlushTypes DEF BInv, Flushes
  <2>4. buf' \in Seq(Byte) /\ Len(buf') \in Nat /\ ptr' <= Len(buf')
    <3>1. p \in Nat /\ p <= Len(buf) /\ p + 1 = 1
      BY <1>2, <2>1
    <3> QED BY <1>3, <1>6, <3>1, StoredTypes DEF BInv
  <2>5. /\ call'.op = IF "NBF" \in flag THEN "unbuffer" ELSE "none"
        /\ call' # Closed /\ ret'.op = "put"
    BY <1>6, Ops DEF Closed
  <2>6. /\ ptr' = 1 /\ cnt' \in Int /\ size' \in Nat /\ size' > 0
        /\ ptr' <= size' /\ cnt' + ptr' <= size'
    BY <1>2, <1>6, <2>1, <2>2
  <2>7. TypeOK'
    BY <2>2, <2>3, <2>4, <2>5, <2>6 DEF BInv, TypeOK
  <2>8. Shapes'
    BY <2>3, <2>5 DEF Shapes
  <2>9. Direction'
    BY <1>1, <2>2, <2>5 DEF BInv, Direction
  <2>10. InCall'
    BY <1>1, <2>2, <2>3, <2>5 DEF InCall
  <2>11. Bounds'
    <3>1. ptr' <= 1
      BY <2>6
    <3> QED BY <1>1, <2>2, <2>4, <2>6, <3>1 DEF Bounds
  <2> QED BY <2>7, <2>8, <2>9, <2>10, <2>11 DEF BInv
<1> QED BY <1>4, <1>5, <1>6 DEF Putc, Flsbuf
LEMMA FlushedSum ==
    ASSUME TypeOK, NEW c \in Int
    PROVE  /\ PtrFlushed \in Nat /\ PtrFlushed <= ptr /\ CntFlushed(c) \in Int
           /\ PtrFlushed + CntFlushed(c) = ptr + c
           /\ "WRT" \in flag => PtrFlushed = 0 /\ CntFlushed(c) = c + ptr
           /\ "WRT" \notin flag => PtrFlushed = ptr /\ CntFlushed(c) = c
<1>1. ptr \in Nat
  BY DEF TypeOK
<1>2. CASE "WRT" \in flag
  BY <1>1, <1>2 DEF PtrFlushed, CntFlushed
<1>3. CASE "WRT" \notin flag
  BY <1>1, <1>3 DEF PtrFlushed, CntFlushed
<1> QED BY <1>2, <1>3

LEMMA SameSum ==
    ASSUME NEW p \in Nat, NEW c \in Int, NEW q \in Nat, NEW d \in Int, NEW z \in Nat,
           q <= p, q + d = p + c
    PROVE  /\ c = 0 /\ p = 0 => d = 0 /\ q = 0
           /\ p <= z /\ c + p <= z => q <= z /\ d + q <= z
OBVIOUS

\* a flush, at the end of a call or within one
LEMMA FlushBounds ==
    ASSUME BInv, Flushes \/ FlushFails, UNCHANGED <<flag, append, based, size, buf>>,
           \/ ptr' = PtrFlushed /\ cnt' = CntFlushed(cnt)
           \/ UNCHANGED <<ptr, cnt>>,
           call' # Closed, call'.op = "none" \/ UNCHANGED call, call # Closed,
           UNCHANGED ret \/ ret'.op \in {"void", "error"},
           call'.op \in {"fwrite", "unbuffer"} => own',
           call'.op = "fwrite" => cnt' >= 0
    PROVE  BInv'
<1>1. /\ (~based => cnt = 0 /\ ptr = 0)
      /\ (based => size > 0 /\ ptr <= size /\ cnt + ptr <= size)
      /\ ("READ" \in flag => cnt + ptr <= Len(buf) /\ "WRT" \notin flag)
      /\ ptr <= Len(buf)
  BY DEF BInv, TypeOK, Bounds, Direction
<1>2. cnt \in Int /\ ptr \in Nat /\ size \in Nat /\ Len(buf) \in Nat
  BY DEF BInv, TypeOK
<1>9. /\ disk' \in Seq(Byte) /\ pos' \in Nat /\ pos' <= Len(disk')
      /\ own' \in BOOLEAN /\ (own' => own)
  BY FlushTypes DEF BInv
<1>3. /\ ptr' \in Nat /\ cnt' \in Int /\ ptr' <= ptr /\ ptr' + cnt' = ptr + cnt
      /\ "WRT" \in flag /\ own' => cnt' >= 0 \/ ptr' <= 1
      /\ "WRT" \notin flag => ptr' = ptr /\ cnt' = cnt
  <2>1. CASE ptr' = PtrFlushed /\ cnt' = CntFlushed(cnt)
    <3>1. CASE "WRT" \in flag
      <4>1. ptr' = 0 /\ cnt' = cnt + ptr
        BY <2>1, <3>1 DEF PtrFlushed, CntFlushed
      <4> QED BY <1>2, <3>1, <4>1
    <3>2. CASE "WRT" \notin flag
      <4>1. ptr' = ptr /\ cnt' = cnt
        BY <2>1, <3>2 DEF PtrFlushed, CntFlushed
      <4> QED BY <1>2, <3>2, <4>1
    <3> QED BY <3>1, <3>2
  <2>2. CASE UNCHANGED <<ptr, cnt>>
    BY <1>2, <1>9, <2>2 DEF BInv, Bounds
  <2> QED BY <2>1, <2>2
<1>4. TypeOK'
  BY <1>3, <1>9 DEF BInv, TypeOK
<1>5. Shapes'
  BY <1>9, Ops DEF BInv, Shapes
<1>6. Direction'
  BY <1>3 DEF BInv, Direction
<1>7. InCall'
  BY DEF BInv, InCall
<1>8. Bounds'
  <2>1. cnt = 0 /\ ptr = 0 => cnt' = 0 /\ ptr' = 0
    BY <1>2, <1>3, SameSum
  <2>2. ptr <= size /\ cnt + ptr <= size => ptr' <= size /\ cnt' + ptr' <= size
    BY <1>2, <1>3, SameSum
  <2>3. ptr' <= Len(buf)
    BY <1>1, <1>2, <1>3
  <2>4. "READ" \in flag => cnt' + ptr' <= Len(buf)
    BY <1>1, <1>3
  <2> QED BY <1>1, <1>3, <2>1, <2>2, <2>3, <2>4 DEF Bounds
<1> QED BY <1>4, <1>5, <1>6, <1>7, <1>8 DEF BInv

LEMMA UnbufferBounds ==
    ASSUME BInv, Unbuffer
    PROVE  BInv'
<1>1. /\ call.op = "unbuffer" /\ call # Closed /\ UNCHANGED <<flag, append, based, size, buf>>
      /\ own /\ "WRT" \in flag /\ based /\ "READ" \notin flag
  BY Ops DEF Unbuffer, BInv, InCall, Direction
<1>2. CASE FlushFails /\ Returns(Failed) /\ UNCHANGED <<ptr, cnt>>
  BY <1>1, <1>2, FlushBounds, Ops DEF Returns
<1>3. CASE Flushes /\ ptr' = PtrFlushed /\ cnt' = 0 /\ Returns(Void)
  <2>1. call' = Idle /\ ret' = Void /\ ptr' = 0 /\ cnt' = 0
    BY <1>1, <1>3, FlushedSum DEF Returns, PtrFlushed
  <2>2. /\ disk' \in Seq(Byte) /\ pos' \in Nat /\ pos' <= Len(disk')
        /\ own' \in BOOLEAN
    BY <1>3, FlushTypes DEF BInv
  <2>3. TypeOK'
    BY <1>1, <2>1, <2>2, Ops DEF BInv, TypeOK
  <2>4. Shapes'
    BY <2>1, <2>2, Ops DEF Shapes
  <2>5. Direction'
    BY <1>1, <2>1, Ops DEF BInv, Direction
  <2>6. InCall'
    BY <2>1, Ops DEF InCall
  <2>7. Bounds'
    <3>1. Len(buf) \in Nat /\ size \in Nat /\ size > 0
      BY <1>1 DEF BInv, Bounds, TypeOK
    <3> QED BY <1>1, <2>1, <3>1 DEF Bounds
  <2> QED BY <2>3, <2>4, <2>5, <2>6, <2>7 DEF BInv
<1> QED BY <1>2, <1>3 DEF Unbuffer

LEMMA FwriteBounds ==
    ASSUME Careful, BInv, NEW bs \in Strings, Fwrite(bs)
    PROVE  BInv'
<1>1. /\ call.op = "none" /\ call # Closed /\ own /\ based \in BOOLEAN
      /\ based => "WRT" \in flag /\ cnt + ptr > 0
      /\ "READ" \notin flag /\ ("WRT" \in flag \/ "RW" \in flag)
      /\ call' = [op |-> "fwrite", rest |-> bs] /\ ret' = Void
      /\ UNCHANGED <<buf, own, append, disk, pos>>
      /\ based' = TRUE /\ size' = IF based THEN size ELSE Size
  BY Ops DEF Fwrite, FwriteSafe, Calling, MayPut, BInv, Direction, TypeOK, AssignBuffer
<1>2. bs \in Seq(Byte)
  <2>1. PICK n \in Lengths : bs \in [1 .. n -> Byte]
    BY DEF Strings
  <2>2. n \in Nat
    BY Shape
  <2> QED BY <2>1, <2>2
<1>3. /\ call' \in [op : {"fwrite"}, rest : Seq(Byte)] /\ call'.op = "fwrite"
      /\ call' # Closed
  BY <1>1, <1>2, Ops DEF Closed
<1>4. /\ cnt \in Int /\ ptr \in Nat /\ size \in Nat /\ Len(buf) \in Nat
      /\ ptr <= Len(buf) /\ Size \in Nat \ {0}
      /\ (based => size > 0 /\ ptr <= size /\ cnt + ptr <= size)
      /\ ("WRT" \in flag => cnt >= 0 \/ ptr <= 1)
  BY <1>1, Shape DEF BInv, TypeOK, Bounds
<1>5. /\ "WRT" \in flag' /\ "READ" \notin flag' /\ flag \subseteq flag'
      /\ flag' \subseteq flag \cup {"WRT"}
      /\ cnt' \in Nat /\ ptr' \in Nat /\ ptr' <= Len(buf)
      /\ size' \in Nat /\ size' > 0 /\ ptr' <= size' /\ cnt' + ptr' <= size'
  <2>1. CASE based
    <3>1. UNCHANGED <<flag, cnt, ptr, size>>
      BY <1>1, <2>1 DEF Fwrite
    <3> QED BY <1>1, <1>4, <2>1, <3>1
  <2>2. CASE ~based
    <3>1. flag' = flag \cup {"WRT"} /\ cnt' = Size /\ ptr' = 0 /\ size' = Size
      BY <1>1, <2>2 DEF Fwrite
    <3> QED BY <1>1, <1>4, <3>1
  <2> QED BY <1>1, <2>1, <2>2
<1>6. TypeOK'
  BY <1>1, <1>3, <1>5, Ops DEF BInv, TypeOK, Flags
<1>7. Shapes'
  BY <1>1, <1>2, <1>3, Ops DEF BInv, Shapes
<1>8. Direction'
  BY <1>1, <1>3, <1>5, Ops DEF BInv, Direction
<1>9. InCall'
  BY <1>1, <1>3, <1>5 DEF InCall
<1>10. Bounds'
  <2>1. cnt' >= 0
    BY <1>5
  <2> QED BY <1>1, <1>5, <2>1 DEF Bounds
<1> QED BY <1>6, <1>7, <1>8, <1>9, <1>10 DEF BInv

LEMMA FwriteFlushBounds ==
    ASSUME BInv, FwriteFlush
    PROVE  BInv'
<1>1. /\ call.op = "fwrite" /\ call # Closed /\ cnt = 0
      /\ UNCHANGED <<flag, append, based, size, buf>>
      /\ own /\ "WRT" \in flag /\ ptr \in Nat
  BY Ops DEF FwriteFlush, BInv, InCall, TypeOK
<1>2. CASE FlushFails /\ Returns(Failed) /\ UNCHANGED <<ptr, cnt>>
  BY <1>1, <1>2, FlushBounds, Ops DEF Returns
<1>3. CASE /\ Flushes /\ ptr' = PtrFlushed /\ cnt' = CntFlushed(0)
           /\ UNCHANGED <<call, ret>>
  <2>1. own' = own /\ cnt' >= 0
    BY <1>1, <1>3 DEF Flushes, CntFlushed
  <2> QED BY <1>1, <1>3, <2>1, FlushBounds
<1> QED BY <1>2, <1>3 DEF FwriteFlush

LEMMA FwriteEndBounds ==
    ASSUME BInv, FwriteEnd
    PROVE  BInv'
<1>1. /\ call.op = "fwrite" /\ call # Closed /\ call' = Idle /\ ret' = Void
      /\ UNCHANGED <<flag, append, based, size, buf>>
  BY Ops DEF FwriteEnd, Returns
<1>2. CASE Flushes /\ ptr' = PtrFlushed /\ cnt' = CntFlushed(cnt)
  BY <1>1, <1>2, FlushBounds, Ops
<1>3. CASE FlushFails /\ UNCHANGED <<ptr, cnt>>
  BY <1>1, <1>3, FlushBounds, Ops
<1>4. CASE UNCHANGED <<ptr, cnt, own, disk, pos>>
  <2>1. TypeOK' /\ Shapes' /\ Direction' /\ InCall'
    BY <1>1, <1>4, Ops DEF BInv, TypeOK, Shapes, Direction, InCall
  <2>2. Bounds'
    BY <1>1, <1>4 DEF BInv, Bounds
  <2> QED BY <2>1, <2>2 DEF BInv
<1> QED BY <1>2, <1>3, <1>4 DEF FwriteEnd

LEMMA FflushBounds ==
    ASSUME BInv, Fflush
    PROVE  BInv'
<1>1. /\ call.op = "none" /\ call # Closed
      /\ UNCHANGED <<flag, append, based, size, buf>>
  BY Ops DEF Fflush, Calling
<1>2. CASE Flushes /\ ptr' = PtrFlushed /\ cnt' = CntFlushed(cnt) /\ Returns(Void)
  BY <1>1, <1>2, FlushBounds, Ops DEF Returns
<1>3. CASE FlushFails /\ Returns(Failed) /\ UNCHANGED <<ptr, cnt>>
  BY <1>1, <1>3, FlushBounds, Ops DEF Returns
<1> QED BY <1>2, <1>3 DEF Fflush
LEMMA Split ==
    ASSUME NEW S, NEW s \in Seq(S), NEW n \in 0 .. Len(s)
    PROVE  /\ SubSeq(s, 1, n) \in Seq(S) /\ Len(SubSeq(s, 1, n)) = n
           /\ SubSeq(s, n + 1, Len(s)) \in Seq(S)
<1>1. n \in Nat /\ Len(s) \in Nat /\ 0 <= n /\ n <= Len(s) /\ n = n - 0 /\ 0 + 1 = 1
  OBVIOUS
<1>2. SubSeq(s, 0 + 1, n) \in Seq(S) /\ Len(SubSeq(s, 0 + 1, n)) = n
  BY <1>1, Sub
<1>3. PICK m : m = Len(s) - n
  OBVIOUS
<1>4. SubSeq(s, n + 1, Len(s)) \in Seq(S)
  BY <1>1, <1>3, Sub
<1> QED BY <1>1, <1>2, <1>4

LEMMA FwriteCopyBounds ==
    ASSUME BInv, FwriteCopy
    PROVE  BInv'
<1>1. /\ call.op = "fwrite" /\ call # Closed /\ call.rest \in Seq(Byte)
      /\ own /\ "WRT" \in flag /\ based /\ "READ" \notin flag
      /\ UNCHANGED <<flag, based, size, own, append, disk, pos>>
  BY Ops DEF FwriteCopy, BInv, InCall, Shapes, Direction
<1>2. /\ cnt \in Nat /\ cnt > 0 /\ ptr \in Nat /\ size \in Nat /\ Len(buf) \in Nat
      /\ ptr <= Len(buf) /\ size > 0 /\ ptr <= size /\ cnt + ptr <= size
  BY DEF FwriteCopy, BInv, TypeOK, InCall, Bounds
<1>3. PICK n : n = Least(cnt, Len(call.rest))
  OBVIOUS
<1>4. n \in 0 .. Len(call.rest) /\ n <= cnt
  BY <1>1, <1>2, <1>3 DEF Least
<1>5. ~(cnt < 0)
  BY <1>2
<1>6. PICK rest : rest = call.rest
  OBVIOUS
<1>7. /\ buf' = Stored(ptr, SubSeq(rest, 1, n))
      /\ ptr' = ptr + n /\ cnt' = cnt - n
      /\ call' = [call EXCEPT !.rest = SubSeq(rest, n + 1, Len(rest))]
      /\ ret' = Wrote(SubSeq(rest, 1, n))
  BY <1>3, <1>5, <1>6 DEF FwriteCopy
<1>8. /\ SubSeq(rest, 1, n) \in Seq(Byte) /\ Len(SubSeq(rest, 1, n)) = n
      /\ SubSeq(rest, n + 1, Len(rest)) \in Seq(Byte)
  BY <1>1, <1>4, <1>6, Split
<1>9. buf' \in Seq(Byte) /\ Len(buf') \in Nat /\ ptr' <= Len(buf')
  BY <1>2, <1>7, <1>8, StoredTypes DEF BInv
<1>10. /\ call' \in [op : {"fwrite"}, rest : Seq(Byte)] /\ call'.op = "fwrite"
       /\ call' # Closed
  <2>1. call \in [op : {"fwrite"}, rest : Seq(Byte)]
    BY <1>1 DEF BInv, Shapes
  <2>2. call' \in [op : {"fwrite"}, rest : Seq(Byte)]
    BY <1>7, <1>8, <2>1
  <2> QED BY <2>2, Ops
<1>11. ptr' \in Nat /\ cnt' \in Nat /\ ptr' <= size /\ cnt' + ptr' <= size
  BY <1>2, <1>4, <1>7
<1>12. TypeOK'
  BY <1>1, <1>7, <1>9, <1>10, <1>11, Ops DEF BInv, TypeOK
<1>13. Shapes'
  BY <1>1, <1>7, <1>10, Ops DEF BInv, Shapes
<1>14. Direction'
  BY <1>1, <1>7, <1>10, Ops DEF BInv, Direction
<1>15. InCall'
  BY <1>1, <1>10, <1>11 DEF InCall
<1>16. Bounds'
  <2>1. cnt' >= 0
    BY <1>11
  <2> QED BY <1>1, <1>2, <1>9, <1>11, <2>1 DEF Bounds
<1> QED BY <1>12, <1>13, <1>14, <1>15, <1>16 DEF BInv

\* a stream that may be read
MayRead ==
    /\ call.op \in {"none", "fread", "fgets", "gets"}
    /\ "WRT" \notin flag /\ ("READ" \in flag \/ "RW" \in flag)

LEMMA MayReadIs ==
    ASSUME BInv, MayRead
    PROVE  /\ call # Closed /\ ~append /\ "NBF" \notin flag
           /\ (cnt > 0 => "READ" \in flag /\ based)
           /\ (~based => cnt = 0 /\ ptr = 0)
<1>1. call # Closed
  BY Ops DEF MayRead
<1>2. ~append /\ "NBF" \notin flag
  BY DEF MayRead, BInv, Direction
<1>3. cnt > 0 => "READ" \in flag
  BY <1>1 DEF MayRead, BInv, Direction
<1>4. ~based => cnt = 0 /\ ptr = 0
  BY DEF BInv, Bounds
<1>5. cnt > 0 => based
  BY <1>4
<1> QED BY <1>1, <1>2, <1>3, <1>4, <1>5

\* a step of a call that reads
LEMMA ReaderBounds ==
    ASSUME BInv, MayRead, UNCHANGED <<own, append, disk>>,
           flag' \subseteq Flags, "READ" \in flag', "WRT" \notin flag', "NBF" \notin flag',
           buf' \in Seq(Byte), pos' \in Nat, pos' <= Len(disk),
           ptr' \in Nat, cnt' \in Int, size' \in Nat, size' > 0, based' = TRUE,
           ptr' <= size', cnt' + ptr' <= size',
           ptr' <= Len(buf'), cnt' + ptr' <= Len(buf'),
           call'.op \in {"none", "fread", "fgets", "gets"},
           call'.op \in {"fread", "fgets"} => call' \in Takes,
           ret'.op \in Kinds,
           ret'.op = "get" => ret'.bytes \in Seq(Byte)
    PROVE  BInv'
<1>1. call' # Closed /\ ~append
  BY MayReadIs, Ops
<1>2. TypeOK'
  BY DEF BInv, TypeOK, Kinds
<1>3. Shapes'
  BY <1>1, Ops DEF BInv, Shapes
<1>4. Direction'
  BY <1>1 DEF Direction
<1>5. InCall'
  BY <1>1 DEF InCall
<1>6. Bounds'
  BY DEF Bounds
<1> QED BY <1>2, <1>3, <1>4, <1>5, <1>6 DEF BInv

LEMMA FilledBounds ==
    ASSUME BInv, MayRead, UNCHANGED <<own, append, disk>>,
           NEW n, NEW c, NEW p \in {0, 1}, Filled(n, c, p),
           call'.op \in {"none", "fread", "fgets", "gets"},
           call'.op \in {"fread", "fgets"} => call' \in Takes,
           ret'.op \in Kinds,
           ret'.op = "get" => ret'.bytes \in Seq(Byte)
    PROVE  BInv'
<1>1. PICK room : room = IF based THEN size ELSE Size
  OBVIOUS
<1>2. PICK m : m = Len(disk)
  OBVIOUS
<1>3. /\ room \in Nat /\ room > 0 /\ pos \in Nat /\ pos <= m /\ m \in Nat
      /\ disk \in Seq(Byte) /\ 0 <= Len(buf)
  BY <1>1, <1>2, Shape DEF BInv, TypeOK, Bounds, Shapes
<1>4. n \in 1 .. Least(room, m - pos)
  BY <1>1, <1>2 DEF Filled
<1>5. n \in Nat /\ n >= 1 /\ n <= room /\ pos + n <= m
  BY <1>3, <1>4 DEF Least
<1>6. /\ buf' = Stored(0, SubSeq(disk, pos + 1, pos + n)) /\ ptr' = p /\ cnt' = n - p
      /\ pos' = pos + n /\ flag' = flag \cup {"READ"} /\ based' = TRUE /\ size' = room
  BY <1>1 DEF Filled, AssignBuffer
<1>7. SubSeq(disk, pos + 1, pos + n) \in Seq(Byte) /\ Len(SubSeq(disk, pos + 1, pos + n)) = n
  <2>1. PICK q : q = pos + n
    OBVIOUS
  <2>2. q \in Nat /\ pos <= q /\ q <= Len(disk) /\ n = q - pos
    BY <1>2, <1>3, <1>5, <2>1
  <2>3. SubSeq(disk, pos + 1, q) \in Seq(Byte) /\ Len(SubSeq(disk, pos + 1, q)) = n
    BY <1>3, <2>2, Sub
  <2> QED BY <2>1, <2>3
<1>8. buf' \in Seq(Byte) /\ Len(buf') \in Nat /\ n <= Len(buf')
  <2>1. 0 \in Nat
    OBVIOUS
  <2>2. PICK bs : bs = SubSeq(disk, pos + 1, pos + n)
    OBVIOUS
  <2>3. 0 + Len(bs) <= Len(buf') /\ buf' \in Seq(Byte) /\ Len(buf') \in Nat
    BY <1>3, <1>6, <1>7, <2>1, <2>2, StoredTypes DEF BInv
  <2> QED BY <1>5, <1>7, <2>2, <2>3
<1>9. /\ ptr' \in Nat /\ cnt' \in Int /\ ptr' <= n /\ cnt' + ptr' = n
  BY <1>5, <1>6
<1>10. /\ ptr' <= size' /\ cnt' + ptr' <= size' /\ ptr' <= Len(buf')
       /\ cnt' + ptr' <= Len(buf')
  BY <1>3, <1>5, <1>6, <1>8, <1>9
<1>11. flag' \subseteq Flags /\ "READ" \in flag' /\ "WRT" \notin flag' /\ "NBF" \notin flag'
  BY <1>6, MayReadIs DEF MayRead, BInv, TypeOK, Flags
<1>12. size' \in Nat /\ size' > 0 /\ pos' \in Nat /\ pos' <= Len(disk)
  BY <1>2, <1>3, <1>5, <1>6
<1> QED BY <1>6, <1>8, <1>9, <1>10, <1>11, <1>12, ReaderBounds

LEMMA UnfilledBounds ==
    ASSUME BInv, MayRead, UNCHANGED <<own, append, disk>>,
           cnt <= 0, NEW c \in {cnt, cnt - 1}, Unfilled(c)
    PROVE  BInv'
<1>1. PICK room : room = IF based THEN size ELSE Size
  OBVIOUS
<1>2. /\ room \in Nat /\ room > 0 /\ pos \in Nat /\ pos <= Len(disk)
      /\ ptr \in Nat /\ cnt \in Int /\ Len(buf) \in Nat /\ ptr <= room /\ ptr <= Len(buf)
      /\ buf \in Seq(Byte)
  BY <1>1, Shape DEF BInv, TypeOK, Bounds, Shapes
<1>3. /\ UNCHANGED <<ptr, buf, pos>> /\ based' = TRUE /\ size' = room
      /\ call' = Idle /\ cnt' = IF based THEN c ELSE 0
  BY <1>1 DEF Unfilled, AssignBuffer
<1>4. cnt' \in Int /\ cnt' <= 0
  BY <1>2, <1>3
<1>5. cnt' + ptr' <= size' /\ cnt' + ptr' <= Len(buf')
  BY <1>2, <1>3, <1>4
<1>6. /\ flag' \in {flag \cup {"READ", "EOF"}, flag \cup {"READ", "ERR"}}
      /\ ret' \in {Got(<< >>), Failed}
  BY DEF Unfilled
<1>7. flag' \subseteq Flags /\ "READ" \in flag' /\ "WRT" \notin flag' /\ "NBF" \notin flag'
  BY <1>6, MayReadIs DEF MayRead, BInv, TypeOK, Flags
<1>8. /\ ret'.op \in Kinds
      /\ ret'.op = "get" => ret'.bytes \in Seq(Byte)
  BY <1>6, Ops, EmptySeq DEF Kinds
<1>9. call'.op = "none"
  BY <1>3, Ops
<1>10. size' > 0 /\ size' \in Nat /\ pos' \in Nat /\ ptr' <= size' /\ ptr' \in Nat
       /\ ptr' <= Len(buf') /\ buf' \in Seq(Byte) /\ pos' <= Len(disk)
  BY <1>2, <1>3
<1> QED BY <1>3, <1>4, <1>5, <1>7, <1>8, <1>9, <1>10, ReaderBounds
LEMMA ByteOf == ASSUME NEW s \in Seq(Byte), NEW i \in 1 .. Len(s)
                PROVE  s[i] \in Byte
BY ElementOfSeq

LEMMA FgetcBounds ==
    ASSUME BInv, MayRead, NEW next, Fgetc(next),
           \A b \in Byte : /\ next[b].op \in {"none", "fgets"}
                           /\ next[b].op = "fgets" => next[b] \in Takes
    PROVE  BInv'
<1>1. UNCHANGED <<own, append, disk>>
  BY DEF Fgetc
<1>2. /\ cnt \in Int /\ ptr \in Nat /\ size \in Nat /\ Len(buf) \in Nat /\ buf \in Seq(Byte)
      /\ disk \in Seq(Byte) /\ pos \in Nat /\ pos <= Len(disk) /\ Len(disk) \in Nat
  BY DEF BInv, TypeOK, Shapes
<1>3. ASSUME NEW b \in Byte, ret' = Got(<< b >>), call' = next[b]
      PROVE  /\ call'.op \in {"none", "fread", "fgets", "gets"}
             /\ call'.op \in {"fread", "fgets"} => call' \in Takes
             /\ ret'.op \in Kinds
             /\ ret'.op = "get" => ret'.bytes \in Seq(Byte)
  BY <1>3, One, Ops DEF Kinds
<1>4. CASE cnt <= 0 /\ Unfilled(cnt - 1)
  BY <1>1, <1>4, UnfilledBounds
<1>5. ASSUME NEW n \in 1 .. MaxLen, cnt <= 0, Filled(n, cnt - 1, 1),
             ret' = Got(<<disk[pos + 1]>>), call' = next[disk[pos + 1]]
      PROVE  BInv'
  <2>1. pos + 1 <= Len(disk)
    <3>1. PICK room : room = IF based THEN size ELSE Size
      OBVIOUS
    <3>2. n \in 1 .. Least(room, Len(disk) - pos) /\ room \in Nat
      BY <1>5, <3>1, Shape DEF Filled, BInv, TypeOK
    <3>3. Len(disk) - pos >= 1
      BY <1>2, <3>2 DEF Least
    <3> QED BY <1>2, <3>3
  <2>2. PICK i : i = pos + 1
    OBVIOUS
  <2>3. disk[i] \in Byte
    BY <1>2, <2>1, <2>2, ByteOf
  <2>4. PICK c : c = cnt - 1
    OBVIOUS
  <2>5. Filled(n, c, 1) /\ 1 \in {0, 1}
    BY <1>5, <2>4
  <2>6. PICK b \in Byte : ret' = Got(<< b >>) /\ call' = next[b]
    BY <1>5, <2>2, <2>3
  <2> QED BY <1>1, <1>3, <2>5, <2>6, FilledBounds
<1>6. CASE /\ cnt > 0 /\ ptr' = ptr + 1 /\ cnt' = cnt - 1
           /\ ret' = Got(<<buf[ptr + 1]>>) /\ call' = next[buf[ptr + 1]]
           /\ UNCHANGED <<flag, based, size, buf, pos>>
  <2>1. "READ" \in flag /\ based /\ "NBF" \notin flag /\ "WRT" \notin flag
    BY <1>6, MayReadIs DEF MayRead
  <2>2. size > 0 /\ ptr <= size /\ cnt + ptr <= size /\ cnt + ptr <= Len(buf)
    BY <2>1 DEF BInv, Bounds
  <2>3. PICK i : i = ptr + 1
    OBVIOUS
  <2>4. buf[i] \in Byte
    BY <1>2, <1>6, <2>2, <2>3, ByteOf
  <2>5. PICK b \in Byte : ret' = Got(<< b >>) /\ call' = next[b]
    BY <1>6, <2>3, <2>4
  <2>6. /\ ptr' \in Nat /\ cnt' \in Int /\ ptr' <= size' /\ cnt' + ptr' <= size'
        /\ ptr' <= Len(buf') /\ cnt' + ptr' <= Len(buf') /\ size' > 0 /\ size' \in Nat
    BY <1>2, <1>6, <2>2
  <2>7. flag' \subseteq Flags /\ based' = TRUE
    BY <1>6, <2>1 DEF BInv, TypeOK
  <2> QED BY <1>1, <1>2, <1>3, <1>6, <2>1, <2>5, <2>6, <2>7, ReaderBounds
<1> QED BY <1>4, <1>5, <1>6 DEF Fgetc

LEMMA GetcBounds ==
    ASSUME BInv, Getc
    PROVE  BInv'
<1>1. MayRead
  BY DEF Getc, Calling, MayGet, MayRead, BInv, Direction
<1>2. PICK next : next = [b \in Byte |-> Idle]
  OBVIOUS
<1>3. \A b \in Byte : /\ next[b].op \in {"none", "fgets"}
                      /\ next[b].op = "fgets" => next[b] \in Takes
  BY <1>2, Ops
<1>4. Fgetc(next)
  BY <1>2 DEF Getc
<1> QED BY <1>1, <1>3, <1>4, FgetcBounds

LEMMA FgetsByteBounds ==
    ASSUME BInv, FgetsByte
    PROVE  BInv'
<1>1. call.op = "fgets" /\ call \in Takes /\ call # Closed
  BY Ops DEF FgetsByte, BInv, Shapes
<1>2. MayRead
  BY <1>1 DEF MayRead, BInv, Direction, InCall
<1>3. PICK next : next = [b \in Byte |-> IF b = Newline \/ call.left = 1 THEN Idle
                                       ELSE [call EXCEPT !.left = @ - 1]]
  OBVIOUS
<1>4. ASSUME NEW b \in Byte
      PROVE  /\ next[b].op \in {"none", "fgets"}
             /\ next[b].op = "fgets" => next[b] \in Takes
  <2>1. CASE b = Newline \/ call.left = 1
    BY <1>3, <2>1, Ops
  <2>2. CASE ~(b = Newline \/ call.left = 1)
    <3>1. next[b] = [call EXCEPT !.left = call.left - 1]
      BY <1>3, <2>2
    <3>2. call.left - 1 \in Nat \ {0}
      BY <1>1, <2>2 DEF Takes
    <3>3. next[b] \in Takes /\ next[b].op = "fgets"
      BY <1>1, <3>1, <3>2 DEF Takes
    <3> QED BY <3>3
  <2> QED BY <2>1, <2>2
<1>5. Fgetc(next)
  BY <1>3 DEF FgetsByte
<1> QED BY <1>2, <1>4, <1>5, FgetcBounds

\* a step that leaves the stream as it is
LEMMA StillBounds ==
    ASSUME BInv, UNCHANGED <<flag, cnt, ptr, based, size, buf, own, append, disk, pos>>,
           call # Closed,
           call'.op = "none" \/ (MayRead /\ call'.op \in {"fread", "fgets", "gets"}),
           call'.op \in {"fread", "fgets"} => call' \in Takes,
           UNCHANGED ret \/ ret'.op \in {"void", "error", "tell", "seek"}
    PROVE  BInv'
<1>1. call' # Closed
  BY Ops
<1>2. TypeOK'
  BY DEF BInv, TypeOK
<1>3. Shapes'
  BY <1>1, Ops DEF BInv, Shapes
<1>4. Direction'
  BY <1>1 DEF BInv, Direction
<1>5. InCall'
  BY MayReadIs DEF BInv, InCall, MayRead
<1>6. Bounds'
  BY DEF BInv, Bounds
<1> QED BY <1>2, <1>3, <1>4, <1>5, <1>6 DEF BInv

LEMMA ReadsBounds ==
    ASSUME BInv, NEW n, NEW op \in {"fread", "fgets", "gets"}, Reads(op, n),
           op = "gets" \/ n \in Lengths
    PROVE  BInv'
<1>1. call.op = "none" /\ call # Closed
  BY Ops DEF Reads, Calling
<1>2. MayRead
  BY <1>1 DEF Reads, MayGet, MayRead, BInv, Direction
<1>3. call' = [op |-> op, left |-> n]
  BY DEF Reads
<1>4. call'.op \in {"fread", "fgets"} => call' \in Takes
  BY <1>3, Shape DEF Takes
<1>5. UNCHANGED <<flag, cnt, ptr, based, size, buf, own, append, disk, pos, ret>>
  BY DEF Reads
<1> QED BY <1>1, <1>2, <1>3, <1>4, <1>5, StillBounds

LEMMA RefillBounds ==
    ASSUME BInv, Refill
    PROVE  BInv'
<1>1. /\ call.op \in {"fread", "gets"} /\ call # Closed /\ cnt <= 0
      /\ UNCHANGED <<own, append, disk>>
  BY Ops DEF Refill
<1>2. MayRead
  BY <1>1 DEF MayRead, BInv, Direction, InCall
<1>3. CASE Unfilled(cnt)
  BY <1>1, <1>2, <1>3, UnfilledBounds
<1>4. CASE (\E n \in 1 .. MaxLen : Filled(n, cnt, 0)) /\ UNCHANGED <<call, ret>>
  <2>1. PICK n \in 1 .. MaxLen : Filled(n, cnt, 0)
    BY <1>4
  <2>2. call'.op \in {"fread", "fgets"} => call' \in Takes
    BY <1>4 DEF BInv, Shapes
  <2>3. ret'.op \in Kinds /\ (ret'.op = "get" => ret'.bytes \in Seq(Byte))
    BY <1>4 DEF BInv, Shapes, TypeOK, Kinds
  <2>4. 0 \in {0, 1} /\ call'.op \in {"none", "fread", "fgets", "gets"}
    BY <1>1, <1>4
  <2> QED BY <1>1, <1>2, <2>1, <2>2, <2>3, <2>4, FilledBounds
<1> QED BY <1>1, <1>3, <1>4 DEF Refill
LEMMA TakeBounds ==
    ASSUME BInv, MayRead, NEW n \in Nat, n >= 1, n <= cnt, NEW then, Take(n, then),
           then.op \in {"none", "fread", "fgets", "gets"},
           then.op \in {"fread", "fgets"} => then \in Takes
    PROVE  BInv'
<1>1. /\ cnt \in Int /\ ptr \in Nat /\ size \in Nat /\ Len(buf) \in Nat /\ buf \in Seq(Byte)
      /\ pos \in Nat /\ pos <= Len(disk)
  BY DEF BInv, TypeOK, Shapes
<1>2. "READ" \in flag /\ based /\ "NBF" \notin flag /\ "WRT" \notin flag
  <2>1. cnt > 0
    BY <1>1
  <2> QED BY <2>1, MayReadIs DEF MayRead
<1>3. size > 0 /\ ptr <= size /\ cnt + ptr <= size /\ cnt + ptr <= Len(buf)
  BY <1>2 DEF BInv, Bounds
<1>4. /\ ptr' = ptr + n /\ cnt' = cnt - n /\ call' = then
      /\ ret' = Got(SubSeq(buf, ptr + 1, ptr + n))
      /\ UNCHANGED <<flag, based, size, buf, own, append, disk, pos>>
  BY DEF Take
<1>5. SubSeq(buf, ptr + 1, ptr + n) \in Seq(Byte)
  <2>1. PICK q : q = ptr + n
    OBVIOUS
  <2>2. q \in Nat /\ ptr <= q /\ q <= Len(buf) /\ n = q - ptr
    BY <1>1, <1>3, <2>1
  <2>3. SubSeq(buf, ptr + 1, q) \in Seq(Byte)
    BY <1>1, <2>2, Sub
  <2> QED BY <2>1, <2>3
<1>6. /\ ptr' \in Nat /\ cnt' \in Int /\ ptr' <= size' /\ cnt' + ptr' <= size'
      /\ ptr' <= Len(buf') /\ cnt' + ptr' <= Len(buf') /\ size' > 0 /\ size' \in Nat
  BY <1>1, <1>3, <1>4
<1>7. flag' \subseteq Flags /\ based' = TRUE
  BY <1>2, <1>4 DEF BInv, TypeOK
<1>8. ret'.op \in Kinds /\ (ret'.op = "get" => ret'.bytes \in Seq(Byte))
  BY <1>4, <1>5, Ops DEF Kinds
<1> QED BY <1>1, <1>2, <1>4, <1>6, <1>7, <1>8, ReaderBounds

LEMMA FreadCopyBounds ==
    ASSUME BInv, FreadCopy
    PROVE  BInv'
<1>1. call.op = "fread" /\ call \in Takes /\ cnt > 0
  BY DEF FreadCopy, BInv, Shapes
<1>2. MayRead
  BY <1>1, Ops DEF MayRead, BInv, Direction, InCall
<1>3. PICK n : n = Least(cnt, call.left)
  OBVIOUS
<1>4. PICK then : then = IF n = call.left THEN Idle ELSE [call EXCEPT !.left = call.left - n]
  OBVIOUS
<1>5. Take(n, then)
  BY <1>3, <1>4 DEF FreadCopy
<1>6. call.left \in Nat \ {0} /\ cnt \in Int
  BY <1>1 DEF Takes, BInv, TypeOK
<1>7. n \in Nat /\ n >= 1 /\ n <= cnt /\ n <= call.left
  BY <1>1, <1>3, <1>6 DEF Least
<1>8. /\ then.op \in {"none", "fread", "fgets", "gets"}
      /\ then.op \in {"fread", "fgets"} => then \in Takes
  <2>1. CASE n = call.left
    BY <1>4, <2>1, Ops
  <2>2. CASE n # call.left
    <3>1. then = [call EXCEPT !.left = call.left - n]
      BY <1>4, <2>2
    <3>2. call.left - n \in Nat \ {0}
      BY <1>6, <1>7, <2>2
    <3>3. then \in Takes /\ then.op = "fread"
      BY <1>1, <3>1, <3>2 DEF Takes
    <3> QED BY <3>3
  <2> QED BY <2>1, <2>2
<1> QED BY <1>2, <1>5, <1>7, <1>8, TakeBounds

LEMMA GetsCopyBounds ==
    ASSUME BInv, GetsCopy
    PROVE  BInv'
<1>1. call.op = "gets" /\ cnt > 0 /\ cnt \in Int
  BY DEF GetsCopy, BInv, TypeOK
<1>2. MayRead
  BY <1>1, Ops DEF MayRead, BInv, Direction, InCall
<1>3. PICK n \in 1 .. cnt, then \in {call, Idle} : Take(n, then)
  <2>1. cnt \in 1 .. cnt
    BY <1>1
  <2> QED BY <2>1 DEF GetsCopy
<1>4. then.op \in {"none", "gets"}
  BY <1>1, <1>3, Ops
<1>5. n \in Nat /\ n >= 1 /\ n <= cnt
  BY <1>1
<1> QED BY <1>2, <1>3, <1>4, <1>5, TakeBounds

LEMMA UngetcBounds ==
    ASSUME BInv, Ungetc
    PROVE  BInv'
<1>1. /\ call.op = "none" /\ call # Closed /\ ret.op = "get" /\ Len(ret.bytes) = 1
      /\ ret.bytes \in Seq(Byte) /\ "READ" \in flag
      /\ UNCHANGED <<based, size, own, append, disk, pos>>
  BY Ops DEF Ungetc, Calling, BInv, Direction, Shapes
<1>2. MayRead /\ "NBF" \notin flag
  BY <1>1 DEF MayRead, BInv, Direction
<1>3. CASE ptr = 0
  <2>1. call' = Idle /\ ret' = Failed /\ UNCHANGED <<ptr, buf, cnt, flag>>
    BY <1>3 DEF Ungetc, Returns
  <2> QED BY <1>1, <2>1, StillBounds, Ops
<1>4. CASE ptr # 0
  <2>1. /\ ptr' = ptr - 1 /\ cnt' = cnt + 1 /\ buf' = Stored(ptr - 1, ret.bytes)
        /\ flag' = flag \ {"EOF"} /\ call' = Idle /\ ret' = Returned
    BY <1>4 DEF Ungetc, Returns
  <2>2. /\ cnt \in Int /\ ptr \in Nat /\ size \in Nat /\ Len(buf) \in Nat
        /\ pos \in Nat /\ pos <= Len(disk) /\ ptr > 0 /\ ptr <= Len(buf)
        /\ cnt + ptr <= Len(buf)
    BY <1>1, <1>4 DEF BInv, TypeOK, Shapes, Bounds
  <2>3. based /\ size > 0 /\ ptr <= size /\ cnt + ptr <= size
    BY <1>4 DEF BInv, Bounds
  <2>4. buf' \in Seq(Byte) /\ Len(buf') \in Nat /\ Len(buf) <= Len(buf')
    <3>1. PICK p : p = ptr - 1
      OBVIOUS
    <3>2. p \in Nat /\ p <= Len(buf)
      BY <2>2, <3>1
    <3> QED BY <1>1, <2>1, <3>1, <3>2, StoredTypes DEF BInv
  <2>5. /\ ptr' \in Nat /\ cnt' \in Int /\ ptr' <= size' /\ cnt' + ptr' <= size'
        /\ ptr' <= Len(buf') /\ cnt' + ptr' <= Len(buf') /\ size' > 0 /\ size' \in Nat
    BY <1>1, <2>1, <2>2, <2>3, <2>4
  <2>6. /\ flag' \subseteq Flags /\ "READ" \in flag' /\ "WRT" \notin flag'
        /\ "NBF" \notin flag' /\ based' = TRUE
    BY <1>1, <1>2, <2>1, <2>3 DEF BInv, TypeOK, MayRead
  <2>7. ret'.op \in Kinds /\ ret'.op # "get" /\ call'.op = "none"
    BY <2>1, Ops DEF Kinds
  <2>8. pos' \in Nat /\ pos' <= Len(disk)
    BY <1>1, <2>2
  <2> QED BY <1>1, <1>2, <2>4, <2>5, <2>6, <2>7, <2>8, ReaderBounds
<1> QED BY <1>3, <1>4

LEMMA FtellBounds ==
    ASSUME BInv, Ftell
    PROVE  BInv'
<1>1. /\ call.op = "none" /\ call # Closed /\ call' = Idle
      /\ UNCHANGED <<flag, ptr, based, size, buf, own, append, disk, pos>>
  BY Ops DEF Ftell, Calling, Returns
<1>2. ret' = Failed \/ \E n : ret' = Told(n)
  BY DEF Ftell, Returns
<1>3. ret'.op \in {"error", "tell"}
  BY <1>2, Ops
<1>4. cnt' \in Nat /\ cnt \in Int /\ (cnt' = cnt \/ cnt' = 0)
  BY DEF Ftell, Natural, BInv, TypeOK
<1>5. TypeOK'
  BY <1>1, <1>3, <1>4, Ops DEF BInv, TypeOK
<1>6. Shapes'
  BY <1>1, <1>3, Ops DEF BInv, Shapes
<1>7. Direction'
  <2>1. cnt = 0 => cnt' = 0
    BY <1>4
  <2> QED BY <1>1, <1>3, <2>1, Ops DEF BInv, Direction
<1>8. InCall'
  BY <1>1, Ops DEF InCall
<1>9. Bounds'
  <2>1. /\ ptr \in Nat /\ size \in Nat /\ Len(buf) \in Nat
    BY DEF BInv, TypeOK
  <2>2. cnt' >= 0 /\ (cnt' + ptr = cnt + ptr \/ cnt' + ptr = ptr)
    <3>1. cnt' = 0 => cnt' + ptr = ptr
      BY <2>1
    <3>2. cnt' >= 0
      BY <1>4
    <3> QED BY <1>4, <3>1, <3>2
  <2> QED BY <1>1, <1>4, <2>1, <2>2 DEF BInv, Bounds
<1> QED BY <1>5, <1>6, <1>7, <1>8, <1>9 DEF BInv

LEMMA SetvbufBounds ==
    ASSUME BInv, NEW n \in Buffers, Setvbuf(n)
    PROVE  BInv'
<1>1. /\ call.op = "none" /\ call # Closed /\ call' = Idle /\ ret' = Void
      /\ UNCHANGED <<flag, buf, own, append, disk, pos>>
      /\ ptr' = 0 /\ cnt' = 0 /\ based' = TRUE /\ size' = n - (n % Unit)
  BY Ops DEF Setvbuf, Calling, Returns
<1>2. n \in Nat /\ Unit \in Nat \ {0} /\ n >= Unit
  BY Shape DEF Setvbuf
<1>3. n % Unit \in 0 .. (Unit - 1)
  BY <1>2
<1>4. size' \in Nat /\ size' > 0
  BY <1>1, <1>2, <1>3
<1>5. TypeOK'
  BY <1>1, <1>4, Ops DEF BInv, TypeOK
<1>6. Shapes'
  BY <1>1, Ops DEF BInv, Shapes
<1>7. Direction'
  BY <1>1, Ops DEF BInv, Direction
<1>8. InCall'
  BY <1>1, Ops DEF InCall
<1>9. Bounds'
  <2>1. Len(buf) \in Nat
    BY DEF BInv, TypeOK
  <2> QED BY <1>1, <1>4, <2>1 DEF Bounds
<1> QED BY <1>5, <1>6, <1>7, <1>8, <1>9 DEF BInv

LEMMA FcloseBounds ==
    ASSUME BInv, Fclose
    PROVE  BInv'
<1>1. /\ flag' = {} /\ call' = Closed /\ ret' = Void
      /\ UNCHANGED <<based, size, buf, append>> /\ (Flushes \/ FlushFails)
      /\ \/ ptr' = PtrFlushed /\ cnt' = CntFlushed(cnt)
         \/ UNCHANGED <<ptr, cnt>>
  BY DEF Fclose
<1>2. /\ cnt \in Int /\ ptr \in Nat /\ size \in Nat /\ Len(buf) \in Nat /\ ptr <= Len(buf)
  BY DEF BInv, TypeOK, Bounds
<1>3. /\ disk' \in Seq(Byte) /\ pos' \in Nat /\ pos' <= Len(disk') /\ own' \in BOOLEAN
  BY <1>1, FlushTypes DEF BInv
<1>4. ptr' \in Nat /\ cnt' \in Int /\ ptr' <= ptr /\ ptr' + cnt' = ptr + cnt
  <2>1. CASE ptr' = PtrFlushed /\ cnt' = CntFlushed(cnt)
    BY <1>2, <2>1, FlushedSum DEF BInv
  <2>2. CASE UNCHANGED <<ptr, cnt>>
    BY <1>2, <2>2
  <2> QED BY <1>1, <2>1, <2>2
<1>5. TypeOK'
  BY <1>1, <1>3, <1>4, Ops DEF BInv, TypeOK
<1>6. Shapes'
  BY <1>1, <1>3, Ops DEF Shapes
<1>7. Direction'
  BY <1>1, Ops DEF Direction
<1>8. InCall'
  BY <1>1, Ops DEF InCall
<1>9. Bounds'
  <2>1. cnt = 0 /\ ptr = 0 => cnt' = 0 /\ ptr' = 0
    BY <1>2, <1>4, SameSum
  <2>2. ptr <= size /\ cnt + ptr <= size => ptr' <= size /\ cnt' + ptr' <= size
    BY <1>2, <1>4, SameSum
  <2>3. ptr' <= Len(buf)
    BY <1>2, <1>4
  <2> QED BY <1>1, <2>1, <2>2, <2>3 DEF BInv, Bounds
<1> QED BY <1>5, <1>6, <1>7, <1>8, <1>9 DEF BInv
\* where a stream is that does not append
LEMMA AtIs ==
    ASSUME BInv, call # Closed, ~append
    PROVE  /\ WriteAt = pos
           /\ "WRT" \in flag => At = pos + ptr /\ Len(Pending) = ptr
           /\ "WRT" \notin flag => Pending = << >> /\ Content = disk
           /\ "WRT" \notin flag /\ "READ" \in flag => At = pos - Natural(cnt)
           /\ "WRT" \notin flag /\ "READ" \notin flag => At = pos
<1>1. WriteAt = pos
  BY DEF WriteAt
<1>2. Len(Pending) = IF "WRT" \in flag THEN ptr ELSE 0
  BY PendingIs DEF BInv
<1>3. Pending = << >> => Len(Pending) = 0
  BY EmptySeq
<1>4. ASSUME "WRT" \notin flag
      PROVE  Pending = << >> /\ Content = disk
  <2>1. Pending = << >>
    BY <1>4 DEF Pending
  <2>2. disk \in Seq(Byte) /\ WriteAt \in 0 .. Len(disk)
    BY PendingIs DEF BInv, TypeOK
  <2> QED BY <2>1, <2>2, OverNone DEF Content
<1>5. At = pos + Len(Pending) - (IF "READ" \in flag THEN Natural(cnt) ELSE 0)
  BY DEF At
<1>6. pos \in Nat /\ cnt \in Int /\ Natural(cnt) \in Nat /\ Len(Pending) \in Nat
  BY PendingIs DEF BInv, TypeOK, Natural
<1>7. "WRT" \in flag => "READ" \notin flag
  BY DEF BInv, Direction
<1>8. "READ" \notin flag => At = pos + Len(Pending)
  BY <1>5, <1>6
<1>9. "WRT" \notin flag /\ "READ" \in flag => At = pos - Natural(cnt)
  BY <1>3, <1>4, <1>5, <1>6
<1>10. "WRT" \notin flag /\ "READ" \notin flag => At = pos
  <2>1. Len(Pending) = 0 => pos + Len(Pending) = pos
    BY <1>6
  <2> QED BY <1>3, <1>4, <1>8, <2>1
<1> QED BY <1>1, <1>2, <1>4, <1>7, <1>8, <1>9, <1>10

\* The descriptor or the buffer is moved to where the program wants to be.
LEMMA SeekReadIs ==
    ASSUME BInv, NEW to \in 0 .. Len(Content), NEW origin \in {"set", "cur", "end"},
           NEW cleared, call.op = "none", FseekSafe(to, origin),
           SeekRead(to, origin, cleared)
    PROVE  /\ call # Closed /\ "READ" \in flag /\ "WRT" \notin flag /\ "NBF" \notin flag
           /\ ~append /\ own /\ Content = disk /\ to \in Nat /\ to <= Len(disk)
           /\ UNCHANGED <<based, size, buf, own, append, disk>>
           /\ call' = Idle /\ ret' = Sought(to)
           /\ \/ /\ cnt > 0 /\ cnt' \in Nat /\ ptr' \in Nat /\ cnt' + ptr' = cnt + ptr
                 /\ pos' = pos /\ pos - cnt' = to /\ flag' = flag \ cleared
              \/ /\ pos' = to /\ cnt' = 0
                 /\ \/ "RW" \in flag /\ ptr' = 0 /\ flag' = flag \ (cleared \cup {"READ"})
                    \/ "RW" \notin flag /\ ptr' = ptr /\ flag' = flag \ cleared
<1>1. /\ call # Closed /\ "READ" \in flag /\ "WRT" \notin flag /\ "NBF" \notin flag
      /\ ~append /\ own
  BY Ops DEF SeekRead, FseekSafe, BInv, Direction
<1>2. Content = disk /\ At = pos - Natural(cnt)
  BY <1>1, AtIs
<1>3. /\ UNCHANGED <<based, size, buf, own, append, disk>>
      /\ call' = Idle /\ ret' = Sought(to)
  BY DEF SeekRead, Returns
<1>4. /\ cnt \in Int /\ ptr \in Nat /\ pos \in Nat /\ Len(disk) \in Nat
      /\ to \in Nat /\ to <= Len(disk)
  BY <1>2 DEF BInv, TypeOK
<1>5. PICK looks : looks = (origin # "end" /\ based /\ "NBF" \notin flag)
  OBVIOUS
<1>6. PICK o : o = Offset(to, origin)
  OBVIOUS
<1>7. PICK p : p = IF origin = "set" THEN to + cnt - pos ELSE o
  OBVIOUS
<1>8. PICK off : off = IF looks /\ origin = "cur" THEN o - cnt ELSE o
  OBVIOUS
<1>9. IF looks /\ InReach(p)
      THEN /\ ptr' = ptr + p /\ cnt' = cnt - p
           /\ flag' = flag \ cleared
           /\ UNCHANGED pos
      ELSE /\ pos' = Lseek(pos, Len(disk), off, origin)
           /\ cnt' = 0
           /\ ptr' = IF "RW" \in flag THEN 0 ELSE ptr
           /\ flag' = flag \ (cleared \cup IF "RW" \in flag THEN {"READ"} ELSE {})
  BY <1>5, <1>6, <1>7, <1>8 DEF SeekRead
<1>10. CASE looks /\ InReach(p)
  <2>1. cnt > 0 /\ p <= cnt /\ (ptr = 0 \/ (p < 0 /\ p >= -ptr))
    BY <1>10 DEF InReach
  <2>2. At = pos - cnt /\ At \in Int
    BY <1>2, <1>4, <2>1 DEF Natural
  <2>3. p = to - At
    <3>1. CASE origin = "set"
      BY <1>4, <1>7, <2>2, <3>1
    <3>2. CASE origin = "cur"
      BY <1>6, <1>7, <3>2 DEF Offset
    <3> QED BY <1>5, <1>10, <3>1, <3>2
  <2>4. ptr = 0 => to >= At
    BY <1>1, <2>1 DEF FseekSafe
  <2>5. ptr' = ptr + p /\ cnt' = cnt - p /\ flag' = flag \ cleared /\ pos' = pos
    BY <1>9, <1>10
  <2>6. /\ cnt' \in Nat /\ ptr' \in Nat /\ cnt' + ptr' = cnt + ptr
        /\ pos - cnt' = to
    <3>1. p \in Int
      BY <1>4, <2>2, <2>3
    <3>2. ptr = 0 => p >= 0
      BY <1>4, <2>2, <2>3, <2>4
    <3> QED BY <1>4, <2>1, <2>2, <2>3, <2>5, <3>1, <3>2
  <2> QED BY <1>1, <1>2, <1>3, <1>4, <2>1, <2>5, <2>6
<1>11. CASE ~(looks /\ InReach(p))
  <2>1. /\ pos' = Lseek(pos, Len(disk), off, origin) /\ cnt' = 0
        /\ ptr' = IF "RW" \in flag THEN 0 ELSE ptr
        /\ flag' = flag \ (cleared \cup IF "RW" \in flag THEN {"READ"} ELSE {})
    BY <1>9, <1>11
  <2>2. Lseek(pos, Len(disk), off, origin) = to
    <3>1. CASE origin = "set"
      BY <1>6, <1>8, <3>1 DEF Offset, Lseek
    <3>2. CASE origin = "cur"
      <4>1. cnt >= 0 /\ (~based => cnt = 0)
        BY <3>2 DEF FseekSafe, BInv, Bounds
      <4>2. At = pos - cnt
        BY <1>2, <1>4, <4>1 DEF Natural
      <4>3. o = to - At
        BY <1>6, <3>2 DEF Offset
      <4>4. looks \/ cnt = 0
        BY <1>1, <1>5, <3>2, <4>1
      <4>5. off = to - pos
        <5>1. o = to - pos + cnt
          BY <1>4, <4>2, <4>3
        <5>2. off = o - cnt
          <6>1. CASE looks
            BY <1>8, <3>2, <6>1
          <6>2. CASE ~looks
            BY <1>4, <1>8, <4>4, <5>1, <6>2
          <6> QED BY <6>1, <6>2
        <5> QED BY <1>4, <5>1, <5>2
      <4>6. pos + off = to
        BY <1>4, <4>5
      <4> QED BY <3>2, <4>6 DEF Lseek
    <3>3. CASE origin = "end"
      <4>1. off = to - Len(disk)
        BY <1>2, <1>6, <1>8, <3>3 DEF Offset
      <4>2. Len(disk) + off = to
        BY <1>4, <4>1
      <4> QED BY <3>3, <4>2 DEF Lseek
    <3> QED BY <3>1, <3>2, <3>3
  <2>3. CASE "RW" \in flag
    BY <1>1, <1>2, <1>3, <1>4, <2>1, <2>2, <2>3
  <2>4. CASE "RW" \notin flag
    <3>1. flag' = flag \ cleared /\ ptr' = ptr
      BY <2>1, <2>4
    <3> QED BY <1>1, <1>2, <1>3, <1>4, <2>1, <2>2, <2>4, <3>1
  <2> QED BY <2>3, <2>4
<1> QED BY <1>10, <1>11

LEMMA SumBelow ==
    ASSUME NEW c \in Int, NEW p \in Nat, NEW d \in Nat, NEW q \in Nat, NEW z \in Nat,
           d + q = c + p, c + p <= z
    PROVE  q <= z /\ d + q <= z
OBVIOUS

LEMMA ZeroPlus ==
    ASSUME NEW p \in Nat, NEW c, c = 0
    PROVE  c + p = p /\ p + c = p
OBVIOUS

LEMMA MinusZero == ASSUME NEW p \in Nat, NEW c, c = 0
                   PROVE  p - c = p
OBVIOUS

LEMMA SeekReadBounds ==
    ASSUME BInv, NEW to \in 0 .. Len(Content), NEW origin \in {"set", "cur", "end"},
           NEW cleared, cleared \subseteq {"EOF", "ERR"}, call.op = "none",
           FseekSafe(to, origin), SeekRead(to, origin, cleared)
    PROVE  BInv'
<1>1. /\ call # Closed /\ "READ" \in flag /\ "WRT" \notin flag /\ "NBF" \notin flag
      /\ ~append /\ to \in Nat /\ to <= Len(disk)
      /\ UNCHANGED <<based, size, buf, own, append, disk>>
      /\ call' = Idle /\ ret' = Sought(to)
  BY SeekReadIs
<1>2. /\ cnt \in Int /\ ptr \in Nat /\ size \in Nat /\ Len(buf) \in Nat
      /\ pos \in Nat /\ pos <= Len(disk)
      /\ (~based => cnt = 0 /\ ptr = 0)
      /\ (based => size > 0 /\ ptr <= size /\ cnt + ptr <= size)
      /\ ptr <= Len(buf) /\ cnt + ptr <= Len(buf)
  BY <1>1 DEF BInv, TypeOK, Shapes, Bounds
<1>3. CASE /\ cnt > 0 /\ cnt' \in Nat /\ ptr' \in Nat /\ cnt' + ptr' = cnt + ptr
           /\ pos' = pos /\ flag' = flag \ cleared
  <2>1. MayRead /\ based /\ based' = TRUE
    BY <1>1, <1>2, <1>3, MayReadIs DEF MayRead
  <2>2. /\ flag' \subseteq Flags /\ "READ" \in flag' /\ "WRT" \notin flag' /\ "NBF" \notin flag'
    BY <1>1, <1>3 DEF BInv, TypeOK
  <2>3. /\ cnt' \in Int /\ ptr' <= size' /\ cnt' + ptr' <= size'
        /\ ptr' <= Len(buf') /\ cnt' + ptr' <= Len(buf') /\ size' > 0 /\ size' \in Nat
    <3>1. size > 0 /\ cnt + ptr <= size
      BY <1>2, <2>1
    <3>2. ptr' <= size /\ cnt' + ptr' <= size
      BY <1>2, <1>3, <3>1, SumBelow
    <3>3. ptr' <= Len(buf) /\ cnt' + ptr' <= Len(buf)
      BY <1>2, <1>3, SumBelow
    <3>4. cnt' \in Int
      BY <1>3
    <3> QED BY <1>1, <1>2, <3>1, <3>2, <3>3, <3>4
  <2>4. buf' \in Seq(Byte) /\ pos' \in Nat /\ pos' <= Len(disk)
    BY <1>1, <1>2, <1>3 DEF BInv, TypeOK
  <2>5. ret'.op \in Kinds /\ ret'.op # "get" /\ call'.op = "none"
    BY <1>1, Ops DEF Kinds
  <2> QED BY <1>1, <1>3, <2>1, <2>2, <2>3, <2>4, <2>5, ReaderBounds
<1>4. CASE /\ pos' = to /\ cnt' = 0
           /\ \/ "RW" \in flag /\ ptr' = 0 /\ flag' = flag \ (cleared \cup {"READ"})
              \/ "RW" \notin flag /\ ptr' = ptr /\ flag' = flag \ cleared
  <2>1. /\ flag' \subseteq Flags /\ "WRT" \notin flag' /\ "NBF" \notin flag'
        /\ ("READ" \in flag' \/ ("RW" \in flag' /\ ptr' = 0))
        /\ ptr' \in Nat /\ (ptr' = ptr \/ ptr' = 0)
    BY <1>1, <1>2, <1>4 DEF BInv, TypeOK
  <2>2. ret'.op = "seek" /\ call'.op = "none" /\ call' # Closed
    BY <1>1, Ops
  <2>3. TypeOK'
    BY <1>1, <1>4, <2>1, <2>2 DEF BInv, TypeOK
  <2>4. Shapes'
    BY <1>1, <1>4, <2>2 DEF BInv, Shapes
  <2>5. Direction'
    BY <1>1, <1>4, <2>1, <2>2 DEF Direction
  <2>6. InCall'
    BY <2>2 DEF InCall
  <2>7. Bounds'
    <3>1. /\ (based => ptr' <= size /\ cnt' + ptr' <= size)
          /\ ptr' <= Len(buf) /\ cnt' + ptr' <= Len(buf)
      <4>1. cnt' + ptr' = ptr'
        <5>1. cnt' = 0 /\ ptr' \in Nat
          BY <1>4, <2>1
        <5> QED BY <5>1, ZeroPlus
      <4>2. ptr' <= ptr
        BY <1>2, <2>1
      <4>3. ptr <= size => ptr' <= size
        BY <1>2, <2>1, <4>2
      <4>4. ptr' <= Len(buf)
        BY <1>2, <2>1, <4>2
      <4> QED BY <1>2, <4>1, <4>3, <4>4
    <3>2. ~based => ptr' = 0
      BY <1>2, <2>1
    <3> QED BY <1>1, <1>2, <1>4, <2>1, <3>1, <3>2 DEF Bounds
  <2> QED BY <2>3, <2>4, <2>5, <2>6, <2>7 DEF BInv
<1> QED BY <1>3, <1>4, SeekReadIs
LEMMA SeekWriteIs ==
    ASSUME BInv, NEW to \in 0 .. Len(Content), NEW origin \in {"set", "cur", "end"},
           NEW cleared, call.op = "none", FseekSafe(to, origin),
           SeekWrite(to, origin, cleared)
    PROVE  /\ call # Closed /\ "READ" \notin flag /\ ~append /\ own
           /\ UNCHANGED <<based, size, buf, append>> /\ call' = Idle
           /\ flag' = flag \ (cleared \cup IF "RW" \in flag THEN {"WRT"} ELSE {})
           /\ \/ /\ disk' = Content /\ pos' = to /\ own' = own /\ ret' = Sought(to)
                 /\ ptr' = (IF "RW" \in flag THEN 0 ELSE PtrFlushed)
                 /\ cnt' = (IF "RW" \in flag THEN 0 ELSE CntFlushed(cnt))
              \/ /\ FlushFails /\ ret' = Failed
                 /\ ptr' = (IF "RW" \in flag THEN 0 ELSE ptr)
                 /\ cnt' = (IF "RW" \in flag THEN 0 ELSE cnt)
<1>1. /\ call # Closed /\ "READ" \notin flag /\ ~append /\ own
      /\ UNCHANGED <<based, size, buf, append>> /\ call' = Idle
      /\ flag' = flag \ (cleared \cup IF "RW" \in flag THEN {"WRT"} ELSE {})
  BY Ops DEF SeekWrite, FseekSafe, Returns
<1>2. CASE /\ disk' = Overwritten(disk, WriteAt, Pending)
           /\ pos' = Lseek(IF Pending = << >> THEN pos ELSE WriteAt + Len(Pending),
                           Len(disk'), Offset(to, origin), origin)
           /\ own' = own
           /\ ptr' = IF "RW" \in flag THEN 0 ELSE PtrFlushed
           /\ cnt' = IF "RW" \in flag THEN 0 ELSE CntFlushed(cnt)
           /\ Returns(IF own THEN Sought(to) ELSE Failed)
  <2>1. disk' = Content
    BY <1>2 DEF Content
  <2>2. PICK from : from = IF Pending = << >> THEN pos ELSE WriteAt + Len(Pending)
    OBVIOUS
  <2>3. /\ pos \in Nat /\ to \in Nat /\ Len(Content) \in Nat /\ Len(Pending) \in Nat
        /\ (Pending = << >> => Len(Pending) = 0)
    BY PendingIs, EmptySeq DEF BInv, TypeOK
  <2>4. from = At /\ At \in Nat
    <3>1. WriteAt = pos
      BY <1>1, AtIs
    <3>2. from = pos + Len(Pending)
      BY <2>2, <2>3, <3>1
    <3>3. At = pos + Len(Pending)
      <4>1. CASE "WRT" \in flag
        BY <1>1, <4>1, AtIs
      <4>2. CASE "WRT" \notin flag
        BY <1>1, <2>3, <4>2, AtIs
      <4> QED BY <4>1, <4>2
    <3> QED BY <2>3, <3>2, <3>3
  <2>5. Lseek(from, Len(Content), Offset(to, origin), origin) = to
    <3>1. CASE origin = "set"
      BY <3>1 DEF Offset, Lseek
    <3>2. CASE origin = "cur"
      <4>1. Offset(to, origin) = to - At
        BY <3>2 DEF Offset
      <4>2. from + (to - At) = to
        BY <2>3, <2>4
      <4> QED BY <3>2, <4>1, <4>2 DEF Lseek
    <3>3. CASE origin = "end"
      <4>1. Offset(to, origin) = to - Len(Content)
        BY <3>3 DEF Offset
      <4>2. Len(Content) + (to - Len(Content)) = to
        BY <2>3
      <4> QED BY <3>3, <4>1, <4>2 DEF Lseek
    <3> QED BY <3>1, <3>2, <3>3
  <2>6. pos' = to
    BY <1>2, <2>1, <2>2, <2>5
  <2>7. ret' = Sought(to)
    BY <1>1, <1>2 DEF Returns
  <2> QED BY <1>1, <1>2, <2>1, <2>6, <2>7
<1>3. CASE /\ FlushFails
           /\ ptr' = IF "RW" \in flag THEN 0 ELSE ptr
           /\ cnt' = IF "RW" \in flag THEN 0 ELSE cnt
           /\ Returns(Failed)
  BY <1>1, <1>3 DEF Returns
<1> QED BY <1>2, <1>3 DEF SeekWrite

LEMMA SeekWriteBounds ==
    ASSUME BInv, NEW to \in 0 .. Len(Content), NEW origin \in {"set", "cur", "end"},
           NEW cleared, cleared \subseteq {"EOF", "ERR"}, call.op = "none",
           FseekSafe(to, origin), SeekWrite(to, origin, cleared)
    PROVE  BInv'
<1>1. /\ call # Closed /\ "READ" \notin flag /\ ~append /\ own
      /\ UNCHANGED <<based, size, buf, append>> /\ call' = Idle
      /\ flag' = flag \ (cleared \cup IF "RW" \in flag THEN {"WRT"} ELSE {})
  BY SeekWriteIs
<1>2. /\ cnt \in Int /\ ptr \in Nat /\ size \in Nat /\ Len(buf) \in Nat
      /\ (~based => cnt = 0 /\ ptr = 0)
      /\ (based => size > 0 /\ ptr <= size /\ cnt + ptr <= size)
      /\ ptr <= Len(buf)
  BY DEF BInv, TypeOK, Bounds
<1>3. /\ disk' \in Seq(Byte) /\ pos' \in Nat /\ pos' <= Len(disk') /\ own' \in BOOLEAN
      /\ ret'.op \in {"seek", "error"}
  <2>1. CASE FlushFails /\ ret' = Failed
    BY <2>1, FlushTypes, Ops DEF BInv
  <2>2. CASE disk' = Content /\ pos' = to /\ own' = own /\ ret' = Sought(to)
    <3>1. Content \in Seq(Byte) /\ Len(Content) \in Nat
      BY PendingIs DEF BInv
    <3>2. to \in Nat /\ to <= Len(Content)
      BY <3>1
    <3> QED BY <1>1, <2>2, <3>1, <3>2, Ops
  <2> QED BY <2>1, <2>2, SeekWriteIs
<1>4. /\ ptr' \in Nat /\ cnt' \in Int /\ ptr' <= ptr
      /\ \/ cnt' = 0 /\ ptr' = 0
         \/ "RW" \notin flag /\ ptr' + cnt' = ptr + cnt
      /\ "RW" \in flag => cnt' = 0 /\ ptr' = 0
  <2>1. CASE "RW" \in flag
    <3>1. cnt' = 0 /\ ptr' = 0
      BY <2>1, SeekWriteIs
    <3> QED BY <1>2, <2>1, <3>1
  <2>2. CASE "RW" \notin flag /\ ptr' = PtrFlushed /\ cnt' = CntFlushed(cnt)
    BY <1>2, <2>2, FlushedSum DEF BInv
  <2>3. CASE "RW" \notin flag /\ ptr' = ptr /\ cnt' = cnt
    BY <1>2, <2>3
  <2> QED BY <2>1, <2>2, <2>3, SeekWriteIs
<1>5. "RW" \notin flag => "WRT" \in flag' /\ "WRT" \in flag
  BY <1>1 DEF BInv, Direction
<1>6. "WRT" \in flag' /\ own' => cnt' >= 0 \/ ptr' <= 1
  <2>1. CASE "RW" \in flag
    BY <1>1, <2>1
  <2>2. CASE "RW" \notin flag /\ ptr' = PtrFlushed
    BY <1>5, <2>2 DEF PtrFlushed
  <2>3. CASE "RW" \notin flag /\ ptr' = ptr /\ cnt' = cnt
    <3>1. own /\ "WRT" \in flag => cnt >= 0 \/ ptr <= 1
      BY DEF BInv, Bounds
    <3> QED BY <1>1, <1>5, <2>3, <3>1
  <2> QED BY <2>1, <2>2, <2>3, SeekWriteIs
<1>7. call' # Closed /\ call'.op = "none"
  BY <1>1, Ops
<1>8. TypeOK'
  BY <1>1, <1>3, <1>4, <1>7 DEF BInv, TypeOK
<1>9. Shapes'
  BY <1>3, <1>7 DEF Shapes
<1>10. Direction'
  <2>1. "READ" \notin flag' /\ ("RW" \in flag => "RW" \in flag')
    BY <1>1
  <2>2. append \/ "NBF" \in flag' => "RW" \notin flag'
    BY <1>1 DEF BInv, Direction
  <2> QED BY <1>1, <1>3, <1>4, <1>5, <1>7, <2>1, <2>2 DEF Direction
<1>11. InCall'
  BY <1>7 DEF InCall
<1>12. Bounds'
  <2>1. "READ" \notin flag'
    BY <1>1
  <2>2. ~based => cnt' = 0 /\ ptr' = 0
    BY <1>2, <1>4, SameSum
  <2>3. based => ptr' <= size /\ cnt' + ptr' <= size
    <3>1. CASE cnt' = 0 /\ ptr' = 0
      BY <1>2, <3>1
    <3>2. CASE ptr' + cnt' = ptr + cnt
      BY <1>2, <1>4, <3>2, SameSum
    <3> QED BY <1>4, <3>1, <3>2
  <2>4. ptr' <= Len(buf)
    BY <1>2, <1>4
  <2> QED BY <1>1, <1>2, <1>6, <2>1, <2>2, <2>3, <2>4 DEF Bounds
<1> QED BY <1>8, <1>9, <1>10, <1>11, <1>12 DEF BInv

LEMMA FseekBounds ==
    ASSUME Careful, BInv, NEW to \in 0 .. Len(Content), NEW origin \in {"set", "cur", "end"},
           Fseek(to, origin)
    PROVE  BInv'
<1>1. PICK cleared : cleared = {"EOF"}
  OBVIOUS
<1>2. cleared \subseteq {"EOF", "ERR"}
  BY <1>1
<1>3. /\ call.op = "none" /\ FseekSafe(to, origin)
      /\ SeekRead(to, origin, cleared) \/ SeekWrite(to, origin, cleared)
  BY <1>1 DEF Fseek, Calling
<1> QED BY <1>2, <1>3, SeekReadBounds, SeekWriteBounds

LEMMA RewindBounds ==
    ASSUME Careful, BInv, Rewind
    PROVE  BInv'
<1>1. PICK cleared : cleared = {"EOF", "ERR"}
  OBVIOUS
<1>2. PICK to : to = 0
  OBVIOUS
<1>3. PICK origin : origin = "set"
  OBVIOUS
<1>4. /\ cleared \subseteq {"EOF", "ERR"} /\ to \in 0 .. Len(Content)
      /\ origin \in {"set", "cur", "end"}
  <2>1. Len(Content) \in Nat
    BY PendingIs DEF BInv
  <2> QED BY <1>1, <1>2, <1>3, <2>1
<1>5. /\ call.op = "none" /\ FseekSafe(to, origin)
      /\ SeekRead(to, origin, cleared) \/ SeekWrite(to, origin, cleared)
  BY <1>1, <1>2, <1>3 DEF Rewind, Calling
<1> QED BY <1>4, <1>5, SeekReadBounds, SeekWriteBounds

LEMMA BInit == Init => BInv
<1> SUFFICES ASSUME Init
             PROVE  BInv
  OBVIOUS
<1>1. PICK mode \in Modes :
        /\ flag = OpenFlags(mode) /\ append = (mode = "a")
        /\ disk \in IF mode \in {"r", "r+", "a"} THEN Files ELSE {<< >>}
        /\ cnt = 0 /\ ptr = 0 /\ based = FALSE /\ size = 0 /\ buf = << >>
        /\ own = TRUE /\ pos = 0 /\ call = Idle /\ ret = Void
  BY DEF Init
<1>2. mode \in {"r", "w", "a", "stdout", "stderr", "r+", "w+"}
  BY Shape
<1>3. /\ mode = "r" => flag = {"READ"}
      /\ mode \in {"w", "a", "stdout"} => flag = {"WRT"}
      /\ mode = "stderr" => flag = {"WRT", "NBF"}
      /\ mode \in {"r+", "w+"} => flag = {"RW"}
  BY <1>1 DEF OpenFlags
<1>4. disk \in Seq(Byte) /\ buf \in Seq(Byte) /\ Len(buf) = 0 /\ Len(disk) \in Nat
  <2>1. disk \in Files \/ disk = << >>
    BY <1>1
  <2>2. << >> \in Seq(Byte) /\ Len(<< >>) = 0
    BY EmptySeq
  <2>3. Files \subseteq Seq(Byte)
    BY Shape
  <2>4. disk \in Seq(Byte)
    BY <2>1, <2>2, <2>3
  <2> QED BY <1>1, <2>2, <2>4
<1>5. call.op = "none" /\ call # Closed /\ ret.op = "void"
  BY <1>1, Ops
<1>6. TypeOK
  <2>1. flag \subseteq Flags
    BY <1>2, <1>3 DEF Flags
  <2>2. append \in BOOLEAN /\ based \in BOOLEAN /\ own \in BOOLEAN
    BY <1>1
  <2>3. cnt \in Int /\ ptr \in Nat /\ size \in Nat /\ pos \in Nat
    BY <1>1
  <2> QED BY <1>4, <1>5, <2>1, <2>2, <2>3 DEF TypeOK
<1>7. Shapes
  BY <1>1, <1>4, <1>5 DEF Shapes
<1>8. Direction
  BY <1>1, <1>2, <1>3, <1>5 DEF Direction
<1>9. InCall
  BY <1>5 DEF InCall
<1>10. Bounds
  BY <1>1, <1>4 DEF Bounds
<1> QED BY <1>6, <1>7, <1>8, <1>9, <1>10 DEF BInv

LEMMA BStep == ASSUME Careful PROVE BInv /\ [Next]_vars => BInv'
<1> SUFFICES ASSUME BInv, [Next]_vars
             PROVE  BInv'
  OBVIOUS
<1>1. CASE User
  <2>1. ASSUME NEW b \in Byte, Putc(b) PROVE BInv'
    BY <2>1, PutcBounds
  <2>2. ASSUME NEW bs \in Strings, Fwrite(bs) PROVE BInv'
    BY <2>2, FwriteBounds
  <2>3. CASE Fflush
    BY <2>3, FflushBounds
  <2>4. CASE Getc
    BY <2>4, GetcBounds
  <2>5. ASSUME NEW n \in Lengths, NEW op \in {"fread", "fgets"}, Reads(op, n) PROVE BInv'
    BY <2>5, ReadsBounds
  <2>6. CASE Reads("gets", 0)
    BY <2>6, ReadsBounds
  <2>7. CASE Ungetc
    BY <2>7, UngetcBounds
  <2>8. ASSUME NEW to \in 0 .. Len(Content), NEW origin \in {"set", "cur", "end"},
               Fseek(to, origin)
        PROVE  BInv'
    BY <2>8, FseekBounds
  <2>9. CASE Rewind
    BY <2>9, RewindBounds
  <2>10. CASE Ftell
    BY <2>10, FtellBounds
  <2>11. ASSUME NEW n \in Buffers, Setvbuf(n) PROVE BInv'
    BY <2>11, SetvbufBounds
  <2>12. CASE Fclose
    BY <2>12, FcloseBounds
  <2> QED BY <1>1, <2>1, <2>2, <2>3, <2>4, <2>5, <2>6, <2>7, <2>8, <2>9, <2>10, <2>11,
             <2>12 DEF User
<1>2. CASE Library
  BY <1>2, UnbufferBounds, FwriteFlushBounds, FwriteCopyBounds, FwriteEndBounds,
     FgetsByteBounds, RefillBounds, FreadCopyBounds, GetsCopyBounds DEF Library
<1>3. CASE UNCHANGED vars
  BY <1>3 DEF vars, BInv, TypeOK, Shapes, Direction, InCall, Bounds
<1> QED BY <1>1, <1>2, <1>3 DEF Next

LEMMA BAlways == ASSUME Careful PROVE Spec => []BInv
BY BInit, BStep, PTL DEF Spec

\* The fields of the stream have the values that struct FILE_irix and the calls
\* of libc_impl.c give them, whatever a careful program calls.
THEOREM TypeCorrect == ASSUME Careful PROVE Spec => []TypeOK
<1>1. BInv => TypeOK
  BY DEF BInv
<1> QED BY <1>1, BAlways, PTL

\* The macros getc and putc and the copies of wrapper_fread and wrapper_fwrite
\* stay in the buffer: _ptr never passes its end, and _cnt never promises more
\* than is there, after any calls of a careful program and any failures of the
\* system.
THEOREM InBufferAlways == ASSUME Careful PROVE Spec => []InBuffer
<1>1. BInv => InBuffer
  <2>1. ASSUME BInv PROVE InBuffer
    <3>1. ptr \in Nat /\ size \in Nat
      BY <2>1 DEF BInv, TypeOK
    <3> QED BY <2>1, <3>1 DEF BInv, Bounds, InBuffer
  <2> QED BY <2>1
<1> QED BY <1>1, BAlways, PTL
-----------------------------------------------------------------------------
(* The stream is a file without a buffer.  While it reads, what is left in *)
(* the buffer is what is in the file before the descriptor's offset, and   *)
(* so is what the program has read from it and may put back.               *)
GotOne == ret.op = "get" /\ Len(ret.bytes) = 1 /\ call.op = "none"

Aligned ==
    "READ" \in flag /\ (cnt > 0 \/ GotOne) =>
        /\ cnt >= 0 /\ cnt + ptr <= pos
        /\ \A k \in 1 .. cnt + ptr : buf[k] = disk[pos - (cnt + ptr) + k]

Again == GotOne /\ ptr > 0 => buf[ptr] = ret.bytes[1]

\* a step of the file without a buffer
Simulates == own' => own /\ (Plain!Call \/ UNCHANGED <<Content, At, ret>>)

LEMMA IsPut ==
    ASSUME Content \in Seq(Byte), At \in 0 .. Len(Content),
           NEW bs \in Seq(Byte), Len(bs) >= 1,
           Content' = Overwritten(Content, At, bs), At' = At + Len(bs), ret' = Wrote(bs)
    PROVE  Plain!Call
<1>1. PICK n : n = Len(bs)
  OBVIOUS
<1>2. PICK d : d = Content'
  OBVIOUS
<1>3. At \in Nat /\ n \in Nat /\ n >= 1 /\ Len(Content) \in Nat
  BY <1>1
<1>4. /\ d \in Seq(Byte)
      /\ Len(d) = IF At + Len(bs) > Len(Content) THEN At + Len(bs) ELSE Len(Content)
  BY <1>2, OverFacts
<1>5. n \in 1 .. (Len(d) - At)
  BY <1>1, <1>3, <1>4
<1>6. SubSeq(d, At + 1, At + n) = bs
  BY <1>1, <1>2, OverSub
<1>7. Plain!Put(SubSeq(Content', At + 1, At + n))
  BY <1>2, <1>6 DEF Plain!Put, Plain!Overwritten, Plain!Wrote, Overwritten, Wrote
<1>8. n \in 1 .. (Len(Content') - At)
  BY <1>2, <1>5
<1> QED BY <1>7, <1>8 DEF Plain!Call

LEMMA IsGet ==
    ASSUME Content' = Content, Content \in Seq(Byte), At \in Nat,
           NEW n \in Nat, n >= 1, At + n <= Len(Content), At' = At + n,
           ret' = Got(SubSeq(Content, At + 1, At + n))
    PROVE  Plain!Call
<1>1. Plain!Get(n)
  BY DEF Plain!Get, Plain!Got, Got
<1>2. n \in 1 .. Len(Content)
  <2>1. Len(Content) \in Nat
    OBVIOUS
  <2> QED BY <2>1
<1> QED BY <1>1, <1>2 DEF Plain!Call

LEMMA IsOther ==
    ASSUME Content' = Content,
           \/ \E to \in 0 .. Len(Content) : At' = to /\ ret' = Sought(to)
           \/ At' = At /\ At = Len(Content) /\ ret' = Got(<< >>)
           \/ At > 0 /\ At' = At - 1 /\ ret' = Returned
           \/ At' = At /\ ret' \in {Told(At), Void, Failed}
           \/ At' = 0 /\ ret' = Void
    PROVE  Plain!Call
<1>1. CASE \E to \in 0 .. Len(Content) : At' = to /\ ret' = Sought(to)
  BY <1>1 DEF Plain!Call, Plain!Seek, Plain!Sought, Sought
<1>2. CASE At' = At /\ At = Len(Content) /\ ret' = Got(<< >>)
  BY <1>2 DEF Plain!Call, Plain!End, Plain!Got, Got
<1>3. CASE At > 0 /\ At' = At - 1 /\ ret' = Returned
  BY <1>3 DEF Plain!Call, Plain!Unget, Plain!Returned, Returned
<1>4. CASE At' = At /\ ret' \in {Told(At), Void, Failed}
  BY <1>4 DEF Plain!Call, Plain!Tell, Plain!Told, Told, Plain!Quiet, Plain!Void, Void,
     Plain!Fail, Failed
<1>5. CASE At' = 0 /\ ret' = Void
  BY <1>5 DEF Plain!Call, Plain!Close, Plain!Void, Void
<1> QED BY <1>1, <1>2, <1>3, <1>4, <1>5

\* a stream that is not being read has nothing to keep, and one that is keeps it
\* as long as the buffer, the file and the sum of pointer and count stay
LEMMA AlignedKept ==
    ASSUME Aligned, ~GotOne', cnt' \in Int,
           \/ "READ" \notin flag'
           \/ ~(cnt' > 0)
           \/ /\ "READ" \in flag /\ (cnt > 0 \/ GotOne)
              /\ cnt' + ptr' = cnt + ptr /\ buf' = buf /\ disk' = disk /\ pos' = pos
    PROVE  Aligned' /\ Again'
<1>1. Again'
  BY DEF Again
<1>2. CASE "READ" \notin flag' \/ ~(cnt' > 0)
  BY <1>1, <1>2 DEF Aligned
<1>3. CASE /\ "READ" \in flag /\ (cnt > 0 \/ GotOne)
           /\ cnt' + ptr' = cnt + ptr /\ buf' = buf /\ disk' = disk /\ pos' = pos
  <2>1. /\ cnt + ptr <= pos
        /\ \A k \in 1 .. cnt + ptr : buf[k] = disk[pos - (cnt + ptr) + k]
    BY <1>3 DEF Aligned
  <2>2. cnt' > 0 => cnt' >= 0
    OBVIOUS
  <2>3. /\ cnt' + ptr' <= pos'
        /\ \A k \in 1 .. cnt' + ptr' : buf'[k] = disk'[pos' - (cnt' + ptr') + k]
    BY <1>3, <2>1
  <2> QED BY <1>1, <2>2, <2>3 DEF Aligned
<1> QED BY <1>1, <1>2, <1>3
\* what is pending, what is in the file, and where the stream is in it
Facts ==
    /\ Pending \in Seq(Byte) /\ Content \in Seq(Byte) /\ WriteAt \in 0 .. Len(disk)
    /\ Len(Pending) = IF "WRT" \in flag THEN ptr ELSE 0
    /\ "WRT" \notin flag \/ ptr = 0 => Pending = << >> /\ Content = disk
    /\ WriteAt = IF append THEN Len(disk) ELSE pos
    /\ call # Closed =>
          /\ append => At = Len(Content) /\ "WRT" \in flag
          /\ "WRT" \in flag => At = WriteAt + ptr /\ At \in 0 .. Len(Content)
          /\ "WRT" \notin flag /\ "READ" \in flag => At = pos - Natural(cnt)
          /\ "WRT" \notin flag /\ "READ" \notin flag => At = pos

LEMMA Place == BInv => Facts
<1> SUFFICES ASSUME BInv
             PROVE  Facts
  OBVIOUS
<1>1. /\ Pending \in Seq(Byte) /\ Content \in Seq(Byte) /\ WriteAt \in 0 .. Len(disk)
      /\ Len(Pending) = IF "WRT" \in flag THEN ptr ELSE 0
      /\ Len(Content) = IF WriteAt + Len(Pending) > Len(disk)
                        THEN WriteAt + Len(Pending) ELSE Len(disk)
  BY PendingIs DEF BInv
<1>2. disk \in Seq(Byte) /\ Len(disk) \in Nat /\ ptr \in Nat /\ pos \in Nat /\ pos <= Len(disk)
  BY DEF BInv, TypeOK, Shapes
<1>3. ASSUME "WRT" \notin flag \/ ptr = 0
      PROVE  Pending = << >> /\ Content = disk
  <2>1. Len(Pending) = 0
    BY <1>1, <1>3
  <2>2. Pending = << >>
    BY <1>1, <2>1, EmptySeq
  <2> QED BY <1>1, <1>2, <2>2, OverNone DEF Content
<1>4. WriteAt = IF append THEN Len(disk) ELSE pos
  BY DEF WriteAt
<1>5. ASSUME call # Closed
      PROVE  /\ append => At = Len(Content) /\ "WRT" \in flag
             /\ "WRT" \in flag => At = WriteAt + ptr /\ At \in 0 .. Len(Content)
             /\ "WRT" \notin flag /\ "READ" \in flag => At = pos - Natural(cnt)
             /\ "WRT" \notin flag /\ "READ" \notin flag => At = pos
  <2>1. CASE append
    <3>1. "WRT" \in flag
      BY <1>5, <2>1 DEF BInv, Direction
    <3>2. At = Len(Content)
      BY <1>5, <2>1 DEF At
    <3>3. WriteAt = Len(disk) /\ Len(Pending) = ptr
      BY <1>1, <1>4, <2>1, <3>1
    <3>4. Len(Content) = WriteAt + ptr /\ Len(Content) \in 0 .. Len(Content)
      BY <1>1, <1>2, <3>3
    <3> QED BY <3>1, <3>2, <3>4
  <2>2. CASE ~append
    <3>1. /\ WriteAt = pos
          /\ "WRT" \in flag => At = pos + ptr /\ Len(Pending) = ptr
      BY <1>5, <2>2, AtIs
    <3>2. /\ "WRT" \notin flag /\ "READ" \in flag => At = pos - Natural(cnt)
          /\ "WRT" \notin flag /\ "READ" \notin flag => At = pos
      BY <1>5, <2>2, AtIs
    <3>3. ASSUME "WRT" \in flag
          PROVE  At = WriteAt + ptr /\ At \in 0 .. Len(Content)
      <4>1. At = pos + ptr /\ Len(Pending) = ptr /\ WriteAt = pos
        BY <3>1, <3>3
      <4>2. pos + ptr <= Len(Content) /\ Len(Content) \in Nat
        BY <1>1, <1>2, <4>1
      <4>3. pos + ptr \in 0 .. Len(Content)
        BY <1>2, <4>2
      <4> QED BY <4>1, <4>3
    <3> QED BY <2>2, <3>2, <3>3
  <2> QED BY <2>1, <2>2
<1> QED BY <1>1, <1>3, <1>4, <1>5 DEF Facts

LEMMA PlaceNext == BInv' => Facts'
<1>1. BInv => Facts
  BY Place
<1> QED BY <1>1, PTL

\* a stream that is not being read has nothing to keep
LEMMA Writer ==
    ASSUME BInv', "READ" \notin flag'
    PROVE  Aligned' /\ Again'
BY DEF BInv, Direction, Aligned, Again, GotOne

\* what is in the buffer goes to the file, where the program has it already
LEMMA FlushPlain ==
    ASSUME BInv, BInv', call # Closed, call' # Closed, Flushes, UNCHANGED <<flag, append>>,
           "WRT" \in flag => ptr' = 0, "WRT" \notin flag => cnt' = cnt
    PROVE  /\ Content' = Content /\ At' = At /\ own' = own
           /\ "WRT" \notin flag => disk' = disk /\ pos' = pos
<1>1. /\ disk' = Content /\ own' = own
      /\ pos' = IF Pending = << >> THEN pos ELSE WriteAt + Len(Pending)
  BY DEF Flushes, Written, Content
<1>2. Facts /\ Facts'
  BY Place, PlaceNext
<1>3. Content' = disk'
  BY <1>2 DEF Facts
<1>4. ASSUME "WRT" \notin flag
      PROVE  disk' = disk /\ pos' = pos
  BY <1>1, <1>2, <1>4 DEF Facts
<1>5. CASE "WRT" \in flag
  <2>1. At = WriteAt + ptr /\ Len(Pending) = ptr /\ ptr \in Nat /\ pos \in Nat
    BY <1>2, <1>5 DEF Facts, BInv, TypeOK
  <2>2. WriteAt' \in Nat /\ At' = WriteAt'
    <3>1. At' = WriteAt' + ptr' /\ ptr' = 0 /\ WriteAt' \in 0 .. Len(disk')
      BY <1>2, <1>5 DEF Facts
    <3>2. WriteAt' \in Nat
      BY <3>1
    <3> QED BY <3>1, <3>2, ZeroPlus
  <2>3. CASE append
    <3>1. WriteAt' = Len(disk') /\ At = Len(Content)
      BY <1>2, <2>3 DEF Facts
    <3> QED BY <1>1, <1>3, <1>4, <1>5, <2>2, <3>1
  <2>4. CASE ~append
    <3>1. WriteAt' = pos' /\ WriteAt = pos
      BY <1>2, <2>4 DEF Facts
    <3>2. pos' = pos + ptr
      <4>1. Pending = << >> => ptr = 0
        BY <2>1, EmptySeq
      <4>2. Pending = << >> => pos' = pos /\ pos = pos + ptr
        BY <1>1, <2>1, <4>1
      <4> QED BY <1>1, <2>1, <3>1, <4>2
    <3> QED BY <1>1, <1>3, <1>4, <1>5, <2>1, <2>2, <3>1, <3>2
  <2> QED BY <2>3, <2>4
<1>6. CASE "WRT" \notin flag
  <2>1. cnt' = cnt /\ pos' = pos /\ flag' = flag
    BY <1>4, <1>6
  <2>2. At' = At
    <3>1. CASE "READ" \in flag
      <4>1. At = pos - Natural(cnt) /\ At' = pos' - Natural(cnt')
        BY <1>2, <1>6, <2>1, <3>1 DEF Facts, Natural
      <4> QED BY <2>1, <4>1
    <3>2. CASE "READ" \notin flag
      BY <1>2, <1>6, <2>1, <3>2 DEF Facts
    <3> QED BY <3>1, <3>2
  <2> QED BY <1>1, <1>3, <1>4, <1>6, <2>2
<1> QED BY <1>5, <1>6

\* a flush, at the end of a call or within one
LEMMA FlushSteps ==
    ASSUME BInv, BInv', Aligned, call # Closed, call' # Closed, UNCHANGED <<flag, append, buf>>,
           \/ /\ Flushes /\ ("WRT" \in flag => ptr' = 0)
              /\ "WRT" \notin flag => cnt' = cnt /\ ptr' = ptr
           \/ FlushFails,
           ret' \in {Void, Failed} \/ (UNCHANGED ret /\ "READ" \notin flag),
           ret' = Failed => FlushFails
    PROVE  Aligned' /\ Again' /\ Simulates
<1>1. CASE FlushFails
  <2>1. "READ" \notin flag' /\ own' = FALSE
    BY <1>1, PendingIs DEF FlushFails, BInv, Direction
  <2> QED BY <2>1, Writer DEF Simulates
<1>2. CASE /\ Flushes /\ ("WRT" \in flag => ptr' = 0)
           /\ "WRT" \notin flag => cnt' = cnt /\ ptr' = ptr
  <2>1. /\ Content' = Content /\ At' = At /\ own' = own
        /\ "WRT" \notin flag => disk' = disk /\ pos' = pos
    BY <1>2, FlushPlain
  <2>2. CASE "READ" \in flag
    <3>1. "WRT" \notin flag /\ cnt' = cnt /\ ptr' = ptr /\ cnt' \in Int
      BY <1>2, <2>2 DEF BInv, Direction, TypeOK
    <3>2. ~GotOne'
      BY <2>2, Ops DEF GotOne
    <3>3. Aligned' /\ Again'
      BY <2>1, <2>2, <3>1, <3>2, AlignedKept
    <3>4. CASE ret' = Failed
      BY <1>1, <3>4
    <3>5. CASE ret' = Void
      BY <2>1, <3>3, <3>5, IsOther DEF Simulates
    <3> QED BY <2>2, <3>4, <3>5
  <2>3. CASE "READ" \notin flag
    <3>1. Aligned' /\ Again'
      BY <2>3, Writer
    <3>2. CASE ret' = Failed
      BY <1>1, <3>2
    <3>3. CASE ret' = Void
      BY <2>1, <3>1, <3>3, IsOther DEF Simulates
    <3>4. CASE UNCHANGED ret
      BY <2>1, <3>1, <3>4 DEF Simulates
    <3> QED BY <3>2, <3>3, <3>4
  <2> QED BY <2>2, <2>3
<1> QED BY <1>1, <1>2
\* bytes go into the buffer after those that are there
LEMMA PutPlain ==
    ASSUME BInv, BInv', own, "WRT" \in flag, UNCHANGED <<flag, own, append, disk, pos>>,
           call # Closed, call' # Closed, NEW bs \in Seq(Byte), Len(bs) >= 1,
           buf' = Stored(ptr, bs), ptr' = ptr + Len(bs), ret' = Wrote(bs)
    PROVE  Aligned' /\ Again' /\ Simulates
<1>1. Facts /\ Facts'
  BY Place, PlaceNext
<1>2. /\ At = WriteAt + ptr /\ At \in 0 .. Len(Content) /\ Len(Pending) = ptr
      /\ Content \in Seq(Byte) /\ Pending \in Seq(Byte) /\ WriteAt \in 0 .. Len(disk)
      /\ Pending = SubSeq(buf, 1, ptr)
  BY <1>1 DEF Facts, Pending
<1>3. At' = WriteAt' + ptr' /\ WriteAt' = WriteAt
  BY <1>1 DEF Facts
<1>4. ptr \in Nat /\ ptr <= Len(buf) /\ buf \in Seq(Byte) /\ disk \in Seq(Byte)
  BY DEF BInv, TypeOK, Bounds
<1>5. Pending' = Pending \o bs
  <2>1. Pending' = SubSeq(buf', 1, ptr')
    BY DEF Pending
  <2>2. ptr \in 0 .. Len(buf)
    BY <1>4
  <2>3. SubSeq(buf', 1, ptr') = SubSeq(buf, 1, ptr) \o bs
    BY <1>4, <2>2, OverPrefix DEF Stored
  <2> QED BY <1>2, <2>1, <2>3
<1>6. Content' = Overwritten(Content, At, bs)
  <2>1. Content' = Overwritten(disk, WriteAt, Pending \o bs)
    BY <1>3, <1>5 DEF Content
  <2>2. Overwritten(Overwritten(disk, WriteAt, Pending), WriteAt + Len(Pending), bs)
          = Overwritten(disk, WriteAt, Pending \o bs)
    <3>1. disk \in Seq(Byte) /\ WriteAt \in 0 .. Len(disk) /\ Pending \in Seq(Byte)
      BY <1>2, <1>4
    <3>2. PICK pend : pend = Pending
      OBVIOUS
    <3>3. PICK w : w = WriteAt
      OBVIOUS
    <3>4. w \in 0 .. Len(disk) /\ pend \in Seq(Byte)
      BY <3>1, <3>2, <3>3
    <3>5. Overwritten(Overwritten(disk, w, pend), w + Len(pend), bs)
            = Overwritten(disk, w, pend \o bs)
      BY <3>1, <3>4, OverTwice
    <3> QED BY <3>2, <3>3, <3>5
  <2> QED BY <1>2, <2>1, <2>2 DEF Content
<1>7. At' = At + Len(bs)
  <2>1. WriteAt \in Nat /\ Len(bs) \in Nat
    BY <1>2, <1>4
  <2>2. WriteAt + (ptr + Len(bs)) = WriteAt + ptr + Len(bs)
    BY <1>4, <2>1
  <2> QED BY <1>2, <1>3, <2>2
<1>8. Plain!Call
  BY <1>2, <1>6, <1>7, IsPut
<1>9. "READ" \notin flag'
  BY DEF BInv, Direction
<1> QED BY <1>8, <1>9, Writer DEF Simulates

LEMMA FlsbufPlain ==
    ASSUME BInv, BInv', NEW b \in Byte, own, "WRT" \in flag, call # Closed, call' # Closed,
           Flushes, UNCHANGED <<flag, append>>, buf' = Stored(0, << b >>), ptr' = 1,
           ret' = Wrote(<< b >>)
    PROVE  Aligned' /\ Again' /\ Simulates
<1>1. Facts /\ Facts'
  BY Place, PlaceNext
<1>2. PICK bs : bs = << b >>
  OBVIOUS
<1>3. bs \in Seq(Byte) /\ Len(bs) = 1 /\ Len(bs) >= 1
  BY <1>2, One
<1>4. /\ At = WriteAt + ptr /\ At \in 0 .. Len(Content) /\ Len(Pending) = ptr
      /\ Content \in Seq(Byte) /\ At' = WriteAt' + 1
  BY <1>1 DEF Facts
<1>5. /\ disk' = Content /\ own' = own
      /\ pos' = IF Pending = << >> THEN pos ELSE WriteAt + Len(Pending)
  BY DEF Flushes, Written, Content
<1>6. Pending' = bs
  <2>1. Pending' = SubSeq(buf', 1, ptr')
    BY DEF Pending
  <2>2. buf \in Seq(Byte) /\ 0 \in 0 .. Len(buf)
    BY DEF BInv, TypeOK
  <2>3. SubSeq(Overwritten(buf, 0, bs), 0 + 1, 0 + Len(bs)) = bs
    BY <1>3, <2>2, OverSub
  <2>4. 0 + 1 = 1 /\ 0 + Len(bs) = 1
    BY <1>3
  <2> QED BY <1>2, <2>1, <2>3, <2>4 DEF Stored
<1>7. WriteAt' = At
  <2>1. CASE append
    BY <1>1, <1>5, <2>1 DEF Facts
  <2>2. CASE ~append
    <3>1. WriteAt' = pos' /\ WriteAt = pos
      BY <1>1, <2>2 DEF Facts
    <3>2. pos \in Nat /\ ptr \in Nat
      BY DEF BInv, TypeOK
    <3>3. CASE Pending = << >>
      <4>1. ptr = 0 /\ pos' = pos
        BY <1>4, <1>5, <3>3, EmptySeq
      <4>2. pos + ptr = pos
        BY <3>2, <4>1, ZeroPlus
      <4> QED BY <1>4, <3>1, <4>1, <4>2
    <3>4. CASE Pending # << >>
      BY <1>4, <1>5, <3>1, <3>4
    <3> QED BY <3>3, <3>4
  <2> QED BY <2>1, <2>2
<1>8. Content' = Overwritten(Content, At, bs)
  BY <1>5, <1>6, <1>7 DEF Content
<1>9. At' = At + Len(bs)
  BY <1>3, <1>4, <1>7
<1>10. Plain!Call
  BY <1>2, <1>3, <1>4, <1>8, <1>9, IsPut
<1>11. "READ" \notin flag'
  BY DEF BInv, Direction
<1> QED BY <1>5, <1>10, <1>11, Writer DEF Simulates

LEMMA PutcPlain ==
    ASSUME Careful, BInv, BInv', NEW b \in Byte, Putc(b)
    PROVE  Aligned' /\ Again' /\ Simulates
<1>1. /\ own /\ "WRT" \in flag /\ call.op = "none" /\ "READ" \notin flag
      /\ call # Closed
  BY Ops DEF Putc, PutcSafe, Calling, BInv, Direction
<1>2. << b >> \in Seq(Byte) /\ Len(<< b >>) = 1
  BY One
<1>3. CASE PutcStores(b)
  <2>1. PICK bs : bs = << b >>
    OBVIOUS
  <2>2. /\ buf' = Stored(ptr, bs) /\ ptr' = ptr + Len(bs) /\ ret' = Wrote(bs)
        /\ bs \in Seq(Byte) /\ Len(bs) >= 1 /\ call' # Closed
        /\ UNCHANGED <<flag, own, append, disk, pos>>
    BY <1>2, <1>3, <2>1, Ops DEF PutcStores, Returns
  <2> QED BY <1>1, <2>2, PutPlain
<1>4. CASE Flsbuf(b)
  <2>1. UNCHANGED <<flag, append>>
    BY <1>4 DEF Flsbuf
  <2>2. CASE FlushFails
    <3>1. own' = FALSE /\ "READ" \notin flag'
      BY <1>1, <2>1, <2>2 DEF FlushFails
    <3> QED BY <3>1, Writer DEF Simulates
  <2>3. ASSUME NEW p, p = (IF based THEN PtrFlushed ELSE 0), Flushes,
               buf' = Stored(p, << b >>), ptr' = p + 1,
               call' = IF "NBF" \in flag THEN [op |-> "unbuffer"] ELSE Idle,
               ret' = Wrote(<< b >>)
        PROVE  Aligned' /\ Again' /\ Simulates
    <3>1. p = 0
      BY <1>1, <2>3 DEF PtrFlushed
    <3>2. call' # Closed
      BY <2>3, Ops DEF Closed
    <3>3. ptr' = 1 /\ buf' = Stored(0, << b >>)
      BY <2>3, <3>1
    <3> QED BY <1>1, <2>1, <2>3, <3>2, <3>3, FlsbufPlain
  <2> QED BY <1>4, <2>2, <2>3 DEF Flsbuf
<1> QED BY <1>3, <1>4 DEF Putc

LEMMA UnbufferPlain ==
    ASSUME BInv, BInv', Aligned, Unbuffer
    PROVE  Aligned' /\ Again' /\ Simulates
<1>1. /\ call # Closed /\ call' # Closed /\ UNCHANGED <<flag, append, buf>>
      /\ "WRT" \in flag
  BY Ops DEF Unbuffer, Returns, BInv, InCall
<1>2. \/ Flushes /\ ptr' = 0 /\ ret' = Void
      \/ FlushFails /\ ret' = Failed
  BY <1>1 DEF Unbuffer, PtrFlushed, Returns
<1>3. Void # Failed
  BY DEF Void, Failed
<1> QED BY <1>1, <1>2, <1>3, FlushSteps

LEMMA FwriteFlushPlain ==
    ASSUME BInv, BInv', Aligned, FwriteFlush
    PROVE  Aligned' /\ Again' /\ Simulates
<1>1. /\ call # Closed /\ UNCHANGED <<flag, append, buf>> /\ "WRT" \in flag
      /\ "READ" \notin flag
  BY Ops DEF FwriteFlush, BInv, InCall, Direction
<1>2. CASE Flushes /\ ptr' = PtrFlushed /\ UNCHANGED <<call, ret>>
  <2>1. ptr' = 0 /\ call' # Closed /\ own' = own
    BY <1>1, <1>2 DEF PtrFlushed, Flushes
  <2>2. Content' = Content /\ At' = At
    BY <1>1, <1>2, <2>1, FlushPlain
  <2> QED BY <1>1, <1>2, <2>1, <2>2, Writer DEF Simulates
<1>3. CASE FlushFails
  <2>1. own' = FALSE
    BY <1>3 DEF FlushFails
  <2> QED BY <1>1, <2>1, Writer DEF Simulates
<1> QED BY <1>2, <1>3 DEF FwriteFlush

LEMMA FwriteEndPlain ==
    ASSUME BInv, BInv', Aligned, FwriteEnd
    PROVE  Aligned' /\ Again' /\ Simulates
<1>1. /\ call # Closed /\ call' # Closed /\ UNCHANGED <<flag, append, buf>> /\ "WRT" \in flag
      /\ ret' = Void /\ "READ" \notin flag /\ own
  BY Ops DEF FwriteEnd, Returns, BInv, InCall, Direction
<1>2. CASE FlushFails
  <2>1. own' = FALSE
    BY <1>2 DEF FlushFails
  <2> QED BY <1>1, <2>1, Writer DEF Simulates
<1>3. CASE Flushes /\ ptr' = PtrFlushed
  <2>1. ptr' = 0
    BY <1>1, <1>3 DEF PtrFlushed
  <2>2. ret' # Failed
    BY <1>1 DEF Void, Failed
  <2> QED BY <1>1, <1>3, <2>1, <2>2, FlushSteps
<1>4. CASE UNCHANGED <<ptr, cnt, own, disk, pos>>
  <2>1. Content' = Content
    BY <1>1, <1>4 DEF Content, WriteAt, Pending
  <2>2. At' = At
    BY <1>1, <1>4, <2>1 DEF At, Pending
  <2>3. Plain!Call
    BY <1>1, <2>1, <2>2, IsOther
  <2> QED BY <1>1, <1>4, <2>3, Writer DEF Simulates
<1> QED BY <1>2, <1>3, <1>4 DEF FwriteEnd

LEMMA FflushPlain ==
    ASSUME BInv, BInv', Aligned, Fflush
    PROVE  Aligned' /\ Again' /\ Simulates
<1>1. /\ call # Closed /\ call' # Closed /\ UNCHANGED <<flag, append, buf>>
  BY Ops DEF Fflush, Calling, Returns
<1>2. \/ Flushes /\ ptr' = PtrFlushed /\ cnt' = CntFlushed(cnt) /\ ret' = Void
      \/ FlushFails /\ ret' = Failed
  BY DEF Fflush, Returns
<1>3. Void # Failed
  BY DEF Void, Failed
<1>4. /\ "WRT" \in flag => PtrFlushed = 0
      /\ "WRT" \notin flag => PtrFlushed = ptr /\ CntFlushed(cnt) = cnt
  BY DEF PtrFlushed, CntFlushed
<1> QED BY <1>1, <1>2, <1>3, <1>4, FlushSteps

LEMMA FclosePlain ==
    ASSUME BInv, BInv', Fclose
    PROVE  Aligned' /\ Again' /\ Simulates
<1>1. "READ" \notin flag' /\ "WRT" \notin flag' /\ call' = Closed /\ ret' = Void
  BY DEF Fclose
<1>2. CASE FlushFails
  <2>1. own' = FALSE
    BY <1>2 DEF FlushFails
  <2> QED BY <1>1, <2>1, Writer DEF Simulates
<1>3. CASE Flushes
  <2>1. Content' = disk' /\ disk' = Content /\ own' = own
    BY <1>1, <1>3, PlaceNext DEF Flushes, Written, Content, Facts
  <2>2. At' = 0
    BY <1>1 DEF At
  <2>3. Plain!Call
    BY <1>1, <2>1, <2>2, IsOther
  <2> QED BY <1>1, <2>1, <2>3, Writer DEF Simulates
<1> QED BY <1>2, <1>3 DEF Fclose

LEMMA FwritePlain ==
    ASSUME Careful, BInv, BInv', NEW bs \in Strings, Fwrite(bs)
    PROVE  Aligned' /\ Again' /\ Simulates
<1>1. /\ call # Closed /\ call' # Closed /\ own /\ "READ" \notin flag /\ "WRT" \in flag'
      /\ "READ" \notin flag'
      /\ ret' = Void /\ UNCHANGED <<buf, own, append, disk, pos>>
      /\ based => "WRT" \in flag /\ UNCHANGED <<flag, ptr>>
      /\ ~based => ptr = 0 /\ ptr' = 0
  BY Ops DEF Fwrite, FwriteSafe, Calling, MayPut, BInv, Direction, Bounds, Closed
<1>2. Facts /\ Facts'
  BY Place, PlaceNext
<1>3. WriteAt' = WriteAt
  BY <1>1 DEF WriteAt
<1>4. Content' = Content
  <2>1. CASE based
    <3>1. Pending' = Pending
      BY <1>1, <2>1 DEF Pending
    <3> QED BY <1>1, <1>3, <3>1 DEF Content
  <2>2. CASE ~based
    BY <1>1, <1>2, <2>2 DEF Facts
  <2> QED BY <2>1, <2>2
<1>5. At' = At
  <2>1. At' = WriteAt' + ptr'
    BY <1>1, <1>2 DEF Facts
  <2>2. CASE "WRT" \in flag
    <3>1. At = WriteAt + ptr /\ ptr' = ptr
      BY <1>1, <1>2, <2>2 DEF Facts
    <3> QED BY <1>3, <2>1, <3>1
  <2>3. CASE "WRT" \notin flag
    <3>1. At = pos /\ WriteAt = pos /\ ptr' = 0
      BY <1>1, <1>2, <2>3 DEF Facts
    <3>2. pos \in Nat
      BY DEF BInv, TypeOK
    <3> QED BY <1>3, <2>1, <3>1, <3>2, ZeroPlus
  <2> QED BY <2>2, <2>3
<1>6. Plain!Call
  BY <1>1, <1>4, <1>5, IsOther
<1> QED BY <1>1, <1>6, Writer DEF Simulates

LEMMA FwriteCopyPlain ==
    ASSUME BInv, BInv', FwriteCopy
    PROVE  Aligned' /\ Again' /\ Simulates
<1>1. /\ call.op = "fwrite" /\ call # Closed /\ call.rest \in Seq(Byte) /\ call.rest # << >>
      /\ own /\ "WRT" \in flag /\ cnt \in Nat /\ cnt > 0
      /\ call \in [op : {"fwrite"}, rest : Seq(Byte)]
      /\ UNCHANGED <<flag, based, size, own, append, disk, pos>>
  BY Ops DEF FwriteCopy, BInv, InCall, Shapes, TypeOK
<1>2. PICK rest : rest = call.rest
  OBVIOUS
<1>3. PICK n : n = Least(cnt, Len(rest))
  OBVIOUS
<1>4. rest \in Seq(Byte) /\ Len(rest) \in Nat /\ Len(rest) > 0
  BY <1>1, <1>2, EmptySeq
<1>5. n \in 0 .. Len(rest) /\ n >= 1
  BY <1>1, <1>3, <1>4 DEF Least
<1>6. PICK bs : bs = SubSeq(rest, 1, n)
  OBVIOUS
<1>7. bs \in Seq(Byte) /\ Len(bs) = n
  BY <1>4, <1>5, <1>6, Split
<1>8. ~(cnt < 0)
  BY <1>1
<1>9. /\ buf' = Stored(ptr, bs) /\ ptr' = ptr + n /\ ret' = Wrote(bs)
      /\ call' = [call EXCEPT !.rest = SubSeq(rest, n + 1, Len(rest))]
  BY <1>2, <1>3, <1>6, <1>8 DEF FwriteCopy
<1>10. call' # Closed
  <2>1. call'.op = "fwrite"
    BY <1>1, <1>9
  <2> QED BY <2>1, Ops
<1> QED BY <1>1, <1>5, <1>7, <1>9, <1>10, PutPlain
\* where a stream is that is not being written
LEMMA InputPlace ==
    BInv /\ call # Closed /\ "WRT" \notin flag => Content = disk /\ At = pos - Natural(cnt)
<1> SUFFICES ASSUME BInv, call # Closed, "WRT" \notin flag
             PROVE  Content = disk /\ At = pos - Natural(cnt)
  OBVIOUS
<1>1. Facts
  BY Place
<1>2. CASE "READ" \in flag
  BY <1>1, <1>2 DEF Facts
<1>3. CASE "READ" \notin flag
  <2>1. cnt = 0 /\ pos \in Nat
    BY <1>3 DEF BInv, Direction, TypeOK
  <2>2. Natural(cnt) = 0
    BY <2>1 DEF Natural
  <2>3. pos - Natural(cnt) = pos
    BY <2>1, <2>2, MinusZero
  <2> QED BY <1>1, <1>3, <2>3 DEF Facts
<1> QED BY <1>2, <1>3

LEMMA InputPlaceNext ==
    BInv' /\ call' # Closed /\ "WRT" \notin flag' =>
        Content' = disk' /\ At' = pos' - Natural(cnt')
<1>1. BInv /\ call # Closed /\ "WRT" \notin flag =>
        Content = disk /\ At = pos - Natural(cnt)
  BY InputPlace
<1>2. (BInv /\ call # Closed /\ "WRT" \notin flag =>
        Content = disk /\ At = pos - Natural(cnt))'
  BY <1>1, PTL
<1> QED BY <1>2 DEF Natural

\* the buffer is filled from the file, and p bytes of it are taken
LEMMA FilledPlain ==
    ASSUME BInv, BInv', MayRead, cnt <= 0, disk' = disk, NEW n, NEW c, NEW p \in {0, 1},
           Filled(n, c, p), call' # Closed
    PROVE  /\ Aligned' /\ Content' = Content /\ Content = disk /\ At = pos /\ At' = At + p
           /\ At \in Nat /\ At + 1 <= Len(disk) /\ buf'[1] = disk[At + 1] /\ ptr' = p
<1>1. PICK room : room = IF based THEN size ELSE Size
  OBVIOUS
<1>2. PICK m : m = Len(disk)
  OBVIOUS
<1>3. /\ room \in Nat /\ room > 0 /\ pos \in Nat /\ pos <= m /\ m \in Nat
      /\ disk \in Seq(Byte) /\ 0 <= Len(buf) /\ buf \in Seq(Byte) /\ cnt \in Int
  BY <1>1, <1>2, Shape DEF BInv, TypeOK, Bounds, Shapes
<1>4. n \in 1 .. Least(room, m - pos)
  BY <1>1, <1>2 DEF Filled
<1>5. n \in Nat /\ n >= 1 /\ n <= room /\ pos + n <= m
  BY <1>3, <1>4 DEF Least
<1>6. /\ buf' = Stored(0, SubSeq(disk, pos + 1, pos + n)) /\ ptr' = p /\ cnt' = n - p
      /\ pos' = pos + n /\ flag' = flag \cup {"READ"}
  BY DEF Filled
<1>7. PICK bs : bs = SubSeq(disk, pos + 1, pos + n)
  OBVIOUS
<1>8. bs \in Seq(Byte) /\ Len(bs) = n /\ \A k \in 1 .. n : bs[k] = disk[pos + k]
  <2>1. PICK q : q = pos + n
    OBVIOUS
  <2>2. q \in Nat /\ pos <= q /\ q <= Len(disk) /\ n = q - pos
    BY <1>2, <1>3, <1>5, <2>1
  <2>3. /\ SubSeq(disk, pos + 1, q) \in Seq(Byte) /\ Len(SubSeq(disk, pos + 1, q)) = n
        /\ \A k \in 1 .. n : SubSeq(disk, pos + 1, q)[k] = disk[pos + k]
    BY <1>3, <2>2, Sub
  <2> QED BY <1>7, <2>1, <2>3
<1>9. \A k \in 1 .. n : buf'[k] = disk[pos + k]
  <2>1. 0 \in 0 .. Len(buf)
    BY <1>3
  <2>2. PICK x : x = Overwritten(buf, 0, bs)
    OBVIOUS
  <2>3. /\ Len(x) = IF 0 + Len(bs) > Len(buf) THEN 0 + Len(bs) ELSE Len(buf)
        /\ \A k \in 1 .. Len(x) : x[k] = IF 0 < k /\ k <= 0 + Len(bs) THEN bs[k - 0] ELSE buf[k]
    BY <1>3, <1>8, <2>1, <2>2, OverFacts
  <2>4. x = buf'
    BY <1>6, <1>7, <2>2 DEF Stored
  <2>5. Len(x) \in Nat /\ n <= Len(x)
    BY <1>3, <1>5, <1>8, <2>3
  <2>6. ASSUME NEW k \in 1 .. n
        PROVE  buf'[k] = disk[pos + k]
    <3>1. k \in 1 .. Len(x) /\ 0 < k /\ k <= 0 + Len(bs) /\ k - 0 = k
      BY <1>5, <1>8, <2>5
    <3> QED BY <1>8, <2>3, <2>4, <3>1
  <2> QED BY <2>6
<1>10. Aligned'
  <2>1. cnt' >= 0 /\ cnt' + ptr' = n /\ cnt' + ptr' <= pos'
    BY <1>3, <1>5, <1>6
  <2>2. \A k \in 1 .. n : buf'[k] = disk'[pos' - n + k]
    <3>1. \A k \in 1 .. n : pos' - n + k = pos + k
      BY <1>3, <1>5, <1>6
    <3> QED BY <1>9, <3>1
  <2>3. \A k \in 1 .. cnt' + ptr' : buf'[k] = disk'[pos' - (cnt' + ptr') + k]
    BY <2>1, <2>2
  <2> QED BY <2>1, <2>3 DEF Aligned
<1>11. "WRT" \notin flag /\ "WRT" \notin flag' /\ call # Closed
  BY <1>6, MayReadIs DEF MayRead
<1>12. Content = disk /\ At = pos
  <2>1. Natural(cnt) = 0 /\ pos - 0 = pos
    BY <1>3 DEF Natural
  <2> QED BY <1>11, <2>1, InputPlace
<1>13. Content' = disk /\ At' = pos + p
  <2>1. Natural(cnt') = n - p
    BY <1>5, <1>6 DEF Natural
  <2>2. pos' - (n - p) = pos + p
    BY <1>3, <1>5, <1>6
  <2> QED BY <1>11, <2>1, <2>2, InputPlaceNext
<1>14. buf'[1] = disk[pos + 1] /\ pos + 1 <= m
  BY <1>3, <1>5, <1>9
<1> QED BY <1>2, <1>3, <1>6, <1>10, <1>12, <1>13, <1>14

\* the end of the file, or an error of the system
LEMMA UnfilledPlain ==
    ASSUME BInv, BInv', MayRead, cnt <= 0, NEW c \in {cnt, cnt - 1},
           UNCHANGED <<own, append, disk>>, Unfilled(c)
    PROVE  Aligned' /\ Again' /\ Simulates
<1>1. /\ cnt \in Int /\ pos \in Nat /\ pos <= Len(disk) /\ Len(disk) \in Nat
  BY DEF BInv, TypeOK, Shapes
<1>2. /\ cnt' = (IF based THEN c ELSE 0) /\ call' = Idle /\ pos' = pos
      /\ \/ pos >= Len(disk) /\ ret' = Got(<< >>)
         \/ ret' = Failed
      /\ flag' \in {flag \cup {"READ", "EOF"}, flag \cup {"READ", "ERR"}}
  BY DEF Unfilled
<1>3. cnt' \in Int /\ cnt' <= 0
  BY <1>1, <1>2
<1>4. ~GotOne'
  <2>1. CASE ret' = Failed
    <3>1. ret'.op # "get"
      BY <2>1, Ops
    <3> QED BY <3>1 DEF GotOne
  <2>2. CASE ret' = Got(<< >>)
    <3>1. ret'.bytes = << >> /\ Len(<< >>) = 0
      BY <2>2, Ops, EmptySeq
    <3>2. Len(ret'.bytes) # 1
      BY <3>1
    <3> QED BY <3>2 DEF GotOne
  <2> QED BY <1>2, <2>1, <2>2
<1>5. ~(cnt' > 0)
  BY <1>3
<1>6. Aligned' /\ Again'
  BY <1>4, <1>5 DEF Aligned, Again
<1>7. "WRT" \notin flag /\ "WRT" \notin flag' /\ call # Closed /\ call' # Closed
  BY <1>2, MayReadIs, Ops DEF MayRead
<1>8. Content = disk /\ At = pos
  <2>1. Natural(cnt) = 0 /\ pos - 0 = pos
    BY <1>1 DEF Natural
  <2> QED BY <1>7, <2>1, InputPlace
<1>9. Content' = disk /\ At' = pos
  <2>1. Natural(cnt') = 0 /\ pos - 0 = pos
    BY <1>1, <1>3 DEF Natural
  <2> QED BY <1>2, <1>7, <2>1, InputPlaceNext
<1>10. pos >= Len(disk) => pos = Len(disk)
  BY <1>1
<1>11. Plain!Call
  BY <1>2, <1>8, <1>9, <1>10, IsOther
<1> QED BY <1>6, <1>11 DEF Simulates

\* n bytes are taken from the buffer
LEMMA TakePlain ==
    ASSUME BInv, BInv', Aligned, MayRead, NEW n \in Nat, n >= 1, n <= cnt,
           ptr' = ptr + n, cnt' = cnt - n, call' # Closed,
           UNCHANGED <<flag, buf, own, append, disk, pos>>,
           NEW bs, bs = SubSeq(buf, ptr + 1, ptr + n), ret' = Got(bs)
    PROVE  Aligned' /\ Again' /\ Simulates
<1>1. /\ cnt \in Int /\ ptr \in Nat /\ buf \in Seq(Byte) /\ Len(buf) \in Nat
      /\ disk \in Seq(Byte) /\ Len(disk) \in Nat /\ pos \in Nat /\ pos <= Len(disk)
  BY DEF BInv, TypeOK, Shapes
<1>2. "READ" \in flag /\ "WRT" \notin flag /\ call # Closed /\ cnt > 0
  <2>1. cnt > 0
    BY <1>1
  <2> QED BY <2>1, MayReadIs DEF MayRead
<1>3. PICK t : t = cnt + ptr
  OBVIOUS
<1>4. t \in Nat /\ t <= pos /\ \A k \in 1 .. t : buf[k] = disk[pos - t + k]
  <2>1. t \in Nat
    BY <1>1, <1>2, <1>3
  <2> QED BY <1>2, <1>3, <2>1 DEF Aligned
<1>5. t <= Len(buf)
  BY <1>2, <1>3 DEF BInv, Bounds
<1>6. Aligned'
  <2>1. cnt' + ptr' = t /\ cnt' >= 0 /\ cnt' + ptr' <= pos'
    BY <1>1, <1>3, <1>4
  <2>2. \A k \in 1 .. cnt' + ptr' : buf'[k] = disk'[pos' - (cnt' + ptr') + k]
    BY <1>4, <2>1
  <2> QED BY <2>1, <2>2 DEF Aligned
<1>7. Content = disk /\ At = pos - cnt /\ At \in Nat
  <2>1. Natural(cnt) = cnt
    BY <1>1, <1>2 DEF Natural
  <2>2. pos - cnt \in Nat
    BY <1>1, <1>2, <1>3, <1>4
  <2> QED BY <1>2, <2>1, <2>2, InputPlace
<1>8. Content' = disk /\ At' = At + n /\ At + n <= Len(disk)
  <2>1. Natural(cnt') = cnt - n
    BY <1>1 DEF Natural
  <2>2. pos - (cnt - n) = pos - cnt + n /\ pos - cnt + n <= Len(disk)
    BY <1>1
  <2> QED BY <1>2, <1>7, <2>1, <2>2, InputPlaceNext
<1>9. /\ bs \in Seq(Byte) /\ Len(bs) = n /\ \A k \in 1 .. n : bs[k] = buf[ptr + k]
  <2>1. PICK q : q = ptr + n
    OBVIOUS
  <2>2. q \in Nat /\ ptr <= q /\ q <= Len(buf) /\ n = q - ptr
    BY <1>1, <1>3, <1>5, <2>1
  <2>3. /\ SubSeq(buf, ptr + 1, q) \in Seq(Byte) /\ Len(SubSeq(buf, ptr + 1, q)) = n
        /\ \A k \in 1 .. n : SubSeq(buf, ptr + 1, q)[k] = buf[ptr + k]
    BY <1>1, <2>2, Sub
  <2> QED BY <2>1, <2>3
<1>10. PICK a : a = At
  OBVIOUS
<1>11. a \in Nat /\ a + n <= Len(disk) /\ a = pos - cnt
  BY <1>7, <1>8, <1>10
<1>12. SubSeq(disk, a + 1, a + n) = bs
  <2>1. PICK q : q = a + n
    OBVIOUS
  <2>2. q \in Nat /\ a <= q /\ q <= Len(disk) /\ n = q - a
    BY <1>11, <2>1
  <2>3. PICK e : e = SubSeq(disk, a + 1, q)
    OBVIOUS
  <2>4. e \in Seq(Byte) /\ Len(e) = n /\ \A k \in 1 .. n : e[k] = disk[a + k]
    BY <1>1, <1>11, <2>2, <2>3, Sub
  <2>5. ASSUME NEW k \in 1 .. n
        PROVE  e[k] = bs[k]
    <3>1. PICK j : j = ptr + k
      OBVIOUS
    <3>2. j \in 1 .. t /\ pos - t + j = a + k
      BY <1>1, <1>3, <1>4, <1>11, <3>1
    <3>3. buf[j] = disk[a + k]
      BY <1>4, <3>2
    <3> QED BY <1>9, <2>4, <3>1, <3>3
  <2>6. e = bs
    BY <1>9, <2>4, <2>5, SeqEqual
  <2> QED BY <2>1, <2>3, <2>6
<1>13. Again'
  <2>1. ASSUME GotOne'
        PROVE  buf'[ptr'] = ret'.bytes[1]
    <3>1. Len(bs) = 1
      BY <2>1, Ops DEF GotOne
    <3>2. n = 1
      BY <1>9, <3>1
    <3>3. bs[1] = buf[ptr + 1] /\ ptr' = ptr + 1
      BY <1>9, <3>2
    <3> QED BY <3>3, Ops
  <2> QED BY <2>1 DEF Again
<1>14. Plain!Call
  BY <1>1, <1>7, <1>8, <1>10, <1>12, IsGet
<1> QED BY <1>6, <1>13, <1>14 DEF Simulates
LEMMA Single ==
    ASSUME NEW S, NEW s \in Seq(S), NEW i \in Nat, i + 1 <= Len(s)
    PROVE  SubSeq(s, i + 1, i + 1) = << s[i + 1] >>
<1>1. PICK j : j = i + 1
  OBVIOUS
<1>2. j \in Nat /\ i <= j /\ j <= Len(s) /\ 1 = j - i
  BY <1>1
<1>3. PICK x : x = SubSeq(s, i + 1, j)
  OBVIOUS
<1>4. x \in Seq(S) /\ Len(x) = 1 /\ \A k \in 1 .. 1 : x[k] = s[i + k]
  BY <1>2, <1>3, Sub
<1>5. x[1] = s[i + 1]
  BY <1>4
<1>6. x = << s[i + 1] >>
  BY <1>4, <1>5
<1> QED BY <1>1, <1>3, <1>6

LEMMA FgetcPlain ==
    ASSUME BInv, BInv', Aligned, MayRead, NEW next, Fgetc(next),
           \A b \in Byte : next[b] # Closed
    PROVE  Aligned' /\ Again' /\ Simulates
<1>1. UNCHANGED <<own, append, disk>>
  BY DEF Fgetc
<1>2. /\ cnt \in Int /\ ptr \in Nat /\ Len(buf) \in Nat /\ buf \in Seq(Byte)
      /\ disk \in Seq(Byte)
  BY DEF BInv, TypeOK
<1>3. CASE cnt <= 0 /\ Unfilled(cnt - 1)
  BY <1>1, <1>3, UnfilledPlain
<1>4. ASSUME NEW n \in 1 .. MaxLen, cnt <= 0, Filled(n, cnt - 1, 1),
             ret' = Got(<<disk[pos + 1]>>), call' = next[disk[pos + 1]]
      PROVE  Aligned' /\ Again' /\ Simulates
  <2>1. PICK room : room = IF based THEN size ELSE Size
    OBVIOUS
  <2>2. n \in 1 .. Least(room, Len(disk) - pos) /\ room \in Nat /\ pos \in Nat
        /\ Len(disk) \in Nat
    BY <1>4, <2>1, Shape DEF Filled, BInv, TypeOK
  <2>3. pos + 1 \in 1 .. Len(disk)
    BY <2>2 DEF Least
  <2>4. PICK b : b = disk[pos + 1]
    OBVIOUS
  <2>5. b \in Byte
    BY <1>2, <2>3, <2>4, ByteOf
  <2>6. call' # Closed
    BY <1>4, <2>4, <2>5
  <2>7. PICK c : c = cnt - 1
    OBVIOUS
  <2>8. PICK p : p = 1
    OBVIOUS
  <2>9. Filled(n, c, p) /\ p \in {0, 1} /\ disk' = disk
    BY <1>1, <1>4, <2>7, <2>8
  <2>10. /\ Aligned' /\ Content' = Content /\ Content = disk /\ At = pos /\ At' = At + p
         /\ At \in Nat /\ At + 1 <= Len(disk) /\ buf'[1] = disk[At + 1] /\ ptr' = p
    BY <1>4, <2>6, <2>9, FilledPlain
  <2>11. PICK a : a = At
    OBVIOUS
  <2>12. SubSeq(disk, a + 1, a + 1) = << b >>
    BY <1>2, <2>4, <2>10, <2>11, Single
  <2>13. Plain!Call
    <3>1. ret' = Got(SubSeq(Content, At + 1, At + p))
      BY <1>4, <2>4, <2>8, <2>10, <2>11, <2>12
    <3>2. p \in Nat /\ p >= 1 /\ At + p <= Len(Content)
      BY <2>8, <2>10
    <3>3. Content \in Seq(Byte)
      BY <1>2, <2>10
    <3> QED BY <2>10, <3>1, <3>2, <3>3, IsGet
  <2>14. Again'
    <3>1. ret'.bytes = << b >>
      BY <1>4, <2>4, Ops
    <3>2. buf'[ptr'] = b
      BY <2>4, <2>8, <2>10
    <3> QED BY <3>1, <3>2 DEF Again
  <2> QED BY <1>1, <2>10, <2>13, <2>14 DEF Simulates
<1>5. CASE /\ cnt > 0 /\ ptr' = ptr + 1 /\ cnt' = cnt - 1
           /\ ret' = Got(<<buf[ptr + 1]>>) /\ call' = next[buf[ptr + 1]]
           /\ UNCHANGED <<flag, based, size, buf, pos>>
  <2>1. cnt + ptr <= Len(buf)
    BY <1>5, MayReadIs DEF BInv, Bounds
  <2>2. PICK i : i = ptr + 1
    OBVIOUS
  <2>3. i \in 1 .. Len(buf)
    BY <1>2, <1>5, <2>1, <2>2
  <2>4. buf[i] \in Byte
    BY <1>2, <2>3, ByteOf
  <2>5. call' # Closed
    BY <1>5, <2>2, <2>4
  <2>6. PICK bs : bs = SubSeq(buf, ptr + 1, ptr + 1)
    OBVIOUS
  <2>7. bs = << buf[ptr + 1] >>
    BY <1>2, <2>2, <2>3, <2>6, Single
  <2>8. ret' = Got(bs)
    BY <1>5, <2>7
  <2>9. PICK n : n = 1
    OBVIOUS
  <2>10. /\ n \in Nat /\ n >= 1 /\ n <= cnt /\ ptr' = ptr + n /\ cnt' = cnt - n
         /\ bs = SubSeq(buf, ptr + 1, ptr + n)
    BY <1>2, <1>5, <2>6, <2>9
  <2>11. UNCHANGED <<flag, buf, own, append, disk, pos>>
    BY <1>1, <1>5
  <2> QED BY <2>5, <2>8, <2>10, <2>11, TakePlain
<1> QED BY <1>3, <1>4, <1>5 DEF Fgetc

LEMMA GetcPlain ==
    ASSUME BInv, BInv', Aligned, Getc
    PROVE  Aligned' /\ Again' /\ Simulates
<1>1. MayRead
  BY DEF Getc, Calling, MayGet, MayRead, BInv, Direction
<1>2. PICK next : next = [b \in Byte |-> Idle]
  OBVIOUS
<1>3. \A b \in Byte : next[b] # Closed
  BY <1>2, Ops
<1>4. Fgetc(next)
  BY <1>2 DEF Getc
<1> QED BY <1>1, <1>3, <1>4, FgetcPlain

LEMMA FgetsBytePlain ==
    ASSUME BInv, BInv', Aligned, FgetsByte
    PROVE  Aligned' /\ Again' /\ Simulates
<1>1. call.op = "fgets" /\ call \in Takes /\ call # Closed
  BY Ops DEF FgetsByte, BInv, Shapes
<1>2. MayRead
  BY <1>1 DEF MayRead, BInv, Direction, InCall
<1>3. PICK next : next = [b \in Byte |-> IF b = Newline \/ call.left = 1 THEN Idle
                                       ELSE [call EXCEPT !.left = @ - 1]]
  OBVIOUS
<1>4. \A b \in Byte : next[b] # Closed
  <2>1. [call EXCEPT !.left = call.left - 1].op = "fgets"
    BY <1>1 DEF Takes
  <2>2. [call EXCEPT !.left = call.left - 1] # Closed
    BY <2>1, Ops
  <2> QED BY <1>3, <2>2, Ops
<1>5. Fgetc(next)
  BY <1>3 DEF FgetsByte
<1> QED BY <1>2, <1>4, <1>5, FgetcPlain

\* a step that leaves the stream as it is
LEMMA StillPlain ==
    ASSUME BInv', Aligned, UNCHANGED <<flag, cnt, ptr, buf, own, append, disk, pos>>,
           call # Closed, call' # Closed,
           ret' \in {Void, Failed} \/ (UNCHANGED ret /\ call'.op # "none")
    PROVE  Aligned' /\ Again' /\ Simulates
<1>1. Content' = Content
  BY DEF Content, WriteAt, Pending
<1>2. At' = At
  BY <1>1 DEF At, Pending
<1>3. ~GotOne'
  BY Ops DEF GotOne
<1>4. cnt' \in Int
  BY DEF BInv, TypeOK
<1>5. Aligned' /\ Again'
  BY <1>3, <1>4, AlignedKept
<1>6. CASE ret' \in {Void, Failed}
  BY <1>1, <1>2, <1>5, <1>6, IsOther DEF Simulates
<1>7. CASE UNCHANGED ret
  BY <1>1, <1>2, <1>5, <1>7 DEF Simulates
<1> QED BY <1>6, <1>7

LEMMA ReadsPlain ==
    ASSUME BInv, BInv', Aligned, NEW n, NEW op \in {"fread", "fgets", "gets"}, Reads(op, n)
    PROVE  Aligned' /\ Again' /\ Simulates
<1>1. call # Closed /\ call' = [op |-> op, left |-> n]
  BY Ops DEF Reads, Calling
<1>2. call'.op = op
  BY <1>1
<1>3. call' # Closed
  BY <1>2, Ops
<1>4. UNCHANGED <<flag, cnt, ptr, buf, own, append, disk, pos, ret>>
  BY DEF Reads
<1> QED BY <1>1, <1>2, <1>3, <1>4, StillPlain

LEMMA SetvbufPlain ==
    ASSUME BInv, BInv', Aligned, NEW n, Setvbuf(n)
    PROVE  Aligned' /\ Again' /\ Simulates
<1>1. /\ call # Closed /\ call' # Closed /\ ret' = Void
      /\ UNCHANGED <<flag, buf, own, append, disk, pos>>
      /\ ptr' = 0 /\ cnt' = 0 /\ ptr = 0 /\ cnt = 0
  BY Ops DEF Setvbuf, Calling, Returns, BInv, Bounds
<1>2. UNCHANGED <<flag, cnt, ptr, buf, own, append, disk, pos>>
  BY <1>1
<1> QED BY <1>1, <1>2, StillPlain

LEMMA RefillPlain ==
    ASSUME BInv, BInv', Aligned, Refill
    PROVE  Aligned' /\ Again' /\ Simulates
<1>1. /\ call.op \in {"fread", "gets"} /\ call # Closed /\ cnt <= 0
      /\ UNCHANGED <<own, append, disk>>
  BY Ops DEF Refill
<1>2. MayRead
  BY <1>1 DEF MayRead, BInv, Direction, InCall
<1>3. CASE Unfilled(cnt)
  BY <1>1, <1>2, <1>3, UnfilledPlain
<1>4. CASE (\E n \in 1 .. MaxLen : Filled(n, cnt, 0)) /\ UNCHANGED <<call, ret>>
  <2>1. PICK n \in 1 .. MaxLen : Filled(n, cnt, 0)
    BY <1>4
  <2>2. 0 \in {0, 1} /\ call' # Closed /\ disk' = disk
    BY <1>1, <1>4
  <2>3. Aligned' /\ Content' = Content /\ At' = At + 0 /\ At \in Nat
    BY <1>1, <1>2, <2>1, <2>2, FilledPlain
  <2>4. At' = At
    BY <2>3, ZeroPlus
  <2>5. Again'
    BY <1>1, <1>4 DEF Again, GotOne
  <2> QED BY <1>1, <1>4, <2>3, <2>4, <2>5 DEF Simulates
<1> QED BY <1>1, <1>3, <1>4 DEF Refill

LEMMA FreadCopyPlain ==
    ASSUME BInv, BInv', Aligned, FreadCopy
    PROVE  Aligned' /\ Again' /\ Simulates
<1>1. call.op = "fread" /\ call \in Takes /\ cnt > 0
  BY DEF FreadCopy, BInv, Shapes
<1>2. MayRead
  BY <1>1, Ops DEF MayRead, BInv, Direction, InCall
<1>3. PICK n : n = Least(cnt, call.left)
  OBVIOUS
<1>4. PICK then : then = IF n = call.left THEN Idle ELSE [call EXCEPT !.left = call.left - n]
  OBVIOUS
<1>5. Take(n, then)
  BY <1>3, <1>4 DEF FreadCopy
<1>6. call.left \in Nat \ {0} /\ cnt \in Int
  BY <1>1 DEF Takes, BInv, TypeOK
<1>7. n \in Nat /\ n >= 1 /\ n <= cnt
  BY <1>1, <1>3, <1>6 DEF Least
<1>8. call' # Closed
  <2>1. call' = then
    BY <1>5 DEF Take
  <2>2. then.op \in {"none", "fread"}
    BY <1>1, <1>4, Ops DEF Takes
  <2> QED BY <2>1, <2>2, Ops
<1>9. PICK bs : bs = SubSeq(buf, ptr + 1, ptr + n)
  OBVIOUS
<1>10. /\ ptr' = ptr + n /\ cnt' = cnt - n /\ ret' = Got(bs)
       /\ UNCHANGED <<flag, buf, own, append, disk, pos>>
  BY <1>5, <1>9 DEF Take
<1> QED BY <1>2, <1>7, <1>8, <1>9, <1>10, TakePlain

LEMMA GetsCopyPlain ==
    ASSUME BInv, BInv', Aligned, GetsCopy
    PROVE  Aligned' /\ Again' /\ Simulates
<1>1. call.op = "gets" /\ cnt > 0 /\ cnt \in Int /\ call # Closed
  BY Ops DEF GetsCopy, BInv, TypeOK
<1>2. MayRead
  BY <1>1, Ops DEF MayRead, BInv, Direction, InCall
<1>3. PICK n \in 1 .. cnt, then \in {call, Idle} : Take(n, then)
  <2>1. cnt \in 1 .. cnt
    BY <1>1
  <2> QED BY <2>1 DEF GetsCopy
<1>4. call' # Closed
  BY <1>1, <1>3, Ops DEF Take
<1>5. n \in Nat /\ n >= 1 /\ n <= cnt
  BY <1>1
<1>6. PICK bs : bs = SubSeq(buf, ptr + 1, ptr + n)
  OBVIOUS
<1>7. /\ ptr' = ptr + n /\ cnt' = cnt - n /\ ret' = Got(bs)
      /\ UNCHANGED <<flag, buf, own, append, disk, pos>>
  BY <1>3, <1>6 DEF Take
<1> QED BY <1>2, <1>4, <1>5, <1>6, <1>7, TakePlain
\* the byte that is put back is the one that is there
LEMMA UngetcPlain ==
    ASSUME BInv, BInv', Aligned, Again, Ungetc
    PROVE  Aligned' /\ Again' /\ Simulates
<1>1. /\ call.op = "none" /\ call # Closed /\ call' # Closed
      /\ ret.op = "get" /\ Len(ret.bytes) = 1
      /\ ret.bytes \in Seq(Byte) /\ "READ" \in flag /\ "WRT" \notin flag
      /\ UNCHANGED <<based, size, own, append, disk, pos>>
  BY Ops DEF Ungetc, Calling, Returns, BInv, Direction, Shapes
<1>2. GotOne
  BY <1>1 DEF GotOne
<1>3. CASE ptr = 0
  <2>1. ret' = Failed /\ UNCHANGED <<flag, cnt, ptr, buf, own, append, disk, pos>>
    BY <1>1, <1>3 DEF Ungetc, Returns
  <2> QED BY <1>1, <2>1, StillPlain
<1>4. CASE ptr # 0
  <2>1. /\ ptr' = ptr - 1 /\ cnt' = cnt + 1 /\ buf' = Stored(ptr - 1, ret.bytes)
        /\ flag' = flag \ {"EOF"} /\ ret' = Returned
    BY <1>4 DEF Ungetc, Returns
  <2>2. /\ cnt \in Int /\ ptr \in Nat /\ pos \in Nat /\ ptr > 0 /\ buf \in Seq(Byte)
        /\ Len(buf) \in Nat /\ ptr <= Len(buf)
    BY <1>4 DEF BInv, TypeOK, Bounds
  <2>3. cnt >= 0 /\ cnt + ptr <= pos
    BY <1>1, <1>2 DEF Aligned
  <2>4. buf' = buf
    <3>1. PICK p : p = ptr - 1
      OBVIOUS
    <3>2. p \in Nat /\ p < Len(buf) /\ p + 1 = ptr
      BY <2>2, <3>1
    <3>3. PICK bs : bs = ret.bytes
      OBVIOUS
    <3>4. bs \in Seq(Byte) /\ Len(bs) = 1 /\ bs[1] = buf[p + 1]
      BY <1>1, <1>2, <2>2, <3>2, <3>3 DEF Again
    <3>5. Overwritten(buf, p, bs) = buf
      BY <2>2, <3>2, <3>4, OverSame
    <3> QED BY <2>1, <3>1, <3>3, <3>5 DEF Stored
  <2>5. Aligned' /\ Again'
    <3>1. cnt' + ptr' = cnt + ptr /\ cnt' \in Int
      BY <2>1, <2>2
    <3>2. ~GotOne'
      BY <2>1, Ops DEF GotOne
    <3> QED BY <1>1, <1>2, <2>4, <3>1, <3>2, AlignedKept
  <2>6. Content = disk /\ At = pos - cnt
    <3>1. Natural(cnt) = cnt
      BY <2>2, <2>3 DEF Natural
    <3> QED BY <1>1, <3>1, InputPlace
  <2>7. Content' = disk /\ At' = pos - (cnt + 1)
    <3>1. Natural(cnt') = cnt + 1
      BY <2>1, <2>2, <2>3 DEF Natural
    <3>2. "WRT" \notin flag'
      BY <1>1, <2>1
    <3> QED BY <1>1, <3>1, <3>2, InputPlaceNext
  <2>8. At > 0 /\ At' = At - 1
    BY <2>2, <2>3, <2>6, <2>7
  <2>9. Plain!Call
    BY <2>1, <2>6, <2>7, <2>8, IsOther
  <2> QED BY <1>1, <2>5, <2>9 DEF Simulates
<1> QED BY <1>3, <1>4

LEMMA SeekReadPlain ==
    ASSUME BInv, BInv', Aligned,
           NEW to \in 0 .. Len(Content), NEW origin \in {"set", "cur", "end"},
           NEW cleared, call.op = "none", FseekSafe(to, origin),
           SeekRead(to, origin, cleared)
    PROVE  Aligned' /\ Again' /\ Simulates
<1>1. /\ call # Closed /\ "READ" \in flag /\ "WRT" \notin flag
      /\ Content = disk /\ to \in Nat /\ to <= Len(disk) /\ call' # Closed
      /\ UNCHANGED <<buf, own, disk>> /\ ret' = Sought(to) /\ "WRT" \notin flag'
  BY SeekReadIs, Ops
<1>2. ~GotOne'
  BY <1>1, Ops DEF GotOne
<1>3. cnt' \in Int /\ pos' \in Nat
  BY DEF BInv, TypeOK
<1>4. CASE cnt > 0 /\ cnt' \in Nat /\ cnt' + ptr' = cnt + ptr /\ pos' = pos /\ pos - cnt' = to
  <2>1. Aligned' /\ Again'
    BY <1>1, <1>2, <1>3, <1>4, AlignedKept
  <2>2. Natural(cnt') = cnt'
    BY <1>4 DEF Natural
  <2>3. Content' = Content /\ At' = to
    BY <1>1, <1>4, <2>2, InputPlaceNext
  <2>4. Plain!Call
    BY <1>1, <2>3, IsOther
  <2> QED BY <1>1, <2>1, <2>4 DEF Simulates
<1>5. CASE pos' = to /\ cnt' = 0
  <2>1. ~(cnt' > 0)
    BY <1>5
  <2>2. Aligned' /\ Again'
    BY <1>2, <2>1 DEF Aligned, Again
  <2>3. Natural(cnt') = 0 /\ pos' - 0 = pos'
    BY <1>3, <1>5 DEF Natural
  <2>4. Content' = Content /\ At' = to
    BY <1>1, <1>5, <2>3, InputPlaceNext
  <2>5. Plain!Call
    BY <1>1, <2>4, IsOther
  <2> QED BY <1>1, <2>2, <2>5 DEF Simulates
<1> QED BY <1>4, <1>5, SeekReadIs

LEMMA SeekWritePlain ==
    ASSUME BInv, BInv',
           NEW to \in 0 .. Len(Content), NEW origin \in {"set", "cur", "end"},
           NEW cleared, call.op = "none", FseekSafe(to, origin),
           SeekWrite(to, origin, cleared)
    PROVE  Aligned' /\ Again' /\ Simulates
<1>1. /\ call # Closed /\ "READ" \notin flag /\ ~append /\ own /\ append' = append
      /\ call' # Closed
      /\ flag' = flag \ (cleared \cup IF "RW" \in flag THEN {"WRT"} ELSE {})
  BY SeekWriteIs, Ops
<1>2. "READ" \notin flag'
  BY <1>1
<1>3. Aligned' /\ Again'
  BY <1>2, Writer
<1>4. CASE FlushFails
  <2>1. own' = FALSE
    BY <1>4 DEF FlushFails
  <2> QED BY <1>3, <2>1 DEF Simulates
<1>5. CASE /\ disk' = Content /\ pos' = to /\ own' = own /\ ret' = Sought(to)
           /\ ptr' = (IF "RW" \in flag THEN 0 ELSE PtrFlushed)
  <2>1. "WRT" \notin flag' \/ ptr' = 0
    BY <1>1, <1>5 DEF PtrFlushed
  <2>2. Content' = disk' /\ WriteAt' = pos'
    BY <1>1, <2>1, PlaceNext DEF Facts
  <2>3. At' = to
    <3>1. pos' \in Nat
      BY DEF BInv, TypeOK
    <3>2. CASE "WRT" \in flag'
      <4>1. At' = WriteAt' + ptr' /\ ptr' = 0
        BY <1>1, <2>1, <3>2, PlaceNext DEF Facts
      <4> QED BY <1>5, <2>2, <3>1, <4>1, ZeroPlus
    <3>3. CASE "WRT" \notin flag'
      BY <1>1, <1>2, <1>5, <3>3, PlaceNext DEF Facts
    <3> QED BY <3>2, <3>3
  <2>4. Plain!Call
    BY <1>5, <2>2, <2>3, IsOther
  <2> QED BY <1>3, <1>5, <2>4 DEF Simulates
<1> QED BY <1>4, <1>5, SeekWriteIs

LEMMA FseekPlain ==
    ASSUME Careful, BInv, BInv', Aligned,
           NEW to \in 0 .. Len(Content), NEW origin \in {"set", "cur", "end"},
           Fseek(to, origin)
    PROVE  Aligned' /\ Again' /\ Simulates
<1>1. PICK cleared : cleared = {"EOF"}
  OBVIOUS
<1>2. /\ call.op = "none" /\ FseekSafe(to, origin)
      /\ SeekRead(to, origin, cleared) \/ SeekWrite(to, origin, cleared)
  BY <1>1 DEF Fseek, Calling
<1> QED BY <1>2, SeekReadPlain, SeekWritePlain

LEMMA RewindPlain ==
    ASSUME Careful, BInv, BInv', Aligned, Rewind
    PROVE  Aligned' /\ Again' /\ Simulates
<1>1. PICK cleared : cleared = {"EOF", "ERR"}
  OBVIOUS
<1>2. PICK to : to = 0
  OBVIOUS
<1>3. PICK origin : origin = "set"
  OBVIOUS
<1>4. to \in 0 .. Len(Content) /\ origin \in {"set", "cur", "end"}
  <2>1. Len(Content) \in Nat
    BY PendingIs DEF BInv
  <2> QED BY <1>2, <1>3, <2>1
<1>5. /\ call.op = "none" /\ FseekSafe(to, origin)
      /\ SeekRead(to, origin, cleared) \/ SeekWrite(to, origin, cleared)
  BY <1>1, <1>2, <1>3 DEF Rewind, Calling
<1> QED BY <1>4, <1>5, SeekReadPlain, SeekWritePlain

LEMMA FtellPlain ==
    ASSUME Careful, BInv, BInv', Aligned, Ftell
    PROVE  Aligned' /\ Again' /\ Simulates
<1>1. /\ call # Closed /\ call' # Closed /\ FtellSafe /\ own
      /\ UNCHANGED <<flag, ptr, based, size, buf, own, append, disk, pos>>
      /\ cnt' = Natural(cnt)
  BY Ops DEF Ftell, FtellSafe, Calling, Returns
<1>2. ret' = (IF "READ" \in flag THEN Told(pos - cnt')
              ELSE IF "WRT" \in flag /\ based /\ "NBF" \notin flag THEN Told(pos + ptr)
              ELSE Told(pos))
  BY <1>1 DEF Ftell, Returns
<1>3. cnt \in Int /\ ptr \in Nat /\ pos \in Nat /\ cnt' \in Nat
      /\ Natural(cnt') = cnt' /\ (cnt' > 0 => cnt' = cnt)
  BY <1>1 DEF BInv, TypeOK, Natural
<1>4. ~GotOne'
  <2>1. \E n : ret' = Told(n)
    BY <1>2
  <2> QED BY <2>1, Ops DEF GotOne
<1>5. Aligned' /\ Again'
  <2>1. CASE cnt' > 0 /\ "READ" \in flag
    <3>1. cnt > 0 /\ cnt' + ptr' = cnt + ptr /\ cnt' \in Int
      BY <1>1, <1>3, <2>1
    <3> QED BY <1>1, <1>4, <2>1, <3>1, AlignedKept
  <2>2. CASE ~(cnt' > 0 /\ "READ" \in flag)
    BY <1>1, <1>4, <2>2 DEF Aligned, Again
  <2> QED BY <2>1, <2>2
<1>6. Content' = Content
  BY <1>1 DEF Content, WriteAt, Pending
<1>7. At' = At
  BY <1>1, <1>3, <1>6 DEF At, Pending
<1>8. ret' = Told(At)
  <2>1. Facts
    BY Place
  <2>2. CASE "READ" \in flag
    <3>1. "WRT" \notin flag
      BY <2>2 DEF BInv, Direction
    <3>2. At = pos - cnt'
      BY <1>1, <2>1, <2>2, <3>1 DEF Facts
    <3> QED BY <1>2, <2>2, <3>2
  <2>3. CASE "READ" \notin flag /\ "WRT" \in flag
    <3>1. At = WriteAt + ptr
      BY <1>1, <2>1, <2>3 DEF Facts
    <3>2. WriteAt = pos
      BY <1>1, <2>1 DEF Facts, FtellSafe
    <3>3. CASE based /\ "NBF" \notin flag
      BY <1>2, <2>3, <3>1, <3>2, <3>3
    <3>4. CASE ~(based /\ "NBF" \notin flag)
      <4>1. ptr = 0
        BY <1>1, <3>4 DEF FtellSafe, BInv, Bounds
      <4>2. pos + ptr = pos
        BY <1>3, <4>1, ZeroPlus
      <4> QED BY <1>2, <2>3, <3>1, <3>2, <3>4, <4>2
    <3> QED BY <3>3, <3>4
  <2>4. CASE "READ" \notin flag /\ "WRT" \notin flag
    <3>1. At = pos
      BY <1>1, <2>1, <2>4 DEF Facts
    <3> QED BY <1>2, <2>4, <3>1
  <2> QED BY <2>2, <2>3, <2>4
<1>9. Plain!Call
  BY <1>6, <1>7, <1>8, IsOther
<1> QED BY <1>1, <1>5, <1>9 DEF Simulates

-----------------------------------------------------------------------------
IInv == BInv /\ Aligned /\ Again

LEMMA PlainInit == Init => Aligned /\ Again /\ Plain!Init
<1> SUFFICES ASSUME Init
             PROVE  Aligned /\ Again /\ Plain!Init
  OBVIOUS
<1>1. /\ cnt = 0 /\ ptr = 0 /\ own = TRUE /\ pos = 0 /\ call = Idle /\ ret = Void
  BY DEF Init
<1>2. ~GotOne
  BY <1>1, Ops DEF GotOne
<1>3. Aligned /\ Again
  BY <1>1, <1>2 DEF Aligned, Again
<1>4. BInv /\ Facts
  BY BInit, Place
<1>5. At \in {0, Len(Content)}
  <2>1. call # Closed
    BY <1>1, Ops
  <2>2. CASE append
    BY <1>4, <2>1, <2>2 DEF Facts
  <2>3. CASE ~append
    <3>1. WriteAt = 0 /\ Natural(cnt) = 0
      BY <1>1, <1>4, <2>3 DEF Facts, Natural
    <3>2. 0 + 0 = 0 /\ 0 - 0 = 0
      OBVIOUS
    <3> QED BY <1>1, <1>4, <2>1, <3>1, <3>2 DEF Facts
  <2> QED BY <2>2, <2>3
<1>6. Plain!Init
  BY <1>1, <1>5 DEF Plain!Init, Plain!Void, Void
<1> QED BY <1>3, <1>6

LEMMA PlainUser ==
    ASSUME Careful, IInv, BInv', User
    PROVE  Aligned' /\ Again' /\ Simulates
<1>1. BInv /\ Aligned /\ Again
  BY DEF IInv
<1>2. ASSUME NEW b \in Byte, Putc(b) PROVE Aligned' /\ Again' /\ Simulates
  BY <1>1, <1>2, PutcPlain
<1>3. ASSUME NEW bs \in Strings, Fwrite(bs) PROVE Aligned' /\ Again' /\ Simulates
  BY <1>1, <1>3, FwritePlain
<1>4. CASE Fflush
  BY <1>1, <1>4, FflushPlain
<1>5. CASE Getc
  BY <1>1, <1>5, GetcPlain
<1>6. ASSUME NEW n \in Lengths, NEW op \in {"fread", "fgets"}, Reads(op, n)
      PROVE  Aligned' /\ Again' /\ Simulates
  BY <1>1, <1>6, ReadsPlain
<1>7. CASE Reads("gets", 0)
  BY <1>1, <1>7, ReadsPlain
<1>8. CASE Ungetc
  BY <1>1, <1>8, UngetcPlain
<1>9. ASSUME NEW to \in 0 .. Len(Content), NEW origin \in {"set", "cur", "end"},
             Fseek(to, origin)
      PROVE  Aligned' /\ Again' /\ Simulates
  BY <1>1, <1>9, FseekPlain
<1>10. CASE Rewind
  BY <1>1, <1>10, RewindPlain
<1>11. CASE Ftell
  BY <1>1, <1>11, FtellPlain
<1>12. ASSUME NEW n \in Buffers, Setvbuf(n) PROVE Aligned' /\ Again' /\ Simulates
  BY <1>1, <1>12, SetvbufPlain
<1>13. CASE Fclose
  BY <1>1, <1>13, FclosePlain
<1> QED BY <1>2, <1>3, <1>4, <1>5, <1>6, <1>7, <1>8, <1>9, <1>10, <1>11, <1>12, <1>13
        DEF User

LEMMA PlainLibrary ==
    ASSUME IInv, BInv', Library
    PROVE  Aligned' /\ Again' /\ Simulates
<1>1. BInv /\ Aligned /\ Again
  BY DEF IInv
<1> QED BY <1>1, UnbufferPlain, FwriteFlushPlain, FwriteCopyPlain, FwriteEndPlain,
           FgetsBytePlain, RefillPlain, FreadCopyPlain, GetsCopyPlain DEF Library

LEMMA PlainStep ==
    ASSUME Careful
    PROVE  IInv /\ [Next]_vars => IInv' /\ [Plain!Next]_<<Content, At, own, ret>>
<1> SUFFICES ASSUME IInv, [Next]_vars
             PROVE  IInv' /\ [Plain!Next]_<<Content, At, own, ret>>
  OBVIOUS
<1>1. BInv'
  BY BStep DEF IInv
<1>2. CASE Next
  <2>1. Aligned' /\ Again' /\ Simulates
    BY <1>1, <1>2, PlainUser, PlainLibrary DEF Next
  <2>2. own \in BOOLEAN /\ own' \in BOOLEAN
    BY <1>1 DEF IInv, BInv, TypeOK
  <2>3. own' => own' = own
    BY <2>1, <2>2 DEF Simulates
  <2>4. [Plain!Next]_<<Content, At, own, ret>>
    BY <2>1, <2>3 DEF Simulates, Plain!Next
  <2> QED BY <1>1, <2>1, <2>4 DEF IInv
<1>3. CASE UNCHANGED vars
  <2>1. Content' = Content
    BY <1>3 DEF vars, Content, WriteAt, Pending
  <2>2. At' = At
    BY <1>3, <2>1 DEF vars, At, Pending
  <2>3. Aligned' /\ Again'
    BY <1>3 DEF vars, IInv, Aligned, Again, GotOne
  <2> QED BY <1>1, <1>3, <2>1, <2>2, <2>3 DEF vars, IInv
<1> QED BY <1>2, <1>3

\* To a careful program the stream of libc_impl.c, with its buffer, its count
\* and its flags, is the file without a buffer of PlainFile, until a write fails:
\* each of its steps is one of that file's calls or changes nothing the program
\* can see.
THEOREM StreamIsFile == ASSUME Careful PROVE Spec => FileSpec
<1>1. Init => IInv /\ Plain!Init
  BY BInit, PlainInit DEF IInv
<1>2. IInv /\ [Next]_vars => IInv' /\ [Plain!Next]_<<Content, At, own, ret>>
  BY PlainStep
<1> QED BY <1>1, <1>2, PTL DEF Spec, FileSpec, Plain!Spec
=============================================================================
