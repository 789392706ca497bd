---------------------------- MODULE StreamsProofs ----------------------------
(***************************************************************************)
(* Proofs about Streams, for any archive, any capacities of the buffers    *)
(* and any calls.                                                          *)
(***************************************************************************)
EXTENDS Streams, ListLemmas

Worlds == [disk : Seq(Byte), raw : Nat, st : [Ids -> Stream]]

\* The bytes of a member.
FileOf(m) == Cut(Archive, Offset[m], MemberSize[m])

\* A stream over f that is not being written to: its buffer is a window on f.
Reads(x, f, c) ==
    /\ x \in Stream /\ x.head <= x.read /\ x.read <= c
    /\ x.pos + x.read <= Len(f) /\ x.buf = Cut(f, x.pos, x.read)

\* A stream with bytes that are not in the file yet.
Writes(x, c) ==
    x \in Stream /\ x.read = 0 /\ x.head = Len(x.buf) /\ x.head > 0 /\ x.head <= c

\* The base stream, or the file's only one: g bytes of large writes are not
\* in position_.
Base(w, g) ==
    /\ w \in Worlds /\ g \in Nat /\ w.raw <= Len(w.disk)
    /\ Reads(w.st[0], w.disk, Capacity[0]) \/ Writes(w.st[0], Capacity[0])
    /\ w.raw = w.st[0].pos + w.st[0].read + g /\ (g > 0 => w.st[0].read = 0)

\* What the file's user sees of it, and where its cursor is.
Bytes(w) == IF w.st[0].read = 0 THEN Overlay(w.disk, w.raw, w.st[0].buf) ELSE w.disk
Cur(w)   == IF w.st[0].read > 0 THEN w.raw - w.st[0].read + w.st[0].head
            ELSE w.raw + w.st[0].head

Good(w, md, g) ==
    /\ Base(w, g)
    /\ md = "file" => \A m \in Members : w.st[m] = Fresh
    /\ md = "archive" => /\ g = 0 /\ w.disk = Archive
                         /\ Reads(w.st[0], Archive, Capacity[0])
                         /\ \A m \in Members : Reads(w.st[m], FileOf(m), Capacity[m])

\* The byte that was just read can be put back.
Returnable(x, c, d) ==
    c > 0 /\ d # <<>> => x.read > 0 /\ x.head > 0 /\ x.buf[x.head] = d[1]

IInv ==
    /\ mode \in {"archive", "file"} /\ open \subseteq Users
    /\ Good(World, mode, lag)
    /\ mode = "file" => Len(Bytes(World)) <= MaxFile
    /\ mode = "file" /\ 0 \notin open => raw = 0 /\ lag = 0 /\ st[0] = Fresh
    /\ out.op = "read" /\ out.asked = 1 /\ out.stream \in open
          => Returnable(st[out.stream], Capacity[out.stream], out.data)

-----------------------------------------------------------------------------
(* Pieces of files *)

\* The base stream is not a member, and the members lie in the archive.
LEMMA Ids0 ==
    /\ 0 \in Ids /\ Members \subseteq Ids /\ 0 \notin Members
    /\ Ids = {0} \cup Members
    /\ Capacity \in [Ids -> Nat] /\ Capacity[0] \in Nat /\ Capacity[0] > 1
    /\ Archive \in Seq(Byte)
    /\ \A m \in Members : /\ Capacity[m] \in Nat /\ Offset[m] \in Nat /\ MemberSize[m] \in Nat
                          /\ Offset[m] + MemberSize[m] <= Len(Archive)
BY StreamsAssumption DEF Ids, Members

\* Two sequences that agree.
LEMMA Equal ==
    ASSUME NEW S, NEW a \in Seq(S), NEW T, NEW b \in Seq(T), Len(a) = Len(b),
           \A i \in 1..Len(a) : a[i] = b[i]
    PROVE  a = b
BY SeqEqual

\* What Cut returns: at most n items, from the one behind p.
LEMMA CutIs ==
    ASSUME NEW S, NEW d \in Seq(S), NEW p \in Nat, NEW n \in Nat, p <= Len(d),
           NEW r, r = Cut(d, p, n)
    PROVE  /\ r \in Seq(S) /\ Len(r) = Least(n, Len(d) - p)
           /\ \A i \in 1..Len(r) : r[i] = d[p + i]
<1> DEFINE k == Least(p + n, Len(d))
<1>1. /\ Len(d) \in Nat /\ k \in Nat /\ k <= Len(d) /\ p <= k /\ k - p = Least(n, Len(d) - p)
  BY DEF Least
<1>2. r = SubSeq(d, p + 1, k)
  BY DEF Cut
<1> HIDE DEF k
<1>3. /\ r \in Seq(S) /\ Len(r) = k - p
      /\ \A i \in 1..(k - p) : r[i] = d[p + i]
  BY <1>1, <1>2
<1> QED BY <1>1, <1>3

\* What has the length and the items of a piece is that piece.
LEMMA IsCut ==
    ASSUME NEW S, NEW d \in Seq(S), NEW p \in Nat, NEW n \in Nat, p <= Len(d),
           NEW r \in Seq(S), Len(r) = Least(n, Len(d) - p),
           \A i \in 1..Len(r) : r[i] = d[p + i]
    PROVE  r = Cut(d, p, n)
<1> DEFINE q == Cut(d, p, n)
<1>1. q = Cut(d, p, n)
  OBVIOUS
<1> HIDE DEF q
<1>2. q \in Seq(S) /\ Len(q) = Least(n, Len(d) - p) /\ \A i \in 1..Len(q) : q[i] = d[p + i]
  BY <1>1, CutIs
<1>3. q = r
  BY <1>2, Equal
<1> QED BY <1>1, <1>3

\* A piece of no items.
LEMMA CutNone ==
    ASSUME NEW S, NEW d \in Seq(S), NEW p \in Nat, p <= Len(d)
    PROVE  Cut(d, p, 0) = <<>>
<1>1. Least(p + 0, Len(d)) = p /\ p + 1 > p
  BY DEF Least
<1> QED BY <1>1 DEF Cut

\* A piece that takes everything.
LEMMA CutAll ==
    ASSUME NEW S, NEW d \in Seq(S), NEW n \in Nat, n >= Len(d)
    PROVE  Cut(d, 0, n) = d
<1>1. Len(d) \in Nat /\ Least(n, Len(d) - 0) = Len(d)
  BY DEF Least
<1> QED BY <1>1, IsCut

\* A piece and the one behind it.
LEMMA CutJoin ==
    ASSUME NEW S, NEW d \in Seq(S), NEW p \in Nat, NEW a \in Nat, NEW b \in Nat,
           p + a <= Len(d)
    PROVE  Cut(d, p, a) \o Cut(d, p + a, b) = Cut(d, p, a + b)
<1> DEFINE x == Cut(d, p, a)
           y == Cut(d, p + a, b)
           r == x \o y
<1>1. Len(d) \in Nat /\ p <= Len(d) /\ p + a \in Nat /\ a + b \in Nat
  OBVIOUS
<1>2. x \in Seq(S) /\ Len(x) = Least(a, Len(d) - p) /\ \A i \in 1..Len(x) : x[i] = d[p + i]
  <2>1. x = Cut(d, p, a)
    OBVIOUS
  <2> HIDE DEF x
  <2> QED BY <1>1, <2>1, CutIs
<1>3. /\ y \in Seq(S) /\ Len(y) = Least(b, Len(d) - (p + a))
      /\ \A i \in 1..Len(y) : y[i] = d[(p + a) + i]
  <2>1. y = Cut(d, p + a, b)
    OBVIOUS
  <2> HIDE DEF y
  <2> QED BY <1>1, <2>1, CutIs
<1> HIDE DEF x, y
<1>4. /\ r \in Seq(S) /\ Len(r) = Len(x) + Len(y)
      /\ \A i \in 1..Len(x) : r[i] = x[i]
      /\ \A i \in 1..Len(y) : r[Len(x) + i] = y[i]
  <2>1. x \in Seq(S) /\ y \in Seq(S) /\ r = x \o y
    BY <1>2, <1>3
  <2> HIDE DEF r
  <2> QED BY <2>1, Joined
<1> HIDE DEF r
<1>5. Len(x) = a /\ Len(r) = Least(a + b, Len(d) - p)
  <2>1. Len(x) = a
    BY <1>1, <1>2 DEF Least
  <2>2. Len(r) = a + Least(b, Len(d) - (p + a))
    BY <1>3, <1>4, <2>1
  <2>3. a + Least(b, Len(d) - (p + a)) = Least(a + b, Len(d) - p)
    BY <1>1 DEF Least
  <2> QED BY <2>1, <2>2, <2>3
<1>6. ASSUME NEW i \in 1..Len(r) PROVE r[i] = d[p + i]
  <2>1. CASE i <= a
    BY <1>2, <1>4, <1>5, <2>1, SMTT(30)
  <2>2. CASE i > a
    <3>1. i - a \in 1..Len(y) /\ a + (i - a) = i /\ (p + a) + (i - a) = p + i
      BY <1>1, <1>3, <1>4, <1>5, <2>2, SMTT(30)
    <3> QED BY <1>3, <1>4, <1>5, <3>1, SMTT(30)
  <2> QED BY <2>1, <2>2
<1> DEFINE n == a + b
<1>7. n \in Nat /\ Len(r) = Least(n, Len(d) - p) /\ r \in Seq(S)
  BY <1>1, <1>4, <1>5
<1> HIDE DEF n
<1>8. r = Cut(d, p, n)
  BY <1>1, <1>6, <1>7, IsCut
<1> QED BY <1>8 DEF n, r, x, y

\* A piece of a piece.
LEMMA CutCut ==
    ASSUME NEW S, NEW d \in Seq(S), NEW p \in Nat, NEW a \in Nat, p + a <= Len(d),
           NEW q \in 0..a, NEW b \in Nat
    PROVE  Cut(Cut(d, p, a), q, b) = Cut(d, p + q, Least(b, a - q))
<1> DEFINE x == Cut(d, p, a)
           r == Cut(x, q, b)
           n == Least(b, a - q)
           o == p + q
<1>1. /\ Len(d) \in Nat /\ p <= Len(d) /\ n \in Nat /\ o \in Nat /\ o <= Len(d) /\ q \in Nat
      /\ Least(a, Len(d) - p) = a /\ Least(n, Len(d) - o) = n
  BY DEF Least
<1>2. x \in Seq(S) /\ Len(x) = a /\ \A i \in 1..a : x[i] = d[p + i]
  <2>1. x = Cut(d, p, a)
    OBVIOUS
  <2> HIDE DEF x
  <2>2. x \in Seq(S) /\ Len(x) = Least(a, Len(d) - p) /\ \A i \in 1..Len(x) : x[i] = d[p + i]
    BY <1>1, <2>1, CutIs, SMTT(30)
  <2> QED BY <1>1, <2>2
<1> HIDE DEF x
<1>3. r \in Seq(S) /\ Len(r) = n /\ \A i \in 1..n : r[i] = x[q + i]
  <2>1. r = Cut(x, q, b) /\ q <= Len(x) /\ q \in Nat /\ x \in Seq(S)
    BY <1>1, <1>2
  <2> HIDE DEF r
  <2>2. r \in Seq(S) /\ Len(r) = Least(b, Len(x) - q) /\ \A i \in 1..Len(r) : r[i] = x[q + i]
    BY <2>1, CutIs
  <2> QED BY <1>2, <2>2
<1>4. \A i \in 1..n : r[i] = d[o + i]
  <2> SUFFICES ASSUME NEW i \in 1..n PROVE r[i] = d[o + i]
    OBVIOUS
  <2>1. q + i \in 1..a /\ p + (q + i) = o + i
    BY <1>1 DEF Least
  <2> HIDE DEF r, o, n
  <2> QED BY <1>2, <1>3, <2>1
<1>5. r = Cut(d, o, n)
  <2> HIDE DEF r, o, n
  <2>1. /\ o \in Nat /\ n \in Nat /\ o <= Len(d) /\ r \in Seq(S)
        /\ Len(r) = Least(n, Len(d) - o) /\ \A i \in 1..Len(r) : r[i] = d[o + i]
    BY <1>1, <1>3, <1>4
  <2> QED BY <2>1, IsCut
<1> QED BY <1>5 DEF x

\* File r is file f with d written over it at p: it is as long as it has to be, and
\* differs where the bytes went.
Overlaid(r, f, p, d) ==
    /\ Len(r) = IF p + Len(d) > Len(f) THEN p + Len(d) ELSE Len(f)
    /\ \A i \in 1..Len(r) : r[i] = IF i \in p + 1..p + Len(d) THEN d[i - p] ELSE f[i]

\* Overlay writes one sequence over another.
LEMMA OverlayIs ==
    ASSUME NEW S, NEW f \in Seq(S), NEW p \in Nat, p <= Len(f), NEW d \in Seq(S),
           NEW r, r = Overlay(f, p, d)
    PROVE  r \in Seq(S) /\ Overlaid(r, f, p, d)
<1> DEFINE a == Cut(f, 0, p)
           n == Len(f)
           o == p + Len(d)
           z == Cut(f, o, n)
           b == a \o d
<1>1. n \in Nat /\ n = Len(f) /\ Len(d) \in Nat /\ o \in Nat /\ o = p + Len(d)
  OBVIOUS
<1>2. a \in Seq(S) /\ Len(a) = p /\ \A i \in 1..p : a[i] = f[i]
  <2>1. a = Cut(f, 0, p) /\ 0 \in Nat /\ 0 <= Len(f) /\ Least(p, Len(f) - 0) = p
    BY <1>1 DEF Least
  <2> HIDE DEF a
  <2>2. a \in Seq(S) /\ Len(a) = Least(p, Len(f) - 0) /\ \A i \in 1..Len(a) : a[i] = f[0 + i]
    BY <2>1, CutIs
  <2> QED BY <2>1, <2>2
<1>3. /\ z \in Seq(S) /\ Len(z) = IF o > n THEN 0 ELSE n - o
      /\ \A i \in 1..Len(z) : z[i] = f[o + i]
  <2>1. CASE o > n
    <3>1. Least(o + n, Len(f)) = n /\ o + 1 > n
      BY <1>1, <2>1 DEF Least
    <3>2. z = SubSeq(f, o + 1, n)
      BY <3>1 DEF Cut
    <3> HIDE DEF z, o, n
    <3>3. SubSeq(f, o + 1, n) = <<>>
      BY <1>1, <3>1, SubSeqEmpty
    <3>4. z = <<>> /\ <<>> \in Seq(S) /\ Len(<<>>) = 0
      BY <3>2, <3>3
    <3>5. z \in Seq(S) /\ Len(z) = 0 /\ \A i \in 1..Len(z) : z[i] = f[o + i]
      BY <3>4
    <3> QED BY <2>1, <3>5
  <2>2. CASE o <= n
    <3>1. z = Cut(f, o, n) /\ o <= Len(f) /\ Least(n, Len(f) - o) = n - o /\ ~(o > n)
      BY <1>1, <2>2 DEF Least
    <3> HIDE DEF z, o, n
    <3>2. z \in Seq(S) /\ Len(z) = Least(n, Len(f) - o) /\ \A i \in 1..Len(z) : z[i] = f[o + i]
      BY <1>1, <3>1, CutIs, SMTT(30)
    <3> QED BY <3>1, <3>2
  <2> QED BY <1>1, <2>1, <2>2
<1>4. r = b \o z
  BY <1>1 DEF Overlay
<1> HIDE DEF a, z
<1>5. /\ b \in Seq(S) /\ Len(b) = o /\ \A i \in 1..p : b[i] = f[i]
      /\ \A i \in 1..Len(d) : b[p + i] = d[i]
  <2>1. a \in Seq(S) /\ b = a \o d
    BY <1>2
  <2> HIDE DEF b
  <2>2. /\ b \in Seq(S) /\ Len(b) = Len(a) + Len(d)
        /\ \A i \in 1..Len(a) : b[i] = a[i]
        /\ \A i \in 1..Len(d) : b[Len(a) + i] = d[i]
    BY <2>1, Joined
  <2> QED BY <1>1, <1>2, <2>2
<1> HIDE DEF b, n, o
<1>6. /\ r \in Seq(S) /\ Len(r) = o + Len(z)
      /\ \A i \in 1..o : r[i] = b[i]
      /\ \A i \in 1..Len(z) : r[o + i] = z[i]
  <2>1. b \in Seq(S) /\ z \in Seq(S)
    BY <1>3, <1>5
  <2>2. /\ r \in Seq(S) /\ Len(r) = Len(b) + Len(z)
        /\ \A i \in 1..Len(b) : r[i] = b[i]
        /\ \A i \in 1..Len(z) : r[Len(b) + i] = z[i]
    BY <1>4, <2>1, Joined
  <2> QED BY <1>5, <2>2
<1>7. Len(r) = IF p + Len(d) > Len(f) THEN p + Len(d) ELSE Len(f)
  <2>1. CASE o > n
    BY <1>1, <1>3, <1>6, <2>1
  <2>2. CASE ~(o > n)
    <3>1. Len(z) = n - o
      BY <1>3, <2>2
    <3> QED BY <1>1, <1>6, <2>2, <3>1
  <2> QED BY <2>1, <2>2
<1>8. ASSUME NEW i \in 1..Len(r)
      PROVE  r[i] = IF i \in p + 1..p + Len(d) THEN d[i - p] ELSE f[i]
  <2>1. CASE i <= p
    <3>1. i \in 1..o /\ i \in 1..p /\ ~(i \in p + 1..p + Len(d))
      BY <1>1, <1>7, <2>1
    <3> QED BY <1>5, <1>6, <3>1
  <2>2. CASE i \in p + 1..p + Len(d)
    <3>1. i \in 1..o /\ i - p \in 1..Len(d) /\ p + (i - p) = i
      BY <1>1, <2>2
    <3>2. b[p + (i - p)] = d[i - p]
      BY <1>5, <3>1
    <3> QED BY <1>6, <2>2, <3>1, <3>2
  <2>3. CASE i > p + Len(d)
    <3>1. i - o \in 1..Len(z) /\ o + (i - o) = i /\ ~(i \in p + 1..p + Len(d))
      <4>1. ~(i <= o) /\ i \in Int /\ i <= o + Len(z)
        BY <1>1, <1>6, <2>3
      <4>2. Len(z) \in Int
        BY <1>3
      <4> QED BY <1>1, <2>3, <4>1, <4>2
    <3>2. r[o + (i - o)] = z[i - o] /\ z[i - o] = f[o + (i - o)]
      BY <1>3, <1>6, <3>1
    <3> QED BY <3>1, <3>2
  <2> QED BY <1>1, <1>7, <2>1, <2>2, <2>3
<1> QED BY <1>6, <1>7, <1>8 DEF Overlaid

\* Nothing is written over a file.
LEMMA OverlayNone ==
    ASSUME NEW S, NEW f \in Seq(S), NEW p \in Nat, p <= Len(f)
    PROVE  Overlay(f, p, <<>>) = f
<1> DEFINE r == Overlay(f, p, <<>>)
<1>1. <<>> \in Seq(S) /\ Len(<<>>) = 0 /\ p + 0 = p /\ Len(f) \in Nat
  OBVIOUS
<1>2. /\ r \in Seq(S)
      /\ Len(r) = IF p + 0 > Len(f) THEN p + 0 ELSE Len(f)
      /\ \A i \in 1..Len(r) : r[i] = IF i \in p + 1..p + 0 THEN <<>>[i - p] ELSE f[i]
  <2> DEFINE e == <<>>
  <2>1. e \in Seq(S) /\ Len(e) = 0 /\ r = Overlay(f, p, e)
    BY <1>1
  <2>2. e = <<>>
    OBVIOUS
  <2> HIDE DEF r, e
  <2>3. r \in Seq(S) /\ Overlaid(r, f, p, e)
    BY <2>1, OverlayIs
  <2> QED BY <2>1, <2>2, <2>3 DEF Overlaid
<1> HIDE DEF r
<1>3. Len(r) = Len(f) /\ \A i \in 1..Len(r) : r[i] = f[i]
  <2>1. \A i \in 1..Len(r) : i \notin p + 1..p + 0
    BY <1>1
  <2> QED BY <1>1, <1>2, <2>1
<1>4. r = f
  BY <1>2, <1>3, Equal
<1> QED BY <1>4 DEF r

\* Bytes written behind bytes just written.
LEMMA OverlayTwice ==
    ASSUME NEW S, NEW f \in Seq(S), NEW p \in Nat, p <= Len(f),
           NEW d \in Seq(S), NEW e \in Seq(S)
    PROVE  Overlay(Overlay(f, p, d), p + Len(d), e) = Overlay(f, p, d \o e)
<1> DEFINE g == Overlay(f, p, d)
           o == p + Len(d)
           r == Overlay(g, o, e)
           j == d \o e
           q == Overlay(f, p, j)
<1>1. /\ Len(f) \in Nat /\ Len(d) \in Nat /\ Len(e) \in Nat /\ o \in Nat /\ o = p + Len(d)
      /\ q = Overlay(f, p, j)
  OBVIOUS
<1>2. /\ g \in Seq(S)
      /\ Len(g) = IF p + Len(d) > Len(f) THEN p + Len(d) ELSE Len(f)
      /\ \A i \in 1..Len(g) : g[i] = IF i \in p + 1..p + Len(d) THEN d[i - p] ELSE f[i]
  <2>1. g = Overlay(f, p, d)
    OBVIOUS
  <2> HIDE DEF g
  <2>2. g \in Seq(S) /\ Overlaid(g, f, p, d)
    BY <2>1, OverlayIs
  <2> QED BY <2>2 DEF Overlaid
<1>3. /\ j \in Seq(S) /\ Len(j) = Len(d) + Len(e)
      /\ \A i \in 1..Len(d) : j[i] = d[i]
      /\ \A i \in 1..Len(e) : j[Len(d) + i] = e[i]
  <2>1. j = d \o e
    OBVIOUS
  <2> HIDE DEF j
  <2> QED BY <2>1, Joined
<1>4. r = Overlay(g, o, e)
  OBVIOUS
<1> HIDE DEF g, o, j, q, r
<1>5. o <= Len(g)
  BY <1>1, <1>2
<1>6. /\ r \in Seq(S)
      /\ Len(r) = IF o + Len(e) > Len(g) THEN o + Len(e) ELSE Len(g)
      /\ \A i \in 1..Len(r) : r[i] = IF i \in o + 1..o + Len(e) THEN e[i - o] ELSE g[i]
  <2>1. r \in Seq(S) /\ Overlaid(r, g, o, e)
    BY <1>1, <1>2, <1>4, <1>5, OverlayIs
  <2> QED BY <2>1 DEF Overlaid
<1>7. /\ q \in Seq(S)
      /\ Len(q) = IF p + Len(j) > Len(f) THEN p + Len(j) ELSE Len(f)
      /\ \A i \in 1..Len(q) : q[i] = IF i \in p + 1..p + Len(j) THEN j[i - p] ELSE f[i]
  <2>1. q \in Seq(S) /\ Overlaid(q, f, p, j)
    BY <1>1, <1>3, OverlayIs
  <2> QED BY <2>1 DEF Overlaid
<1>8. p + Len(j) = o + Len(e) /\ Len(j) \in Nat
  BY <1>1, <1>3
<1>9. Len(r) = Len(q) /\ Len(q) >= o + Len(e) /\ Len(q) >= Len(f) /\ Len(q) >= Len(g)
  <2>1. CASE o > Len(f)
    <3>1. Len(g) = o
      BY <1>1, <1>2, <2>1
    <3>2. Len(r) = o + Len(e)
      BY <1>1, <1>6, <3>1
    <3>3. Len(q) = o + Len(e)
      BY <1>1, <1>7, <1>8, <2>1
    <3> QED BY <1>1, <2>1, <3>1, <3>2, <3>3
  <2>2. CASE ~(o > Len(f))
    <3>1. Len(g) = Len(f)
      BY <1>1, <1>2, <2>2
    <3>2. Len(r) = IF o + Len(e) > Len(f) THEN o + Len(e) ELSE Len(f)
      BY <1>6, <3>1
    <3>3. Len(q) = IF o + Len(e) > Len(f) THEN o + Len(e) ELSE Len(f)
      BY <1>7, <1>8
    <3> QED BY <1>1, <2>2, <3>1, <3>2, <3>3
  <2> QED BY <2>1, <2>2
<1>10. ASSUME NEW i \in 1..Len(r) PROVE r[i] = q[i]
  <2>1. i \in Int /\ i >= 1 /\ i <= Len(q) /\ i \in 1..Len(q)
    BY <1>9
  <2>2. CASE i \in o + 1..o + Len(e)
    <3>1. /\ i - o \in 1..Len(e) /\ Len(d) + (i - o) = i - p /\ i \in p + 1..p + Len(j)
      BY <1>1, <1>8, <2>1, <2>2
    <3>2. r[i] = e[i - o]
      BY <1>6, <2>2
    <3>3. q[i] = j[i - p]
      BY <1>7, <2>1, <3>1
    <3>4. j[Len(d) + (i - o)] = e[i - o]
      BY <1>3, <3>1
    <3> QED BY <3>1, <3>2, <3>3, <3>4
  <2>3. CASE i \in p + 1..o
    <3>1. /\ i \notin o + 1..o + Len(e) /\ i \in p + 1..p + Len(j) /\ i - p \in 1..Len(d)
          /\ i \in 1..Len(g) /\ i \in p + 1..p + Len(d)
      BY <1>1, <1>5, <1>2, <1>8, <2>1, <2>3
    <3>2. r[i] = g[i]
      BY <1>6, <3>1
    <3>3. g[i] = d[i - p]
      BY <1>2, <3>1
    <3>4. q[i] = j[i - p] /\ j[i - p] = d[i - p]
      BY <1>3, <1>7, <2>1, <3>1
    <3> QED BY <3>2, <3>3, <3>4
  <2>4. CASE i <= p \/ i > o + Len(e)
    <3>1. i \notin o + 1..o + Len(e) /\ i \notin p + 1..p + Len(j) /\ i \notin p + 1..p + Len(d)
      BY <1>1, <1>8, <2>1, <2>4
    <3>2. i \in 1..Len(g)
      <4>1. CASE i <= p
        BY <1>1, <1>5, <2>1, <4>1
      <4>2. CASE i > o + Len(e)
        <5>1. ~(o + Len(e) > Len(g))
          BY <1>1, <1>2, <1>6, <2>1, <4>2
        <5> QED BY <1>6, <5>1
      <4> QED BY <2>4, <4>1, <4>2
    <3>3. r[i] = g[i]
      BY <1>6, <3>1
    <3>4. g[i] = f[i]
      BY <1>2, <3>1, <3>2
    <3>5. q[i] = f[i]
      BY <1>7, <2>1, <3>1
    <3> QED BY <3>3, <3>4, <3>5
  <2> QED BY <1>1, <2>1, <2>2, <2>3, <2>4
<1>11. r = q
  BY <1>6, <1>7, <1>9, <1>10, Equal
<1> QED BY <1>11 DEF r, q, g, o, j

\* What the abstract file does with written bytes.
LEMMA OverlayIsPut ==
    ASSUME NEW S, NEW f \in Seq(S), NEW p \in Nat, p <= Len(f), NEW d \in Seq(S)
    PROVE  File!Put(f, p, d) = Overlay(f, p, d)
<1> DEFINE r == Overlay(f, p, d)
           n == IF p + Len(d) > Len(f) THEN p + Len(d) ELSE Len(f)
<1>1. r \in Seq(S) /\ Len(r) = n
      /\ \A i \in 1..Len(r) : r[i] = IF i \in p + 1..p + Len(d) THEN d[i - p] ELSE f[i]
  <2>1. r = Overlay(f, p, d)
    OBVIOUS
  <2> HIDE DEF r
  <2>2. r \in Seq(S) /\ Overlaid(r, f, p, d)
    BY <2>1, OverlayIs
  <2> QED BY <2>2 DEF Overlaid
<1> HIDE DEF r
<1>2. r = [i \in 1..Len(r) |-> r[i]]
  BY <1>1
<1>3. [i \in 1..Len(r) |-> r[i]]
        = [i \in 1..n |-> IF i \in p + 1..p + Len(d) THEN d[i - p] ELSE f[i]]
  BY <1>1
<1>4. File!Put(f, p, d) = [i \in 1..n |-> IF i \in p + 1..p + Len(d) THEN d[i - p] ELSE f[i]]
  BY DEF File!Put
<1> QED BY <1>2, <1>3, <1>4 DEF r

-----------------------------------------------------------------------------
(* Worlds *)

\* Only stream s differs, and is x now.
With(v, w, s, x) ==
    /\ v \in Worlds /\ v.disk = w.disk /\ v.raw = w.raw /\ v.st[s] = x
    /\ \A t \in Ids \ {s} : v.st[t] = w.st[t]

\* A world in which one stream was replaced.
LEMMA WithStream ==
    ASSUME NEW w \in Worlds, NEW s \in Ids, NEW x \in Stream,
           NEW v, v = [w EXCEPT !.st[s] = x]
    PROVE  With(v, w, s, x)
BY DEF With, Worlds

\* A stream is its four fields.
LEMMA StreamOf ==
    ASSUME NEW b \in Seq(Byte), NEW h \in Nat, NEW r \in Nat, NEW p \in Nat
    PROVE  [buf |-> b, head |-> h, read |-> r, pos |-> p] \in Stream
BY DEF Stream

\* The fields of a stream that starts at p.
LEMMA FreshAt ==
    ASSUME NEW p \in Nat, NEW x, x = [Fresh EXCEPT !.pos = p]
    PROVE  x \in Stream /\ x.buf = <<>> /\ x.head = 0 /\ x.read = 0 /\ x.pos = p
<1> DEFINE e == <<>>
<1>1. x = [buf |-> e, head |-> 0, read |-> 0, pos |-> p]
  BY DEF Fresh
<1>2. e \in Seq(Byte) /\ 0 \in Nat
  OBVIOUS
<1>3. x \in Stream
  <2> HIDE DEF e
  <2>1. [buf |-> e, head |-> 0, read |-> 0, pos |-> p] \in Stream
    BY <1>2, StreamOf
  <2> QED BY <1>1, <2>1
<1> QED BY <1>1, <1>3

\* A stream that reads nothing.
LEMMA FreshReads ==
    ASSUME NEW S, NEW f \in Seq(S), NEW p \in Nat, p <= Len(f), NEW c \in Nat,
           NEW x, x = [Fresh EXCEPT !.pos = p]
    PROVE  Reads(x, f, c)
<1>1. x \in Stream /\ x.buf = <<>> /\ x.head = 0 /\ x.read = 0 /\ x.pos = p
  BY FreshAt
<1>2. Cut(f, p, 0) = <<>>
  BY CutNone
<1> QED BY <1>1, <1>2 DEF Reads

\* What a stream that reads has in its buffer.
LEMMA ReadsFacts ==
    ASSUME NEW S, NEW f \in Seq(S), NEW c \in Nat, NEW x, Reads(x, f, c)
    PROVE  /\ x \in Stream /\ x.head \in Nat /\ x.read \in Nat /\ x.pos \in Nat
           /\ x.buf \in Seq(Byte) /\ Len(x.buf) = x.read
           /\ \A i \in 1..x.read : x.buf[i] = f[x.pos + i]
           /\ x.pos + x.read <= Len(f) /\ x.head <= x.read /\ x.read <= c
           /\ (x.read = 0 => x.buf = <<>>)
<1>1. /\ x \in Stream /\ x.head \in Nat /\ x.read \in Nat /\ x.pos \in Nat /\ x.buf \in Seq(Byte)
      /\ x.pos + x.read <= Len(f) /\ x.head <= x.read /\ x.read <= c /\ x.buf = Cut(f, x.pos, x.read)
  BY DEF Reads, Stream
<1> DEFINE b == x.buf
           p == x.pos
           n == x.read
<1>2. p \in Nat /\ n \in Nat /\ p <= Len(f) /\ b = Cut(f, p, n) /\ Least(n, Len(f) - p) = n
  BY <1>1 DEF Least
<1> HIDE DEF b, p, n
<1>3. Len(b) = Least(n, Len(f) - p) /\ \A i \in 1..Len(b) : b[i] = f[p + i]
  BY <1>2, CutIs
<1>4. Len(b) = n /\ \A i \in 1..n : b[i] = f[p + i]
  BY <1>2, <1>3
<1> QED BY <1>1, <1>4 DEF b, p, n

\* The parts of a base stream's world, with their types.
LEMMA BaseFacts ==
    ASSUME NEW w, NEW g, Base(w, g)
    PROVE  /\ w \in Worlds /\ w.disk \in Seq(Byte) /\ w.raw \in Nat /\ w.raw <= Len(w.disk)
           /\ Len(w.disk) \in Nat /\ g \in Nat /\ w.st \in [Ids -> Stream]
           /\ w.st[0] \in Stream /\ w.st[0].head \in Nat /\ w.st[0].read \in Nat
           /\ w.st[0].pos \in Nat /\ w.st[0].buf \in Seq(Byte)
           /\ w.raw = w.st[0].pos + w.st[0].read + g /\ (g > 0 => w.st[0].read = 0)
<1>1. /\ w \in Worlds /\ g \in Nat /\ w.raw <= Len(w.disk)
      /\ w.raw = w.st[0].pos + w.st[0].read + g /\ (g > 0 => w.st[0].read = 0)
  BY DEF Base
<1>2. w.disk \in Seq(Byte) /\ w.raw \in Nat /\ w.st \in [Ids -> Stream]
  BY <1>1 DEF Worlds
<1>3. w.st[0] \in Stream
  BY <1>2, Ids0
<1> DEFINE x == w.st[0]
<1>4. x.head \in Nat /\ x.read \in Nat /\ x.pos \in Nat /\ x.buf \in Seq(Byte)
  <2> x \in Stream
    BY <1>3
  <2> HIDE DEF x
  <2> QED BY DEF Stream
<1>5. Len(w.disk) \in Nat
  BY <1>2
<1> QED BY <1>1, <1>2, <1>3, <1>4, <1>5

\* Bytes and cursor of a file that is read, or written to, and their bounds.
LEMMA ReadView ==
    ASSUME NEW w, NEW g, Base(w, g), Reads(w.st[0], w.disk, Capacity[0])
    PROVE  /\ Bytes(w) = w.disk
           /\ Cur(w) = w.st[0].pos + w.st[0].head + g /\ Cur(w) <= Len(w.disk) /\ Cur(w) \in Nat
<1> DEFINE x == w.st[0]
           f == w.disk
           c == Capacity[0]
<1>1. f \in Seq(Byte) /\ c \in Nat /\ Reads(x, f, c)
  BY BaseFacts, Ids0
<1>2. /\ x.head \in Nat /\ x.read \in Nat /\ x.pos \in Nat /\ x.head <= x.read
      /\ x.pos + x.read <= Len(f) /\ (x.read = 0 => x.buf = <<>>)
  <2> HIDE DEF x, f, c
  <2> QED BY <1>1, ReadsFacts
<1>3. /\ w.raw \in Nat /\ w.raw <= Len(f) /\ w.raw = x.pos + x.read + g /\ g \in Nat
      /\ (g > 0 => x.read = 0)
  BY BaseFacts DEF Base
<1>4. Bytes(w) = w.disk
  <2>1. CASE x.read = 0
    <3>1. Overlay(f, w.raw, <<>>) = f
      BY <1>1, <1>3, OverlayNone
    <3> QED BY <1>2, <2>1, <3>1 DEF Bytes
  <2>2. CASE x.read # 0
    BY <2>2 DEF Bytes
  <2> QED BY <2>1, <2>2
<1>5. Cur(w) = IF x.read > 0 THEN w.raw - x.read + x.head ELSE w.raw + x.head
  BY DEF Cur
<1>6. Cur(w) = x.pos + x.head + g /\ Cur(w) <= Len(w.disk) /\ Cur(w) \in Nat
  <2>1. Len(w.disk) \in Nat /\ f = w.disk
    BY <1>1
  <2> DEFINE c0 == Cur(w)
             r0 == w.raw
             xr == x.read
             xh == x.head
             xp == x.pos
             l0 == Len(w.disk)
  <2>2. /\ xh \in Nat /\ xr \in Nat /\ xp \in Nat /\ g \in Nat /\ r0 \in Nat /\ l0 \in Nat
        /\ xh <= xr /\ xp + xr <= l0 /\ r0 <= l0 /\ r0 = xp + xr + g /\ (g > 0 => xr = 0)
        /\ c0 = IF xr > 0 THEN r0 - xr + xh ELSE r0 + xh
    BY <1>2, <1>3, <1>5, <2>1
  <2> HIDE DEF c0, r0, xr, xh, xp, l0
  <2>3. c0 = xp + xh + g
    <3>1. CASE xr > 0
      BY <2>2, <3>1
    <3>2. CASE xr = 0
      BY <2>2, <3>2
    <3> QED BY <2>2, <3>1, <3>2
  <2>4. c0 <= l0 /\ c0 \in Nat
    BY <2>2, <2>3
  <2> QED BY <2>3, <2>4 DEF c0, r0, xr, xh, xp, l0
<1> QED BY <1>4, <1>6

\* Bytes and cursor of a file with bytes that are not on disk yet.
LEMMA WriteView ==
    ASSUME NEW w, NEW g, Base(w, g), Writes(w.st[0], Capacity[0])
    PROVE  /\ Bytes(w) = Overlay(w.disk, w.raw, w.st[0].buf)
           /\ Overlaid(Bytes(w), w.disk, w.raw, w.st[0].buf)
           /\ Cur(w) = w.raw + w.st[0].head /\ Cur(w) = w.st[0].pos + w.st[0].head + g
           /\ Bytes(w) \in Seq(Byte) /\ Cur(w) \in Nat /\ Cur(w) <= Len(Bytes(w))
           /\ Len(w.disk) <= Len(Bytes(w))
<1> DEFINE x == w.st[0]
           b == x.buf
           f == w.disk
           p == w.raw
           r == Bytes(w)
<1>1. /\ f \in Seq(Byte) /\ p \in Nat /\ p <= Len(f) /\ Len(f) \in Nat
      /\ b \in Seq(Byte) /\ x.pos \in Nat /\ x.head \in Nat /\ g \in Nat
      /\ p = x.pos + x.read + g /\ x.read = 0 /\ x.head = Len(b)
  BY BaseFacts DEF Writes
<1>2. r = Overlay(f, p, b) /\ Cur(w) = p + x.head
  BY <1>1 DEF Bytes, Cur
<1>3. r \in Seq(Byte) /\ Overlaid(r, f, p, b)
  <2> HIDE DEF b, f, p, r, x
  <2> QED BY <1>1, <1>2, OverlayIs
<1>4. Len(r) >= Len(f) /\ Len(r) >= p + Len(b)
  <2> Len(r) = IF p + Len(b) > Len(f) THEN p + Len(b) ELSE Len(f)
    BY <1>3 DEF Overlaid
  <2> HIDE DEF b, f, p, r, x
  <2> QED BY <1>1
<1>5. Cur(w) \in Nat /\ Cur(w) <= Len(r) /\ Cur(w) = x.pos + x.head + g
  <2> HIDE DEF b, f, p, r, x
  <2> QED BY <1>1, <1>2, <1>4, SMTT(30)
<1> QED BY <1>2, <1>3, <1>4, <1>5

\* In either case.
LEMMA ViewFacts ==
    ASSUME NEW w, NEW g, Base(w, g)
    PROVE  /\ Bytes(w) \in Seq(Byte) /\ Cur(w) \in Nat /\ Cur(w) <= Len(Bytes(w))
           /\ Len(Bytes(w)) \in Nat /\ Len(w.disk) <= Len(Bytes(w))
           /\ Cur(w) = Tell(w, 0) + g
<1>1. CASE Reads(w.st[0], w.disk, Capacity[0])
  BY <1>1, BaseFacts, ReadView DEF Tell
<1>2. CASE Writes(w.st[0], Capacity[0])
  <2>1. Bytes(w) \in Seq(Byte) /\ Len(Bytes(w)) \in Nat
    BY <1>2, WriteView
  <2> QED BY <1>2, <2>1, BaseFacts, WriteView DEF Tell
<1> QED BY <1>1, <1>2 DEF Base

\* What the calls of the handle change.
LEMMA SeekFacts ==
    ASSUME NEW w \in Worlds, NEW p \in Nat, NEW v, v = FileSeek(w, p)
    PROVE  v \in Worlds /\ v.disk = w.disk /\ v.raw = p /\ v.st = w.st
BY DEF FileSeek, Worlds

\* A write of the handle puts the bytes over the file and moves the offset behind them.
LEMMA WriteFacts ==
    ASSUME NEW w \in Worlds, w.raw <= Len(w.disk), NEW d \in Seq(Byte), NEW v, v = FileWrite(w, d)
    PROVE  /\ v \in Worlds /\ v.st = w.st
           /\ v.disk = Overlay(w.disk, w.raw, d) /\ v.disk \in Seq(Byte)
           /\ v.raw = w.raw + Len(d) /\ v.raw \in Nat /\ v.raw <= Len(v.disk)
<1>1. w.disk \in Seq(Byte) /\ w.raw \in Nat /\ Len(d) \in Nat /\ Len(w.disk) \in Nat
  BY DEF Worlds
<1> DEFINE r == Overlay(w.disk, w.raw, d)
           f == w.disk
           p == w.raw
<1>2. v = [w EXCEPT !.disk = r, !.raw = p + Len(d)]
  BY DEF FileWrite
<1>3. r = Overlay(f, p, d) /\ f \in Seq(Byte) /\ p \in Nat /\ p <= Len(f)
  BY <1>1
<1>4. r \in Seq(Byte) /\ Overlaid(r, f, p, d)
  <2> HIDE DEF r, f, p
  <2> QED BY <1>3, OverlayIs
<1>5. p + Len(d) <= Len(r) /\ p + Len(d) \in Nat
  <2> Len(r) = IF p + Len(d) > Len(f) THEN p + Len(d) ELSE Len(f)
    BY <1>4 DEF Overlaid
  <2> HIDE DEF r, f, p
  <2> QED BY <1>1, <1>3
<1>6. v \in Worlds /\ v.st = w.st /\ v.disk = r /\ v.raw = p + Len(d)
  <2> HIDE DEF r, p
  <2> QED BY <1>2, <1>4, <1>5 DEF Worlds
<1> QED BY <1>4, <1>5, <1>6

\* The members' streams are as they were.
Others(v, w) == \A t \in Members : v.st[t] = w.st[t]

\* The base stream's buffer is empty, and the handle stands at its position.
Rests(y, v, p, g) ==
    /\ Base(y, g) /\ Reads(y.st[0], y.disk, Capacity[0])
    /\ y.st[0].read = 0 /\ y.st[0].head = 0 /\ y.st[0].pos = p /\ y.st[0].buf = <<>>
    /\ y.disk = v.disk /\ y.raw = v.raw /\ Others(y, v)
    /\ Bytes(y) = v.disk /\ Cur(y) = p + g /\ Tell(y, 0) = p

\* An empty buffer at the handle's place is a base stream at rest.
LEMMA RestsAt ==
    ASSUME NEW v \in Worlds, NEW p \in Nat, NEW g \in Nat, v.raw = p + g, v.raw <= Len(v.disk),
           NEW x, x = [Fresh EXCEPT !.pos = p], NEW y, y = [v EXCEPT !.st[0] = x]
    PROVE  Rests(y, v, p, g)
<1>1. x \in Stream /\ x.buf = <<>> /\ x.head = 0 /\ x.read = 0 /\ x.pos = p
  BY FreshAt
<1>2. With(y, v, 0, x)
  BY <1>1, Ids0, WithStream
<1>3. /\ y \in Worlds /\ y.disk = v.disk /\ y.raw = v.raw /\ y.st[0] = x
      /\ Others(y, v)
  BY <1>2, Ids0 DEF With, Others
<1>4. v.disk \in Seq(Byte) /\ v.raw \in Nat /\ Len(v.disk) \in Nat /\ p <= Len(v.disk)
      /\ Capacity[0] \in Nat
  <2>1. v.disk \in Seq(Byte) /\ v.raw \in Nat
    BY DEF Worlds
  <2> QED BY <2>1, Ids0
<1>5. Reads(x, v.disk, Capacity[0])
  BY <1>4, FreshReads
<1>6. v.raw = p + 0 + g /\ p + 0 = p
  BY <1>4
<1>7. Base(y, g) /\ Reads(y.st[0], y.disk, Capacity[0])
  BY <1>1, <1>3, <1>5, <1>6 DEF Base
<1>8. Bytes(y) = y.disk /\ Cur(y) = y.st[0].pos + y.st[0].head + g
  BY <1>7, ReadView
<1>9. Tell(y, 0) = p
  BY <1>1, <1>3, <1>6 DEF Tell
<1> QED BY <1>1, <1>3, <1>6, <1>7, <1>8, <1>9 DEF Rests

\* A flush leaves the bytes and the cursor alone: nothing is buffered any more.
Flushes(y, w, g) ==
    /\ Base(y, g) /\ Reads(y.st[0], y.disk, Capacity[0])
    /\ y.st[0].read = 0 /\ y.st[0].head = 0 /\ y.st[0].pos = Tell(w, 0) /\ y.st[0].buf = <<>>
    /\ y.disk = Bytes(w) /\ Bytes(y) = Bytes(w) /\ Cur(y) = Cur(w) /\ y.raw = Cur(w)
    /\ Tell(y, 0) = Tell(w, 0)
    /\ Others(y, w) /\ y.st[0] = [Fresh EXCEPT !.pos = Tell(w, 0)]

\* Stream::Flush of the base stream, whether it read ahead or was written to.
LEMMA BaseFlushFacts ==
    ASSUME NEW w, NEW g, Base(w, g), NEW y, y = BaseFlush(w)
    PROVE  Flushes(y, w, g)
<1> DEFINE x == w.st[0]
           p == Tell(w, 0)
           o == FileSeek(w, p)
           v == IF ReadAhead(x) THEN o ELSE IF Unwritten(x) THEN FileWrite(w, x.buf) ELSE w
           z == [Fresh EXCEPT !.pos = p]
<1>1. y = [v EXCEPT !.st[0] = z]
  BY DEF BaseFlush, Flushed
<1>2. /\ w \in Worlds /\ x.head \in Nat /\ x.read \in Nat /\ x.pos \in Nat /\ g \in Nat
      /\ w.raw \in Nat /\ w.raw <= Len(w.disk) /\ w.raw = x.pos + x.read + g
      /\ (g > 0 => x.read = 0) /\ p = x.pos + x.head /\ p \in Nat /\ x.buf \in Seq(Byte)
      /\ w.disk \in Seq(Byte) /\ Len(w.disk) \in Nat
  <2>1. p = x.pos + x.head
    BY DEF Tell
  <2> QED BY <2>1, BaseFacts
<1>3. /\ v \in Worlds /\ v.st = w.st /\ v.disk = Bytes(w) /\ v.raw = p + g
      /\ v.raw <= Len(v.disk) /\ Cur(w) = p + g
  <2>1. CASE Reads(x, w.disk, Capacity[0])
    <3>1. /\ Bytes(w) = w.disk /\ Cur(w) = x.pos + x.head + g /\ Cur(w) <= Len(w.disk)
      BY <2>1, ReadView
    <3>2. x.head <= x.read /\ ~Unwritten(x)
      <4>1. x.head <= x.read
        BY <2>1 DEF Reads
      <4> HIDE DEF x
      <4> QED BY <1>2, <4>1 DEF Unwritten
    <3>3. CASE ReadAhead(x)
      <4>1. v = o
        BY <3>3
      <4>2. o \in Worlds /\ o.disk = w.disk /\ o.raw = p /\ o.st = w.st
        <5>1. w \in Worlds /\ p \in Nat /\ o = FileSeek(w, p)
          BY <1>2
        <5> HIDE DEF v, o, p
        <5> QED BY <5>1, SeekFacts
      <4>3. g = 0
        <5> HIDE DEF x
        <5> QED BY <1>2, <3>3 DEF ReadAhead
      <4>4. p + g = p /\ Cur(w) = p + g /\ p <= Len(w.disk)
        BY <1>2, <3>1, <4>3
      <4> HIDE DEF v, o, p, x
      <4> QED BY <3>1, <4>1, <4>2, <4>4
    <3>4. CASE ~ReadAhead(x)
      <4>1. v = w
        BY <3>2, <3>4
      <4>2. x.head = x.read
        <5> HIDE DEF x
        <5> QED BY <1>2, <3>2, <3>4 DEF ReadAhead
      <4>3. w.raw = p + g /\ Cur(w) = p + g
        BY <1>2, <3>1, <4>2
      <4> HIDE DEF v, o, p, x
      <4> QED BY <1>2, <3>1, <4>1, <4>3
    <3> QED BY <3>3, <3>4
  <2>2. CASE Writes(x, Capacity[0])
    <3>1. x.read = 0 /\ x.head = Len(x.buf) /\ x.head > 0
      BY <2>2 DEF Writes
    <3>2. ~ReadAhead(x) /\ Unwritten(x)
      BY <3>1 DEF ReadAhead, Unwritten
    <3>3. v = FileWrite(w, x.buf)
      BY <3>2
    <3>4. Bytes(w) = Overlay(w.disk, w.raw, x.buf) /\ Cur(w) = w.raw + x.head
      BY <2>2, WriteView
    <3> HIDE DEF v
    <3>5. /\ v \in Worlds /\ v.st = w.st /\ v.disk = Overlay(w.disk, w.raw, x.buf)
          /\ v.raw = w.raw + Len(x.buf) /\ v.raw <= Len(v.disk)
      <4> DEFINE d == x.buf
      <4>1. d \in Seq(Byte) /\ v = FileWrite(w, d)
        BY <1>2, <3>3
      <4> HIDE DEF d
      <4>2. /\ v \in Worlds /\ v.st = w.st /\ v.disk = Overlay(w.disk, w.raw, d)
            /\ v.raw = w.raw + Len(d) /\ v.raw <= Len(v.disk)
        BY <1>2, <4>1, WriteFacts
      <4> QED BY <4>2 DEF d
    <3>6. w.raw + x.head = p + g
      <4> HIDE DEF p, x
      <4> QED BY <1>2, <3>1
    <3> QED BY <3>1, <3>4, <3>5, <3>6
  <2> QED BY <2>1, <2>2 DEF Base
<1> HIDE DEF v
<1>4. Rests(y, v, p, g)
  <2> z = [Fresh EXCEPT !.pos = p]
    OBVIOUS
  <2> HIDE DEF z, p
  <2> QED BY <1>1, <1>2, <1>3, RestsAt
<1>5. y.st[0] = z
  <2>1. z \in Stream
    <3> z = [Fresh EXCEPT !.pos = p]
      OBVIOUS
    <3> HIDE DEF z, p
    <3> QED BY <1>2, FreshAt
  <2> HIDE DEF z
  <2>2. With(y, v, 0, z)
    BY <1>1, <1>3, <2>1, Ids0, WithStream
  <2> QED BY <2>2 DEF With
<1>6. Others(y, w)
  BY <1>3, <1>4 DEF Rests, Others
<1> QED BY <1>3, <1>4, <1>5, <1>6 DEF Rests, Flushes

\* A seek moves the cursor, and writes what waits to be written.
Seeks(y, w, p) ==
    /\ Base(y, 0) /\ Reads(y.st[0], y.disk, Capacity[0])
    /\ y.disk = Bytes(w) /\ Bytes(y) = Bytes(w) /\ Cur(y) = p /\ Tell(y, 0) = p /\ Others(y, w)

\* Stream::Seek of the base stream, inside the buffer or not.
LEMMA BaseSeekFacts ==
    ASSUME NEW w, NEW g, Base(w, g), NEW p \in Nat, p <= Len(Bytes(w)),
           NEW y, y = BaseSeek(w, p)
    PROVE  Seeks(y, w, p)
<1> DEFINE x == w.st[0]
           u == BaseFlush(w)
           v == FileSeek([u EXCEPT !.st[0].pos = p], p)
           k == p - x.pos
           z == [x EXCEPT !.head = k]
<1>1. y = IF Buffered(x, p) THEN [w EXCEPT !.st[0].head = k] ELSE v
  BY DEF BaseSeek, Sought
<1>2. w \in Worlds /\ w.st \in [Ids -> Stream] /\ x \in Stream /\ x.pos \in Nat /\ x.read \in Nat
      /\ g \in Nat /\ (g > 0 => x.read = 0) /\ w.raw = x.pos + x.read + g /\ w.raw <= Len(w.disk)
  BY BaseFacts
<1>3. CASE Buffered(x, p)
  <2>1. x.read > 0 /\ k \in Nat /\ k <= x.read /\ g = 0
    <3>1. x.read > 0 /\ k \in 0..(x.read - 1)
      BY <1>3 DEF Buffered
    <3> HIDE DEF k, x
    <3> QED BY <1>2, <3>1
  <2>2. Reads(x, w.disk, Capacity[0])
    BY <2>1 DEF Base, Writes
  <2>3. z \in Stream /\ z.head = k /\ z.read = x.read /\ z.pos = x.pos /\ z.buf = x.buf
    <3> HIDE DEF k, x
    <3> QED BY <1>2, <2>1 DEF Stream
  <2>4. y = [w EXCEPT !.st[0] = z]
    <3>1. [w EXCEPT !.st[0].head = k] = [w EXCEPT !.st[0] = [w.st[0] EXCEPT !.head = k]]
      OBVIOUS
    <3> HIDE DEF k
    <3> QED BY <1>1, <1>3, <3>1
  <2> HIDE DEF z
  <2>5. With(y, w, 0, z)
    BY <1>2, <2>3, <2>4, Ids0, WithStream
  <2>6. y \in Worlds /\ y.disk = w.disk /\ y.raw = w.raw /\ y.st[0] = z /\ Others(y, w)
    BY <2>5, Ids0 DEF With, Others
  <2>7. Reads(z, w.disk, Capacity[0])
    BY <2>1, <2>2, <2>3 DEF Reads
  <2>8. Base(y, 0)
    <3>1. y.raw <= Len(y.disk) /\ y.raw = z.pos + z.read + 0
      BY <1>2, <2>1, <2>3, <2>6
    <3> QED BY <2>6, <2>7, <3>1 DEF Base
  <2>9. Bytes(y) = y.disk /\ Cur(y) = z.pos + z.head + 0 /\ Bytes(w) = w.disk
    BY <2>2, <2>6, <2>7, <2>8, ReadView
  <2>10. z.pos + z.head + 0 = p /\ z.pos + z.head = p
    BY <1>2, <2>1, <2>3
  <2>11. Tell(y, 0) = p
    BY <2>6, <2>10 DEF Tell
  <2> QED BY <2>6, <2>7, <2>8, <2>9, <2>10, <2>11 DEF Seeks
<1>4. CASE ~Buffered(x, p)
  <2>1. Flushes(u, w, g)
    <3> u = BaseFlush(w)
      OBVIOUS
    <3> HIDE DEF u
    <3> QED BY BaseFlushFacts
  <2> DEFINE t == [Fresh EXCEPT !.pos = p]
             q == [u EXCEPT !.st[0].pos = p]
             s == FileSeek(u, p)
  <2>2. u \in Worlds /\ u.disk = Bytes(w) /\ u.disk \in Seq(Byte)
    <3> HIDE DEF u
    <3> QED BY <2>1, BaseFacts DEF Flushes
  <2>3. y = [s EXCEPT !.st[0] = t]
    <3>1. y = v
      BY <1>1, <1>4
    <3>2. u.st[0] = [Fresh EXCEPT !.pos = Tell(w, 0)]
      <4> HIDE DEF u
      <4> QED BY <2>1 DEF Flushes
    <3> HIDE DEF u
    <3>3. [u EXCEPT !.st[0].pos = p] = [u EXCEPT !.st[0] = [u.st[0] EXCEPT !.pos = p]]
      OBVIOUS
    <3>4. [u.st[0] EXCEPT !.pos = p] = t
      BY <3>2 DEF Fresh
    <3>5. q = [u EXCEPT !.st[0] = t]
      BY <3>3, <3>4
    <3>6. FileSeek([u EXCEPT !.st[0] = t], p) = [s EXCEPT !.st[0] = t]
      BY <2>2 DEF FileSeek, Worlds
    <3> QED BY <3>1, <3>5, <3>6
  <2>4. s \in Worlds /\ s.disk = u.disk /\ s.raw = p /\ s.st = u.st
    <3> s = FileSeek(u, p)
      OBVIOUS
    <3> HIDE DEF s, u
    <3> QED BY <2>2, SeekFacts
  <2> HIDE DEF u, s
  <2>5. Rests(y, s, p, 0)
    <3>1. s.raw = p + 0 /\ s.raw <= Len(s.disk)
      BY <2>2, <2>4
    <3> t = [Fresh EXCEPT !.pos = p]
      OBVIOUS
    <3> HIDE DEF t
    <3> QED BY <2>3, <2>4, <3>1, RestsAt
  <2>6. Others(y, w)
    BY <2>1, <2>4, <2>5 DEF Rests, Flushes, Others
  <2> QED BY <2>2, <2>4, <2>5, <2>6 DEF Rests, Seeks
<1> QED BY <1>3, <1>4

-----------------------------------------------------------------------------
(* Reading *)

\* A piece that would go beyond the end stops there.
LEMMA CutShort ==
    ASSUME NEW S, NEW d \in Seq(S), NEW p \in Nat, p <= Len(d), NEW n \in Nat,
           NEW k, k = Least(n, Len(d) - p)
    PROVE  k \in Nat /\ k <= n /\ p + k <= Len(d) /\ Cut(d, p, n) = Cut(d, p, k)
<1>1. Len(d) \in Nat /\ k \in Nat /\ k <= n /\ p + k <= Len(d)
      /\ Least(p + n, Len(d)) = Least(p + k, Len(d))
  BY DEF Least
<1> QED BY <1>1 DEF Cut

\* Its length, and its first item.
LEMMA CutLen ==
    ASSUME NEW S, NEW d \in Seq(S), NEW p \in Nat, NEW n \in Nat, p + n <= Len(d),
           NEW r, r = Cut(d, p, n)
    PROVE  r \in Seq(S) /\ Len(r) = n /\ \A i \in 1..n : r[i] = d[p + i]
<1>1. p <= Len(d) /\ Least(n, Len(d) - p) = n
  BY DEF Least
<1>2. r \in Seq(S) /\ Len(r) = Least(n, Len(d) - p) /\ \A i \in 1..Len(r) : r[i] = d[p + i]
  BY <1>1, CutIs
<1> QED BY <1>1, <1>2

\* Piece a is the n bytes of f behind p.
Piece(a, f, p, n) == a \in Seq(Byte) /\ Len(a) = n /\ \A i \in 1..n : a[i] = f[p + i]

\* What Cut returns is that piece.
LEMMA PieceIs ==
    ASSUME NEW f \in Seq(Byte), NEW p \in Nat, NEW k \in Nat, p + k <= Len(f),
           NEW a, a = Cut(f, p, k)
    PROVE  Piece(a, f, p, k)
<1>1. a \in Seq(Byte) /\ Len(a) = k /\ \A i \in 1..k : a[i] = f[p + i]
  BY CutLen
<1> QED BY <1>1 DEF Piece

\* What a read takes from the buffer is what the file has there.
LEMMA BufferPart ==
    ASSUME NEW f \in Seq(Byte), NEW c \in Nat, NEW x, Reads(x, f, c), NEW n \in Nat,
           NEW k, k = Least(n, x.read - x.head)
    PROVE  /\ k \in Nat /\ k <= n /\ x.head + k <= x.read
           /\ FromBuffer(x, n) = Cut(f, x.pos + x.head, k) /\ Len(FromBuffer(x, n)) = k
           /\ Missing(x, n) = n - k
<1> DEFINE h == x.head
           a == x.read
           p == x.pos
           o == p + h
<1>1. h \in Nat /\ a \in Nat /\ p \in Nat /\ h <= a /\ p + a <= Len(f) /\ x.buf = Cut(f, p, a)
  BY ReadsFacts DEF Reads
<1>2. FromBuffer(x, n) = Cut(Cut(f, p, a), h, n)
  BY <1>1 DEF FromBuffer
<1> HIDE DEF h, a, p
<1>3. k \in Nat /\ k <= n /\ h + k <= a /\ h \in 0..a /\ o \in Nat /\ o + k <= Len(f)
  <2>1. k = Least(n, a - h)
    BY DEF h, a
  <2> QED BY <1>1, <2>1 DEF Least
<1>4. Cut(Cut(f, p, a), h, n) = Cut(f, o, k)
  <2>1. Cut(Cut(f, p, a), h, n) = Cut(f, p + h, Least(n, a - h))
    BY <1>1, <1>3, CutCut
  <2> QED BY <2>1 DEF h, a
<1> DEFINE r == Cut(f, o, k)
<1>5. Len(r) = k
  <2>1. r = Cut(f, o, k)
    OBVIOUS
  <2> HIDE DEF r, o
  <2> QED BY <1>3, <2>1, CutLen
<1>6. Missing(x, n) = n - k
  BY <1>2, <1>4, <1>5 DEF Missing
<1> QED BY <1>2, <1>3, <1>4, <1>5, <1>6 DEF h, a, p

\* A read of n bytes of f found stream x and left it as y.
ReadResult(x, y, f, c, n, data) ==
    /\ Reads(y, f, c) /\ data = Cut(f, x.pos + x.head, n)
    /\ data \in Seq(Byte) /\ Len(data) \in Nat
    /\ y.pos + y.head = (x.pos + x.head) + Len(data)
    /\ (n = 1 => Returnable(y, c, data))

\* The byte in front of the cursor is the one the file has there.
LEMMA ReturnableAt ==
    ASSUME NEW f \in Seq(Byte), NEW c \in Nat, NEW y, Reads(y, f, c), NEW q \in Nat, q <= Len(f),
           NEW data, data = Cut(f, q, 1), y.pos + y.head = q + Len(data),
           c > 0 /\ data # <<>> => y.read > 0 /\ y.head > 0
    PROVE  Returnable(y, c, data)
<1> SUFFICES ASSUME c > 0, data # <<>> PROVE y.buf[y.head] = data[1]
  BY DEF Returnable
<1>1. /\ y.head \in Nat /\ y.read \in Nat /\ y.pos \in Nat /\ y.head <= y.read /\ y.head > 0
      /\ \A i \in 1..y.read : y.buf[i] = f[y.pos + i]
  BY ReadsFacts
<1>2. /\ data \in Seq(Byte) /\ Len(data) = Least(1, Len(f) - q)
      /\ \A i \in 1..Len(data) : data[i] = f[q + i]
  BY CutIs
<1>3. Len(data) \in Nat /\ Len(data) # 0
  BY <1>2
<1>4. Len(data) = 1
  <2> DEFINE l == Len(f)
             z == Len(data)
  <2>1. l \in Nat /\ z = IF 1 < l - q THEN 1 ELSE l - q
    BY <1>2 DEF Least
  <2>2. z \in Nat /\ z # 0
    BY <1>3
  <2> HIDE DEF l, z
  <2>3. z = 1
    BY <2>1, <2>2
  <2> QED BY <2>3 DEF z
<1>5. data[1] = f[q + 1] /\ y.pos + y.head = q + 1
  BY <1>2, <1>4
<1>6. y.head \in 1..y.read
  BY <1>1
<1>7. y.buf[y.head] = f[y.pos + y.head]
  BY <1>1, <1>6
<1> QED BY <1>5, <1>7

\* Everything was in the buffer.
LEMMA AfterBuffer ==
    ASSUME NEW f \in Seq(Byte), NEW c \in Nat, NEW x, Reads(x, f, c), NEW n \in Nat,
           Missing(x, n) = 0, NEW y, y = [x EXCEPT !.head = @ + n]
    PROVE  ReadResult(x, y, f, c, n, FromBuffer(x, n)) /\ y.pos + y.read = x.pos + x.read
<1> DEFINE k == Least(n, x.read - x.head)
           q == x.pos + x.head
           data == FromBuffer(x, n)
<1>1. /\ x \in Stream /\ x.head \in Nat /\ x.read \in Nat /\ x.pos \in Nat /\ x.head <= x.read
      /\ x.pos + x.read <= Len(f) /\ Len(f) \in Nat
  BY ReadsFacts
<1>2. /\ k \in Nat /\ k <= n /\ x.head + k <= x.read
      /\ data = Cut(f, q, k) /\ Len(data) = k /\ Missing(x, n) = n - k
  <2>1. k = Least(n, x.read - x.head)
    OBVIOUS
  <2> HIDE DEF k
  <2> QED BY <2>1, BufferPart
<1> HIDE DEF k, data
<1>3. k = n
  BY <1>2
<1>4. /\ y \in Stream /\ y.head = x.head + n /\ y.read = x.read /\ y.pos = x.pos /\ y.buf = x.buf
  BY <1>1, SMTT(30) DEF Stream
<1>5. Reads(y, f, c)
  <2>1. x.head + n <= x.read
    BY <1>2, <1>3
  <2> QED BY <1>4, <2>1 DEF Reads
<1>6. y.pos + y.head = q + Len(data) /\ q \in Nat /\ q + k <= Len(f) /\ q <= Len(f)
  BY <1>1, <1>2, <1>3, <1>4
<1>7. data = Cut(f, q, n) /\ data \in Seq(Byte)
  <2> HIDE DEF q
  <2> QED BY <1>2, <1>3, <1>6, CutLen
<1>8. n = 1 => Returnable(y, c, data)
  <2> SUFFICES ASSUME n = 1 PROVE Returnable(y, c, data)
    OBVIOUS
  <2>1. y.read > 0 /\ y.head > 0
    BY <1>1, <1>2, <1>3, <1>4
  <2>2. data = Cut(f, q, 1)
    BY <1>7
  <2> HIDE DEF q
  <2> QED BY <1>5, <1>6, <2>1, <2>2, ReturnableAt
<1>9. Len(data) \in Nat
  BY <1>2
<1> QED BY <1>4, <1>5, <1>6, <1>7, <1>8, <1>9 DEF ReadResult, data

\* How much a read takes from a buffer of a bytes at p with the cursor at h, in a
\* file of l bytes, and how much it asks for and gets beyond that.
Numbers(h, a, p, n, c, l, k, miss, asked, e, q, len, taken) ==
    /\ h \in Nat /\ a \in Nat /\ p \in Nat /\ n \in Nat /\ c \in Nat /\ l \in Nat /\ k \in Nat
    /\ miss \in Nat /\ h <= a /\ p + a <= l /\ k = Least(n, a - h) /\ miss = n - k /\ miss # 0
    /\ asked = (IF miss > c THEN miss ELSE c) /\ e = p + a /\ q = p + h
    /\ len = Least(asked, l - e) /\ taken = Least(miss, len)

Bounds(a, h, n, c, l, k, miss, asked, e, q, len, taken) ==
    /\ e \in Nat /\ q \in Nat /\ e <= l /\ q <= l /\ q + k = e /\ n = k + miss
    /\ k = a - h /\ asked \in Nat /\ len \in Nat /\ taken \in Nat
    /\ len <= asked /\ e + len <= l /\ taken <= len /\ e + taken <= l
    /\ taken = Least(miss, l - e)
    /\ (miss > c => taken = len) /\ (~(miss > c) => len <= c)

\* These numbers are in range, and the parts of a read add up.
LEMMA MoreNumbers ==
    ASSUME NEW h, NEW a, NEW p, NEW n, NEW c, NEW l, NEW k, NEW miss, NEW asked,
           NEW e, NEW q, NEW len, NEW taken,
           Numbers(h, a, p, n, c, l, k, miss, asked, e, q, len, taken)
    PROVE  Bounds(a, h, n, c, l, k, miss, asked, e, q, len, taken)
<1>0. /\ h \in Nat /\ a \in Nat /\ p \in Nat /\ n \in Nat /\ c \in Nat /\ l \in Nat /\ k \in Nat
      /\ miss \in Nat /\ h <= a /\ p + a <= l /\ k = Least(n, a - h) /\ miss = n - k /\ miss # 0
      /\ asked = (IF miss > c THEN miss ELSE c) /\ e = p + a /\ q = p + h
      /\ len = Least(asked, l - e) /\ taken = Least(miss, len)
  BY DEF Numbers
<1>1. k = a - h
  <2>1. k = IF n < a - h THEN n ELSE a - h
    BY <1>0 DEF Least
  <2>2. h \in Nat /\ a \in Nat /\ n \in Nat /\ k \in Nat /\ k # n
    BY <1>0
  <2> QED BY <2>1, <2>2
<1>2. /\ e \in Nat /\ q \in Nat /\ e <= l /\ q <= l /\ q + k = e /\ n = k + miss
  <2>1. h \in Nat /\ a \in Nat /\ p \in Nat /\ h <= a /\ p + a <= l /\ l \in Nat /\ k \in Nat
        /\ e = p + a /\ q = p + h
    BY <1>0
  <2>2. n \in Nat /\ miss \in Nat /\ k \in Nat /\ miss = n - k
    BY <1>0
  <2>3. n = k + miss
    BY <2>2
  <2> QED BY <1>1, <2>1, <2>3
<1>3. asked \in Nat /\ asked >= miss /\ (miss > c => asked = miss) /\ (~(miss > c) => asked = c)
  BY <1>0
<1> DEFINE z == l - e
<1>4. z \in Nat /\ e + z = l /\ len = Least(asked, z) /\ taken = Least(miss, len)
  BY <1>0, <1>2
<1> HIDE DEF z
<1>5. len \in Nat /\ len <= asked /\ len <= z /\ (len = asked \/ len = z)
  BY <1>3, <1>4 DEF Least
<1>6. taken \in Nat /\ taken <= len /\ taken <= miss /\ (taken = miss \/ taken = len)
  BY <1>0, <1>4, <1>5 DEF Least
<1>7. taken = Least(miss, z)
  <2>1. CASE miss < z
    BY <1>0, <1>3, <1>4, <1>5, <1>6, <2>1 DEF Least
  <2>2. CASE ~(miss < z)
    BY <1>0, <1>3, <1>4, <1>5, <1>6, <2>2 DEF Least
  <2> QED BY <2>1, <2>2
<1>8. (miss > c => taken = len) /\ (~(miss > c) => len <= c)
  BY <1>0, <1>3, <1>4, <1>5, <1>6
<1>9. e + len <= l /\ e + taken <= l
  BY <1>2, <1>4, <1>5, <1>6
<1> QED BY <1>1, <1>2, <1>3, <1>5, <1>6, <1>7, <1>8, <1>9 DEF z, Bounds

\* What a read that had to ask for more leaves in the stream.
LeftOver(x, c, miss, more, taken) ==
    IF miss > c THEN [Fresh EXCEPT !.pos = x.pos + x.read + taken]
    ELSE [buf |-> more, head |-> taken, read |-> Len(more), pos |-> x.pos + x.read]

Leaves(x, y, f, c, e, len, miss, more, taken) ==
    /\ miss \in Nat /\ more \in Seq(Byte) /\ e \in Nat /\ e = x.pos + x.read
    /\ len \in Nat /\ len = Len(more) /\ more = Cut(f, e, len) /\ taken \in Nat
    /\ taken <= len /\ e + len <= Len(f) /\ (miss > c => taken = len)
    /\ (~(miss > c) => len <= c) /\ y = LeftOver(x, c, miss, more, taken)

\* What is left in the stream is again a window on the file.
LEMMA LeftOverFacts ==
    ASSUME NEW f \in Seq(Byte), NEW c \in Nat, NEW x, NEW y, NEW e, NEW len, NEW miss, NEW more,
           NEW taken, Leaves(x, y, f, c, e, len, miss, more, taken)
    PROVE  /\ Reads(y, f, c) /\ y.pos + y.head = e + taken /\ y.pos + y.read = e + len
           /\ (~(miss > c) => y.head = taken /\ y.read = len)
<1>0. /\ miss \in Nat /\ more \in Seq(Byte) /\ e \in Nat /\ e = x.pos + x.read
      /\ len \in Nat /\ len = Len(more) /\ more = Cut(f, e, len) /\ taken \in Nat
      /\ taken <= len /\ e + len <= Len(f) /\ (miss > c => taken = len)
      /\ (~(miss > c) => len <= c) /\ y = LeftOver(x, c, miss, more, taken)
  BY DEF Leaves
<1>1. CASE miss > c
  <2> DEFINE s == e + taken
  <2>1. s \in Nat /\ s <= Len(f) /\ s = e + len /\ s + 0 = s
    BY <1>0, <1>1
  <2>2. y = [Fresh EXCEPT !.pos = s]
    BY <1>0, <1>1 DEF LeftOver
  <2> HIDE DEF s
  <2>3. Reads(y, f, c) /\ y.head = 0 /\ y.read = 0 /\ y.pos = s
    BY <2>1, <2>2, FreshAt, FreshReads
  <2> QED BY <1>0, <1>1, <2>1, <2>3 DEF s
<1>2. CASE ~(miss > c)
  <2>1. y = [buf |-> more, head |-> taken, read |-> len, pos |-> e]
    BY <1>0, <1>2 DEF LeftOver
  <2>2. y \in Stream
    <3> [buf |-> more, head |-> taken, read |-> len, pos |-> e] \in Stream
      BY <1>0, StreamOf
    <3> QED BY <2>1
  <2>3. y.buf = more /\ y.head = taken /\ y.read = len /\ y.pos = e
    BY <2>1
  <2>4. Reads(y, f, c)
    BY <1>0, <1>2, <2>2, <2>3 DEF Reads
  <2> QED BY <2>3, <2>4
<1> QED BY <1>1, <1>2

\* The rest comes from the file, and what more it brings stays in the buffer.
GotMore(x, y, f, c, n, miss, more, taken) ==
    /\ miss = Missing(x, n) /\ miss # 0
    /\ more = Cut(f, x.pos + x.read, IF miss > c THEN miss ELSE c)
    /\ taken = Least(miss, Len(more))
    /\ y = LeftOver(x, c, miss, more, taken)

\* A read that asked for more returns the bytes at the cursor.
LEMMA AfterMore ==
    ASSUME NEW f \in Seq(Byte), NEW c \in Nat, NEW x, Reads(x, f, c), NEW n \in Nat,
           NEW miss, NEW more, NEW taken, NEW y, GotMore(x, y, f, c, n, miss, more, taken)
    PROVE  /\ ReadResult(x, y, f, c, n, FromBuffer(x, n) \o Cut(more, 0, taken))
           /\ more \in Seq(Byte) /\ Len(more) \in Nat
           /\ y.pos + y.read = x.pos + x.read + Len(more)
<1> DEFINE h == x.head
           a == x.read
           p == x.pos
           k == Least(n, a - h)
           q == p + h
           e == p + a
           l == Len(f)
           len == Len(more)
           asked == IF miss > c THEN miss ELSE c
           first == FromBuffer(x, n)
           data == first \o Cut(more, 0, taken)
<1>1. h \in Nat /\ a \in Nat /\ p \in Nat /\ h <= a /\ p + a <= l /\ l \in Nat
  <2>1. /\ x.head \in Nat /\ x.read \in Nat /\ x.pos \in Nat /\ x.head <= x.read
        /\ x.pos + x.read <= Len(f)
    BY ReadsFacts
  <2> QED BY <2>1
<1>2. miss = Missing(x, n) /\ miss # 0 /\ more = Cut(f, e, asked) /\ taken = Least(miss, len)
      /\ y = LeftOver(x, c, miss, more, taken)
  BY DEF GotMore
<1>3. /\ k \in Nat /\ k <= n /\ first = Cut(f, q, k) /\ Len(first) = k /\ miss = n - k
  <2>1. k = Least(n, x.read - x.head)
    OBVIOUS
  <2> HIDE DEF k
  <2> QED BY <1>2, <2>1, BufferPart
<1>4. k = Least(n, a - h) /\ e = p + a /\ q = p + h /\ l = Len(f) /\ len = Len(more)
  OBVIOUS
<1>5. asked = (IF miss > c THEN miss ELSE c) /\ data = first \o Cut(more, 0, taken)
  OBVIOUS
<1>6. e = x.pos + x.read
  OBVIOUS
<1> HIDE DEF h, a, p, k, q, e, l, len, asked, first, data
<1>7. miss \in Nat
  BY <1>3
<1>8. asked \in Nat
  BY <1>5, <1>7
<1>9. e \in Nat /\ e <= Len(f)
  BY <1>1, <1>4
<1>10. more \in Seq(Byte) /\ len = Least(asked, l - e)
  <2> more \in Seq(Byte) /\ Len(more) = Least(asked, Len(f) - e)
    BY <1>2, <1>8, <1>9, CutIs
  <2> QED BY <1>4
<1>11. Bounds(a, h, n, c, l, k, miss, asked, e, q, len, taken)
  <2>1. Numbers(h, a, p, n, c, l, k, miss, asked, e, q, len, taken)
    BY <1>1, <1>2, <1>3, <1>4, <1>5, <1>7, <1>10, Zenon DEF Numbers
  <2> QED BY <2>1, MoreNumbers
<1>12. /\ e \in Nat /\ q \in Nat /\ e <= l /\ q <= l /\ q + k = e /\ n = k + miss
       /\ k = a - h /\ len \in Nat /\ taken \in Nat
       /\ len <= asked /\ e + len <= l /\ taken <= len /\ e + taken <= l
       /\ taken = Least(miss, l - e) /\ len = Least(asked, l - e)
       /\ (miss > c => taken = len) /\ (~(miss > c) => len <= c)
  BY <1>10, <1>11 DEF Bounds
<1>13. more = Cut(f, e, len)
  <2>1. len = Least(asked, Len(f) - e)
    BY <1>4, <1>12
  <2>2. Cut(f, e, asked) = Cut(f, e, len)
    BY <1>8, <1>9, <2>1, CutShort
  <2> QED BY <1>2, <2>2
<1>14. Cut(more, 0, taken) = Cut(f, e, taken)
  <2> DEFINE z == 0
             m == e + z
             j == Least(taken, len - z)
  <2>1. z \in 0..len /\ e + len <= Len(f) /\ e \in Nat /\ len \in Nat /\ taken \in Nat
    BY <1>4, <1>12
  <2>2. m = e /\ j = taken
    BY <1>12 DEF Least
  <2> HIDE DEF z
  <2>3. Cut(Cut(f, e, len), z, taken) = Cut(f, m, j)
    BY <2>1, CutCut
  <2> HIDE DEF m, j
  <2>4. Cut(Cut(f, e, len), z, taken) = Cut(f, e, taken)
    BY <2>2, <2>3, Zenon
  <2>5. Cut(more, z, taken) = Cut(f, e, taken)
    BY <1>13, <2>4, Zenon
  <2> QED BY <2>5 DEF z
<1>15. Cut(f, e, miss) = Cut(f, e, taken)
  <2>1. taken = Least(miss, Len(f) - e)
    BY <1>4, <1>12
  <2> QED BY <1>7, <1>9, <2>1, CutShort
<1>16. data = Cut(f, q, n)
  <2>1. Cut(f, q, k) \o Cut(f, q + k, miss) = Cut(f, q, k + miss)
    <3>1. q \in Nat /\ k \in Nat /\ miss \in Nat /\ q + k <= Len(f)
      BY <1>3, <1>4, <1>7, <1>12
    <3> QED BY <3>1, CutJoin, ZenonT(40)
  <2>2. q + k = e /\ k + miss = n
    BY <1>12
  <2>3. Cut(f, q, k) \o Cut(f, e, miss) = Cut(f, q, n)
    BY <2>1, <2>2
  <2>4. data = Cut(f, q, k) \o Cut(f, e, miss)
    BY <1>3, <1>5, <1>14, <1>15, Zenon
  <2> QED BY <2>3, <2>4, Zenon
<1>17. data \in Seq(Byte) /\ Len(data) = k + taken
  <2> DEFINE b == Cut(f, e, taken)
  <2>1. b = Cut(f, e, taken) /\ e + taken <= Len(f) /\ e \in Nat /\ taken \in Nat
    BY <1>4, <1>12
  <2> HIDE DEF b
  <2>2. Piece(b, f, e, taken)
    BY <2>1, PieceIs
  <2>3. b \in Seq(Byte) /\ Len(b) = taken
    BY <2>2 DEF Piece
  <2>4. first \in Seq(Byte)
    <3>1. q \in Nat /\ k \in Nat /\ q + k <= Len(f) /\ first = Cut(f, q, k)
      BY <1>3, <1>4, <1>12
    <3> QED BY <3>1, CutLen
  <2>5. data = first \o b
    BY <1>5, <1>14, <2>1, Zenon
  <2>6. first \in Seq(Byte) /\ b \in Seq(Byte) /\ data = first \o b
    BY <2>3, <2>4, <2>5, Zenon
  <2>7. Len(data) = Len(first) + Len(b) /\ data \in Seq(Byte)
    BY <2>6, Joined
  <2> QED BY <1>3, <2>3, <2>7
<1>18. /\ Reads(y, f, c) /\ y.pos + y.head = e + taken /\ y.pos + y.read = e + len
       /\ (~(miss > c) => y.head = taken /\ y.read = len)
  <2>1. e + len <= Len(f)
    BY <1>4, <1>12
  <2>2. Leaves(x, y, f, c, e, len, miss, more, taken)
    BY <1>2, <1>4, <1>6, <1>7, <1>10, <1>12, <1>13, <2>1, Zenon DEF Leaves
  <2> QED BY <2>2, LeftOverFacts
<1>19. y.pos + y.head = q + Len(data)
  <2> e + taken = q + (k + taken)
    BY <1>3, <1>12, SMTT(30)
  <2> QED BY <1>17, <1>18
<1>20. n = 1 => Returnable(y, c, data)
  <2> SUFFICES ASSUME n = 1 PROVE Returnable(y, c, data)
    OBVIOUS
  <2>1. ASSUME c > 0, data # <<>> PROVE y.read > 0 /\ y.head > 0
    <3>1. data \in Seq(Byte) /\ data # <<>> => Len(data) # 0
      OBVIOUS
    <3>2. k = 0 /\ miss = 1
      <4>1. n = k + miss /\ k \in Nat /\ miss \in Nat /\ miss # 0
        BY <1>2, <1>3, <1>7, <1>12
      <4> QED BY <4>1
    <3>3. taken > 0 /\ len > 0
      BY <1>12, <1>17, <2>1, <3>1, <3>2
    <3>4. ~(miss > c)
      BY <2>1, <3>2
    <3> QED BY <1>18, <3>3, <3>4
  <2>2. data = Cut(f, q, 1)
    BY <1>16
  <2>3. q <= Len(f) /\ q \in Nat
    BY <1>4, <1>12
  <2> QED BY <1>18, <1>19, <2>1, <2>2, <2>3, ReturnableAt
<1>21. Len(data) \in Nat
  BY <1>17
<1>22. ReadResult(x, y, f, c, n, data)
  BY <1>16, <1>17, <1>18, <1>19, <1>20, <1>21 DEF ReadResult, q, p, h
<1>23. y.pos + y.read = x.pos + x.read + Len(more)
  BY <1>18 DEF e, p, a, len
<1>24. Len(more) \in Nat
  BY <1>10
<1> QED BY <1>10, <1>22, <1>23, <1>24 DEF data, first

\* A read of stream s in world a, over file f: r is what the call below it gave, if
\* there was one.
AfterReadOK(y, a, r, s, f, n) ==
    /\ ReadResult(a.st[s], y.w.st[s], f, Capacity[s], n, y.data)
    /\ Missing(a.st[s], n) = 0 =>
         /\ With(y.w, a, s, y.w.st[s])
         /\ y.w.st[s].pos + y.w.st[s].read = a.st[s].pos + a.st[s].read
    /\ Missing(a.st[s], n) # 0 =>
         /\ With(y.w, r.w, s, y.w.st[s]) /\ r.data \in Seq(Byte) /\ Len(r.data) \in Nat
         /\ y.w.st[s].pos + y.w.st[s].read = a.st[s].pos + a.st[s].read + Len(r.data)

\* Stream::Read returns the bytes at the cursor, whatever the call below it was.
LEMMA AfterReadFacts ==
    ASSUME NEW a \in Worlds, NEW s \in Ids, NEW f \in Seq(Byte), Reads(a.st[s], f, Capacity[s]),
           NEW n \in Nat, NEW r, r.w \in Worlds,
           Missing(a.st[s], n) # 0 => r.data = Cut(f, a.st[s].pos + a.st[s].read, Asked(a, s, n)),
           NEW y, y = AfterRead(a, s, n, r)
    PROVE  AfterReadOK(y, a, r, s, f, n)
<1> DEFINE x == a.st[s]
           c == Capacity[s]
           miss == Missing(x, n)
           taken == Least(miss, Len(r.data))
           first == FromBuffer(x, n)
<1>1. c \in Nat /\ a.st \in [Ids -> Stream] /\ x \in Stream
  BY Ids0 DEF Worlds
<1>2. CASE miss = 0
  <2> DEFINE z == [x EXCEPT !.head = @ + n]
  <2>1. y = [w |-> [a EXCEPT !.st[s].head = @ + n], data |-> first]
    BY <1>2 DEF AfterRead
  <2>2. y.data = first /\ y.w = [a EXCEPT !.st[s] = z]
    BY <2>1
  <2>3. ReadResult(x, z, f, c, n, first) /\ z.pos + z.read = x.pos + x.read
    <3>1. Missing(x, n) = 0 /\ z = [x EXCEPT !.head = @ + n] /\ Reads(x, f, c)
      BY <1>2
    <3> HIDE DEF z, x, c
    <3> QED BY <1>1, <3>1, AfterBuffer
  <2>4. z \in Stream
    <3> HIDE DEF z
    <3> QED BY <2>3 DEF ReadResult, Reads
  <2> HIDE DEF z
  <2>5. With(y.w, a, s, z)
    BY <2>2, <2>4, WithStream
  <2>6. y.w.st[s] = z
    BY <2>5 DEF With
  <2> QED BY <1>2, <2>2, <2>3, <2>5, <2>6 DEF AfterReadOK
<1>3. CASE miss # 0
  <2> DEFINE more == r.data
             z == LeftOver(x, c, miss, more, taken)
  <2>1. y = [w |-> [r.w EXCEPT !.st[s] = z], data |-> first \o Cut(r.data, 0, taken)]
    BY <1>3 DEF AfterRead, Large, LeftOver
  <2>2. y.w = [r.w EXCEPT !.st[s] = z] /\ y.data = first \o Cut(more, 0, taken)
    BY <2>1
  <2>3. GotMore(x, z, f, c, n, miss, more, taken)
    <3>1. more = Cut(f, x.pos + x.read, IF miss > c THEN miss ELSE c)
      BY <1>3 DEF Asked, Large
    <3> QED BY <1>3, <3>1 DEF GotMore
  <2>4. Reads(x, f, c)
    OBVIOUS
  <2> HIDE DEF z, more, taken, miss, c, x
  <2>5. /\ ReadResult(x, z, f, c, n, FromBuffer(x, n) \o Cut(more, 0, taken))
        /\ more \in Seq(Byte) /\ Len(more) \in Nat
        /\ z.pos + z.read = x.pos + x.read + Len(more)
    BY <1>1, <2>3, <2>4, AfterMore
  <2>6. z \in Stream
    BY <2>5 DEF ReadResult, Reads
  <2>7. With(y.w, r.w, s, z)
    BY <2>2, <2>6, WithStream
  <2>8. y.w.st[s] = z
    BY <2>7 DEF With
  <2> QED BY <1>3, <2>2, <2>5, <2>7, <2>8 DEF AfterReadOK, more, miss, c, x
<1> QED BY <1>2, <1>3

\* What a read asks for is a number.
LEMMA MissingIs ==
    ASSUME NEW f \in Seq(Byte), NEW c \in Nat, NEW x, Reads(x, f, c), NEW n \in Nat
    PROVE  Missing(x, n) \in Nat
<1> DEFINE k == Least(n, x.read - x.head)
<1>1. k \in Nat /\ k <= n /\ Missing(x, n) = n - k
  <2>1. k = Least(n, x.read - x.head)
    OBVIOUS
  <2> HIDE DEF k
  <2> QED BY <2>1, BufferPart
<1> HIDE DEF k
<1> QED BY <1>1

\* So is what it asks the call below for.
LEMMA AskedIs ==
    ASSUME NEW a \in Worlds, NEW s \in Ids, NEW f \in Seq(Byte), Reads(a.st[s], f, Capacity[s]),
           NEW n \in Nat
    PROVE  Asked(a, s, n) \in Nat
<1>1. Capacity[s] \in Nat
  BY Ids0
<1>2. Missing(a.st[s], n) \in Nat
  BY <1>1, MissingIs
<1> QED BY <1>1, <1>2 DEF Asked, Large

\* A stream whose buffer is spent: only it has changed, and not its sum.
LEMMA SpentFacts ==
    ASSUME NEW a \in Worlds, NEW s \in Ids, NEW v, v = Spent(a, s)
    PROVE  /\ v \in Worlds /\ v.disk = a.disk /\ v.raw = a.raw
           /\ v.st[s].pos = a.st[s].pos + a.st[s].read /\ v.st[s].pos \in Nat
           /\ \A t \in Ids \ {s} : v.st[t] = a.st[t]
<1> DEFINE x == a.st[s]
           h == x.read
           p == x.pos + x.read
           z == [x EXCEPT !.head = h, !.pos = p]
<1>1. x \in Stream /\ x.read \in Nat /\ x.pos \in Nat
  <2>1. x \in Stream
    BY DEF Worlds
  <2> HIDE DEF x
  <2> QED BY <2>1 DEF Stream
<1>2. v = [a EXCEPT !.st[s].head = h, !.st[s].pos = p]
  BY <1>1 DEF Spent
<1>3. v = [a EXCEPT !.st[s] = z]
  BY <1>2 DEF Worlds
<1>4. h \in Nat /\ p \in Nat
  BY <1>1
<1>5. z \in Stream /\ z.pos = p
  <2> HIDE DEF h, p, x
  <2> QED BY <1>1, <1>4 DEF Stream
<1> HIDE DEF z
<1>6. With(v, a, s, z)
  BY <1>3, <1>5, WithStream
<1> QED BY <1>4, <1>5, <1>6 DEF With

\* What FileStream reads, from where the handle stands.
LEMMA FileReadFacts ==
    ASSUME NEW w \in Worlds, w.raw <= Len(w.disk), NEW n \in Nat, NEW r, r = FileRead(w, n)
    PROVE  /\ r.w \in Worlds /\ r.w.disk = w.disk /\ r.w.st = w.st
           /\ r.data = Cut(w.disk, w.raw, n) /\ r.data \in Seq(Byte)
           /\ r.w.raw = w.raw + Len(r.data)
<1> DEFINE d == Cut(w.disk, w.raw, n)
<1>1. w.disk \in Seq(Byte) /\ w.raw \in Nat
  BY DEF Worlds
<1>2. d \in Seq(Byte)
  <2> d = Cut(w.disk, w.raw, n)
    OBVIOUS
  <2> HIDE DEF d
  <2> QED BY <1>1, CutIs
<1>3. r = [w |-> [w EXCEPT !.raw = @ + Len(d)], data |-> d]
  BY DEF FileRead
<1> HIDE DEF d
<1>4. Len(d) \in Nat
  BY <1>2
<1>5. w.raw + Len(d) \in Nat
  BY <1>1, <1>4
<1>6. r.data = d /\ r.w = [w EXCEPT !.raw = w.raw + Len(d)]
  BY <1>3
<1>7. r.w \in Worlds /\ r.w.disk = w.disk /\ r.w.st = w.st /\ r.w.raw = w.raw + Len(d)
  BY <1>5, <1>6 DEF Worlds
<1> QED BY <1>2, <1>6, <1>7 DEF d

\* A read of the base stream.
BaseReadOK(y, w, n) ==
    /\ Base(y.w, 0) /\ Reads(y.w.st[0], y.w.disk, Capacity[0])
    /\ y.w.disk = Bytes(w) /\ Bytes(y.w) = Bytes(w) /\ Others(y.w, w)
    /\ y.data = Cut(Bytes(w), Cur(w), n) /\ y.data \in Seq(Byte)
    /\ Cur(y.w) = Cur(w) + Len(y.data) /\ Tell(y.w, 0) = Cur(y.w)
    /\ (n = 1 => Returnable(y.w.st[0], Capacity[0], y.data))

\* Stream::Read of the base stream, after what waits to be written was written.
LEMMA BaseReadFacts ==
    ASSUME NEW w, Base(w, 0), NEW n \in Nat, NEW y, y = BaseRead(w, n)
    PROVE  BaseReadOK(y, w, n)
<1> DEFINE a == IF Unwritten(w.st[0]) THEN BaseFlush(w) ELSE w
           f == a.disk
           k == Asked(a, 0, n)
           v == Spent(a, 0)
           r == FileRead(v, k)
<1>1. y = AfterRead(a, 0, n, r)
  BY DEF BaseRead, Strict
<1>2. /\ Base(a, 0) /\ Reads(a.st[0], a.disk, Capacity[0]) /\ a.disk = Bytes(w)
      /\ Cur(a) = Cur(w) /\ Others(a, w)
  <2>1. CASE Reads(w.st[0], w.disk, Capacity[0])
    <3>1. w.st[0].head \in Nat /\ w.st[0].read \in Nat /\ w.st[0].head <= w.st[0].read
      BY <2>1, BaseFacts DEF Reads
    <3>2. ~Unwritten(w.st[0])
      BY <3>1 DEF Unwritten
    <3>3. a = w
      BY <3>2
    <3>4. Bytes(w) = w.disk
      BY <2>1, ReadView
    <3> QED BY <2>1, <3>3, <3>4 DEF Others
  <2>2. CASE Writes(w.st[0], Capacity[0])
    <3>1. a = BaseFlush(w)
      BY <2>2 DEF Writes, Unwritten
    <3> HIDE DEF a
    <3>2. Flushes(a, w, 0)
      BY <3>1, BaseFlushFacts
    <3> QED BY <3>2 DEF Flushes
  <2> QED BY <2>1, <2>2 DEF Base
<1> HIDE DEF a
<1> DEFINE x == a.st[0]
           c == Capacity[0]
<1>3. /\ a \in Worlds /\ f \in Seq(Byte) /\ a.raw \in Nat /\ a.raw <= Len(f) /\ 0 \in Ids
      /\ c \in Nat /\ a.raw = x.pos + x.read + 0 /\ x.pos \in Nat /\ x.read \in Nat
      /\ x.head \in Nat
  BY <1>2, BaseFacts, Ids0
<1>4. a.raw = x.pos + x.read
  BY <1>3
<1>5. k \in Nat
  BY <1>2, <1>3, AskedIs
<1>6. v \in Worlds /\ v.disk = f /\ v.raw = a.raw /\ \A t \in Ids \ {0} : v.st[t] = a.st[t]
  <2> v = Spent(a, 0)
    OBVIOUS
  <2> HIDE DEF v
  <2> QED BY <1>3, SpentFacts
<1>7. /\ r.w \in Worlds /\ r.w.disk = f /\ r.w.st = v.st
      /\ r.data = Cut(f, x.pos + x.read, k) /\ r.data \in Seq(Byte)
      /\ r.w.raw = a.raw + Len(r.data)
  <2>1. r = FileRead(v, k) /\ v \in Worlds /\ v.raw <= Len(v.disk)
    BY <1>3, <1>6
  <2> HIDE DEF v, k, r, x, f
  <2>2. /\ r.w \in Worlds /\ r.w.disk = v.disk /\ r.w.st = v.st
        /\ r.data = Cut(v.disk, v.raw, k) /\ r.data \in Seq(Byte)
        /\ r.w.raw = v.raw + Len(r.data)
    BY <1>5, <2>1, FileReadFacts
  <2> QED BY <1>4, <1>6, <2>2
<1>8. AfterReadOK(y, a, r, 0, f, n)
  <2> HIDE DEF v, r
  <2>1. Reads(a.st[0], f, Capacity[0]) /\ r.w \in Worlds
        /\ r.data = Cut(f, a.st[0].pos + a.st[0].read, Asked(a, 0, n))
    BY <1>2, <1>7
  <2> HIDE DEF f
  <2> QED BY <1>1, <1>3, <2>1, AfterReadFacts
<1> HIDE DEF v, r, k
<1> DEFINE z == y.w.st[0]
<1>9. ReadResult(x, z, f, c, n, y.data)
  BY <1>8 DEF AfterReadOK
<1>10. y.w \in Worlds /\ y.w.disk = f /\ y.w.raw = z.pos + z.read /\ Others(y.w, a)
  <2>1. CASE Missing(x, n) = 0
    <3>1. With(y.w, a, 0, z) /\ z.pos + z.read = x.pos + x.read
      BY <1>8, <2>1 DEF AfterReadOK
    <3> HIDE DEF z, x
    <3> QED BY <1>4, <3>1, Ids0 DEF With, Others
  <2>2. CASE Missing(x, n) # 0
    <3>1. With(y.w, r.w, 0, z) /\ z.pos + z.read = x.pos + x.read + Len(r.data)
      BY <1>8, <2>2 DEF AfterReadOK
    <3> HIDE DEF z, x, f
    <3>2. y.w \in Worlds /\ y.w.disk = f /\ y.w.raw = z.pos + z.read
      BY <1>4, <1>7, <3>1 DEF With
    <3>3. ASSUME NEW t \in Members PROVE y.w.st[t] = a.st[t]
      BY <1>6, <1>7, <3>1, <3>3, Ids0 DEF With
    <3> QED BY <3>2, <3>3 DEF Others
  <2> QED BY <2>1, <2>2
<1>11. Reads(z, f, c) /\ z.pos \in Nat /\ z.read \in Nat /\ z.pos + z.read <= Len(f)
       /\ z.head \in Nat
  <2>1. Reads(z, f, c)
    BY <1>9 DEF ReadResult
  <2> HIDE DEF z, f, c
  <2> QED BY <1>3, <2>1, ReadsFacts
<1>12. Base(y.w, 0)
  <2>1. y.w.raw = z.pos + z.read + 0 /\ y.w.raw <= Len(y.w.disk)
    BY <1>10, <1>11
  <2> QED BY <1>10, <1>11, <2>1 DEF Base
<1>13. Reads(y.w.st[0], y.w.disk, Capacity[0])
  BY <1>10, <1>11
<1>14. Bytes(y.w) = y.w.disk /\ Cur(y.w) = z.pos + z.head + 0
  BY <1>12, <1>13, ReadView
<1>15. Cur(a) = x.pos + x.head + 0 /\ Bytes(a) = f
  BY <1>2, ReadView
<1>16. Cur(w) = x.pos + x.head /\ Cur(y.w) = z.pos + z.head /\ Tell(y.w, 0) = z.pos + z.head
  <2>1. Tell(y.w, 0) = z.pos + z.head
    BY DEF Tell
  <2> HIDE DEF x, z
  <2>2. z.pos + z.head + 0 = z.pos + z.head /\ x.pos + x.head + 0 = x.pos + x.head
    BY <1>3, <1>11, SMTT(30)
  <2> QED BY <1>2, <1>14, <1>15, <2>1, <2>2
<1>17. Others(y.w, w)
  BY <1>2, <1>10 DEF Others
<1> QED BY <1>2, <1>9, <1>10, <1>12, <1>13, <1>14, <1>16, <1>17 DEF ReadResult, BaseReadOK

-----------------------------------------------------------------------------
(* Members *)

\* A base stream that stands in the archive.
Lies(w) == Base(w, 0) /\ w.disk = Archive /\ Reads(w.st[0], Archive, Capacity[0])

\* Its user sees the archive, and the position is the cursor.
LEMMA LiesFacts ==
    ASSUME NEW w, Lies(w)
    PROVE  w \in Worlds /\ Bytes(w) = Archive /\ Cur(w) = Tell(w, 0) /\ Tell(w, 0) \in Nat
<1>1. Base(w, 0) /\ Reads(w.st[0], w.disk, Capacity[0]) /\ w.disk = Archive
  BY DEF Lies
<1>2. Bytes(w) = Archive /\ Cur(w) = w.st[0].pos + w.st[0].head + 0
  BY <1>1, ReadView
<1>3. w \in Worlds /\ w.st[0].pos \in Nat /\ w.st[0].head \in Nat
  BY <1>1, BaseFacts
<1> QED BY <1>2, <1>3 DEF Tell

\* Only the members' streams differ.
LEMMA LiesSame ==
    ASSUME NEW w, Lies(w), NEW v \in Worlds, v.disk = w.disk, v.raw = w.raw, v.st[0] = w.st[0]
    PROVE  Lies(v) /\ Tell(v, 0) = Tell(w, 0)
BY DEF Lies, Base, Tell

\* The bytes of a member, and where they are.
LEMMA FileOfIs ==
    ASSUME NEW m \in Members
    PROVE  /\ FileOf(m) \in Seq(Byte) /\ Len(FileOf(m)) = MemberSize[m]
           /\ MemberSize[m] \in Nat /\ Offset[m] \in Nat /\ m \in Ids /\ m # 0
           /\ Capacity[m] \in Nat /\ Offset[m] + MemberSize[m] <= Len(Archive)
<1> DEFINE o == Offset[m]
           n == MemberSize[m]
           f == FileOf(m)
<1>1. /\ o \in Nat /\ n \in Nat /\ o + n <= Len(Archive) /\ Archive \in Seq(Byte)
      /\ m \in Ids /\ m # 0 /\ Capacity[m] \in Nat
  BY Ids0
<1>2. f = Cut(Archive, o, n)
  BY DEF FileOf
<1> HIDE DEF o, n, f
<1>3. f \in Seq(Byte) /\ Len(f) = n
  BY <1>1, <1>2, CutLen
<1> QED BY <1>1, <1>3 DEF o, n, f

\* A piece of a member is a piece of the archive.
LEMMA FileOfCut ==
    ASSUME NEW m \in Members, NEW p \in Nat, p <= MemberSize[m], NEW n \in Nat
    PROVE  /\ Cut(Archive, Offset[m] + p, Least(n, MemberSize[m] - p)) = Cut(FileOf(m), p, n)
           /\ Least(n, MemberSize[m] - p) \in Nat
<1> DEFINE o == Offset[m]
           z == MemberSize[m]
<1>1. o \in Nat /\ z \in Nat /\ o + z <= Len(Archive) /\ Archive \in Seq(Byte) /\ p \in 0..z
  BY Ids0
<1>2. FileOf(m) = Cut(Archive, o, z)
  BY DEF FileOf
<1>3. Least(n, z - p) \in Nat
  BY <1>1 DEF Least
<1> HIDE DEF o, z
<1>4. Cut(Cut(Archive, o, z), p, n) = Cut(Archive, o + p, Least(n, z - p))
  BY <1>1, CutCut
<1> QED BY <1>2, <1>3, <1>4 DEF o, z

\* VirtualStream::RawSeek takes the base to the place p of the member.
StandsAt(y, w, q) == Lies(y) /\ Others(y, w) /\ Tell(y, 0) = q

\* It does so from wherever the base stood.
LEMMA VirtualSeekFacts ==
    ASSUME NEW w, Lies(w), NEW m \in Members, NEW p \in Nat, p <= MemberSize[m],
           NEW y, y = VirtualSeek(w, m, p)
    PROVE  StandsAt(y, w, Offset[m] + p)
<1> DEFINE q == Offset[m] + p
<1>1. q \in Nat /\ q <= Len(Archive)
  BY FileOfIs, Ids0
<1>2. y = BaseSeek(w, q)
  BY DEF VirtualSeek
<1>3. Bytes(w) = Archive /\ Base(w, 0)
  BY LiesFacts DEF Lies
<1> HIDE DEF q
<1>4. Seeks(y, w, q)
  <2> q <= Len(Bytes(w))
    BY <1>1, <1>3
  <2> QED BY <1>1, <1>2, <1>3, BaseSeekFacts
<1>5. Lies(y) /\ Others(y, w) /\ Tell(y, 0) = q
  BY <1>3, <1>4 DEF Seeks, Lies
<1> QED BY <1>5 DEF StandsAt, q

\* VirtualStream::RawRead reads the member, wherever the base stood.
VirtualReadOK(y, w, m, n) ==
    /\ Lies(y.w) /\ Others(y.w, w) /\ y.w \in Worlds
    /\ y.data = Cut(FileOf(m), w.st[m].pos, n)

\* It does so, and stops at the end of the member.
LEMMA VirtualReadFacts ==
    ASSUME NEW w, Lies(w), NEW m \in Members, w.st[m].pos \in Nat, w.st[m].pos <= MemberSize[m],
           NEW n \in Nat, NEW y, y = VirtualRead(w, m, n)
    PROVE  VirtualReadOK(y, w, m, n)
<1> DEFINE p == w.st[m].pos
           o == Offset[m]
           a == IF Tell(w, 0) - o # p THEN VirtualSeek(w, m, p) ELSE w
           k == Least(n, MemberSize[m] - p)
<1>1. y = BaseRead(a, k)
  BY DEF VirtualRead
<1>2. p \in Nat /\ p <= MemberSize[m] /\ o \in Nat /\ Tell(w, 0) \in Nat
  BY LiesFacts, FileOfIs
<1>3. StandsAt(a, w, o + p)
  <2>1. CASE Tell(w, 0) - o # p
    <3>1. a = VirtualSeek(w, m, p)
      BY <2>1
    <3> HIDE DEF a, p
    <3> QED BY <1>2, <3>1, VirtualSeekFacts
  <2>2. CASE ~(Tell(w, 0) - o # p)
    <3>1. a = w
      BY <2>2
    <3>2. Tell(w, 0) = o + p
      <4> HIDE DEF p, o
      <4> QED BY <1>2, <2>2
    <3> QED BY <3>1, <3>2 DEF StandsAt, Others
  <2> QED BY <2>1, <2>2
<1> HIDE DEF a
<1>4. k \in Nat /\ Cut(Archive, o + p, k) = Cut(FileOf(m), p, n)
  <2> HIDE DEF p
  <2> QED BY <1>2, FileOfCut
<1> HIDE DEF k
<1>5. Lies(a) /\ Base(a, 0) /\ Bytes(a) = Archive /\ Cur(a) = o + p
  <2>1. Lies(a) /\ Tell(a, 0) = o + p
    BY <1>3 DEF StandsAt
  <2> QED BY <2>1, LiesFacts DEF Lies
<1>6. BaseReadOK(y, a, k)
  BY <1>1, <1>4, <1>5, BaseReadFacts
<1>7. Lies(y.w) /\ Others(y.w, a) /\ y.data = Cut(Archive, o + p, k)
  BY <1>5, <1>6 DEF BaseReadOK, Lies
<1>8. Others(y.w, w) /\ y.w \in Worlds
  BY <1>3, <1>7, LiesFacts DEF StandsAt, Others
<1> QED BY <1>4, <1>7, <1>8 DEF VirtualReadOK

-----------------------------------------------------------------------------
(* Calls on a stream of either kind *)

UsersOf(md) == IF md = "file" THEN {0} ELSE Members

\* The file of a stream that the program uses, and the stream's cursor in it.
Holds(w, s) == IF s = 0 THEN Bytes(w) ELSE FileOf(s)
At(w, s)    == IF s = 0 THEN Cur(w) ELSE Tell(w, s)

\* A call on stream s leaves its cursor at p, and nothing else that can be seen
\* has changed.
Moved(v, w, md, s, g, p) ==
    /\ Good(v, md, g) /\ Bytes(v) = Bytes(w) /\ At(v, s) = p
    /\ \A t \in Members \ {s} : v.st[t] = w.st[t]

\* A call on the file's stream that keeps the file's bytes moved its cursor only.
LEMMA FileMoved ==
    ASSUME NEW w, NEW g, Good(w, "file", g), NEW v, NEW h, Base(v, h), Others(v, w),
           Bytes(v) = Bytes(w), NEW p, Cur(v) = p
    PROVE  Moved(v, w, "file", 0, h, p)
BY DEF Good, Moved, Others, At

\* A call on a member's stream that keeps the others moved its cursor only.
LEMMA MemberMoved ==
    ASSUME NEW w, Good(w, "archive", 0), NEW m \in Members, NEW v, Lies(v),
           Reads(v.st[m], FileOf(m), Capacity[m]), \A t \in Members \ {m} : v.st[t] = w.st[t],
           NEW p, v.st[m].pos + v.st[m].head = p
    PROVE  Moved(v, w, "archive", m, 0, p)
<1>1. Lies(w)
  BY DEF Good, Lies
<1>2. Bytes(w) = Archive /\ Bytes(v) = Archive
  BY <1>1, LiesFacts
<1>3. \A t \in Members : Reads(v.st[t], FileOf(t), Capacity[t])
  <2> TAKE t \in Members
  <2>1. CASE t = m
    BY <2>1
  <2>2. CASE t # m
    BY <2>2 DEF Good
  <2> QED BY <2>1, <2>2
<1>4. At(v, m) = p
  BY Ids0 DEF At, Tell
<1>5. Good(v, "archive", 0)
  <2> Base(v, 0) /\ v.disk = Archive /\ Reads(v.st[0], Archive, Capacity[0])
    BY DEF Lies
  <2> QED BY <1>3 DEF Good
<1> QED BY <1>2, <1>4, <1>5 DEF Moved

\* What is known of a member's stream.
LEMMA MemberFacts ==
    ASSUME NEW w, Good(w, "archive", 0), NEW m \in Members
    PROVE  /\ Lies(w) /\ w \in Worlds /\ Reads(w.st[m], FileOf(m), Capacity[m])
           /\ w.st[m] \in Stream /\ w.st[m].head \in Nat /\ w.st[m].read \in Nat
           /\ w.st[m].pos \in Nat /\ w.st[m].head <= w.st[m].read
           /\ w.st[m].pos + w.st[m].read <= MemberSize[m]
           /\ Tell(w, m) = w.st[m].pos + w.st[m].head /\ Tell(w, m) \in Nat
           /\ Tell(w, m) <= MemberSize[m] /\ At(w, m) = Tell(w, m) /\ Holds(w, m) = FileOf(m)
<1> DEFINE x == w.st[m]
           f == FileOf(m)
           c == Capacity[m]
           n == MemberSize[m]
<1>1. Lies(w) /\ Reads(x, f, c)
  BY DEF Good, Lies
<1>2. f \in Seq(Byte) /\ Len(f) = n /\ n \in Nat /\ c \in Nat /\ m # 0
  BY FileOfIs
<1> HIDE DEF f, c, n
<1>3. /\ x \in Stream /\ x.head \in Nat /\ x.read \in Nat /\ x.pos \in Nat /\ x.head <= x.read
      /\ x.pos + x.read <= Len(f)
  <2> HIDE DEF x
  <2> QED BY <1>1, <1>2, ReadsFacts
<1>4. Tell(w, m) = x.pos + x.head
  BY DEF Tell
<1>5. Tell(w, m) \in Nat /\ Tell(w, m) <= n /\ x.pos + x.read <= n
  <2> HIDE DEF x
  <2> QED BY <1>2, <1>3, <1>4
<1>6. At(w, m) = Tell(w, m) /\ Holds(w, m) = FileOf(m)
  BY <1>2 DEF At, Holds
<1>7. w \in Worlds
  BY <1>1, LiesFacts
<1> QED BY <1>1, <1>3, <1>4, <1>5, <1>6, <1>7 DEF f, c, n

\* A member's stream is changed after the base was, perhaps, moved.
LEMMA MemberPut ==
    ASSUME NEW w, Good(w, "archive", 0), NEW m \in Members, NEW v, Lies(v),
           \A t \in Members \ {m} : v.st[t] = w.st[t],
           NEW z, Reads(z, FileOf(m), Capacity[m]), NEW y, With(y, v, m, z),
           NEW p, z.pos + z.head = p
    PROVE  Moved(y, w, "archive", m, 0, p) /\ Lies(y) /\ y.st[m] = z
<1>1. /\ y \in Worlds /\ y.disk = v.disk /\ y.raw = v.raw /\ y.st[m] = z
      /\ \A t \in Ids \ {m} : y.st[t] = v.st[t]
  BY DEF With
<1>2. y.st[0] = v.st[0]
  BY <1>1, Ids0
<1>3. Lies(y)
  BY <1>1, <1>2, LiesSame
<1>4. \A t \in Members \ {m} : y.st[t] = w.st[t]
  BY <1>1, Ids0
<1> QED BY <1>1, <1>3, <1>4, MemberMoved

\* Stream::Flush of a member's stream gives back what was read ahead.
LEMMA MemberFlush ==
    ASSUME NEW w, Good(w, "archive", 0), NEW m \in Members, NEW y, y = Flush(w, m)
    PROVE  /\ Moved(y, w, "archive", m, 0, Tell(w, m))
           /\ Lies(y) /\ y.st[m] = [Fresh EXCEPT !.pos = Tell(w, m)]
<1> DEFINE x == w.st[m]
           p == Tell(w, m)
           o == VirtualSeek(w, m, p)
           v == IF ReadAhead(x) THEN o ELSE IF Unwritten(x) THEN FileWrite(w, x.buf) ELSE w
           z == [Fresh EXCEPT !.pos = p]
<1>1. /\ Lies(w) /\ w \in Worlds /\ x.head \in Nat /\ x.read \in Nat /\ x.head <= x.read
      /\ p \in Nat /\ p <= MemberSize[m]
  BY MemberFacts
<1>2. /\ m # 0 /\ m \in Ids /\ FileOf(m) \in Seq(Byte) /\ Len(FileOf(m)) = MemberSize[m]
      /\ Capacity[m] \in Nat
  BY FileOfIs
<1>3. y = [v EXCEPT !.st[m] = z]
  BY <1>2 DEF Flush, Flushed
<1>4. ~Unwritten(x)
  BY <1>1 DEF Unwritten
<1>5. Lies(v) /\ Others(v, w)
  <2>1. CASE ReadAhead(x)
    <3>1. v = o
      BY <2>1
    <3>2. StandsAt(o, w, Offset[m] + p)
      <4> o = VirtualSeek(w, m, p)
        OBVIOUS
      <4> HIDE DEF o, p, v
      <4> QED BY <1>1, VirtualSeekFacts
    <3> QED BY <3>1, <3>2 DEF StandsAt
  <2>2. CASE ~ReadAhead(x)
    <3>1. v = w
      BY <1>4, <2>2
    <3> QED BY <1>1, <3>1 DEF Others
  <2> QED BY <2>1, <2>2
<1>6. z \in Stream /\ Reads(z, FileOf(m), Capacity[m]) /\ z.pos + z.head = p
  <2>1. z = [Fresh EXCEPT !.pos = p]
    OBVIOUS
  <2> HIDE DEF z, p, v
  <2>2. z \in Stream /\ z.pos = p /\ z.head = 0
    BY <1>1, <2>1, FreshAt
  <2>3. Reads(z, FileOf(m), Capacity[m])
    BY <1>1, <1>2, <2>1, FreshReads
  <2>4. p + 0 = p
    BY <1>1
  <2> QED BY <2>2, <2>3, <2>4
<1> HIDE DEF v
<1>7. v \in Worlds
  BY <1>5, LiesFacts
<1> HIDE DEF z, p
<1>8. With(y, v, m, z)
  BY <1>2, <1>3, <1>6, <1>7, WithStream
<1>9. Moved(y, w, "archive", m, 0, p) /\ Lies(y) /\ y.st[m] = z
  <2> \A t \in Members \ {m} : v.st[t] = w.st[t]
    BY <1>5 DEF Others
  <2> QED BY <1>5, <1>6, <1>8, MemberPut
<1> QED BY <1>9 DEF z, p

\* The cursor of a stream is set inside its buffer.
AtHead(x, k) == [x EXCEPT !.head = k]

Inside(z, x, f, c, k) ==
    /\ f \in Seq(Byte) /\ c \in Nat /\ Reads(x, f, c) /\ k \in Nat /\ k <= x.read
    /\ z = AtHead(x, k)

\* The stream stays a window on its file.
LEMMA Within ==
    ASSUME NEW z, NEW x, NEW f, NEW c, NEW k, Inside(z, x, f, c, k)
    PROVE  Reads(z, f, c) /\ z \in Stream /\ z.pos + z.head = x.pos + k /\ z.pos + z.read = x.pos + x.read
<1>1. x \in Stream /\ Reads(x, f, c) /\ k \in Nat /\ k <= x.read
  BY DEF Reads, Inside
<1>2. z \in Stream /\ z.head = k /\ z.read = x.read /\ z.pos = x.pos /\ z.buf = x.buf
  BY <1>1 DEF Stream, AtHead, Inside
<1> QED BY <1>1, <1>2 DEF Reads

\* Stream::Seek of a member's stream moves its cursor.
LEMMA MemberSeek ==
    ASSUME NEW w, Good(w, "archive", 0), NEW m \in Members, NEW p \in Nat, p <= MemberSize[m],
           NEW y, y = Seek(w, m, p)
    PROVE  Moved(y, w, "archive", m, 0, p)
<1> DEFINE x == w.st[m]
           u == Flush(w, m)
           k == p - x.pos
           t == [Fresh EXCEPT !.pos = p]
           q == [u EXCEPT !.st[m].pos = p]
           v == VirtualSeek(q, m, p)
<1>1. /\ Lies(w) /\ w \in Worlds /\ x.pos \in Nat /\ x.read \in Nat
      /\ Reads(x, FileOf(m), Capacity[m])
  BY MemberFacts
<1>2. /\ m # 0 /\ m \in Ids /\ FileOf(m) \in Seq(Byte) /\ Len(FileOf(m)) = MemberSize[m]
      /\ Capacity[m] \in Nat
  BY FileOfIs
<1>3. y = IF Buffered(x, p) THEN [w EXCEPT !.st[m].head = k] ELSE v
  BY <1>2 DEF Seek, Sought
<1>4. CASE Buffered(x, p)
  <2> DEFINE z == AtHead(x, k)
  <2>1. k \in Nat /\ k <= x.read /\ x.pos + k = p
    <3>1. k \in 0..(x.read - 1)
      BY <1>4 DEF Buffered
    <3>2. k = p - x.pos
      OBVIOUS
    <3> HIDE DEF k, x
    <3> QED BY <1>1, <3>1, <3>2
  <2>2. y = [w EXCEPT !.st[m].head = k]
    BY <1>3, <1>4
  <2>3. z = AtHead(x, k) /\ z = [x EXCEPT !.head = k]
    BY DEF AtHead
  <2> HIDE DEF k
  <2>4. y = [w EXCEPT !.st[m] = z]
    BY <2>2, <2>3
  <2> HIDE DEF z
  <2>5. Reads(z, FileOf(m), Capacity[m]) /\ z \in Stream /\ z.pos + z.head = p
    <3>1. Inside(z, x, FileOf(m), Capacity[m], k)
      BY <1>1, <1>2, <2>1, <2>3 DEF Inside
    <3> HIDE DEF x
    <3> QED BY <2>1, <3>1, Within
  <2>6. With(y, w, m, z)
    BY <1>1, <1>2, <2>4, <2>5, WithStream
  <2> QED BY <1>1, <2>5, <2>6, MemberPut
<1>5. CASE ~Buffered(x, p)
  <2>1. Moved(u, w, "archive", m, 0, Tell(w, m)) /\ Lies(u)
        /\ u.st[m] = [Fresh EXCEPT !.pos = Tell(w, m)]
    <3> u = Flush(w, m)
      OBVIOUS
    <3> HIDE DEF u
    <3> QED BY MemberFlush
  <2>2. t \in Stream /\ Reads(t, FileOf(m), Capacity[m]) /\ t.pos + t.head = p
    <3>1. t = [Fresh EXCEPT !.pos = p]
      OBVIOUS
    <3> HIDE DEF t
    <3>2. t \in Stream /\ t.pos = p /\ t.head = 0
      BY <3>1, FreshAt
    <3>3. Reads(t, FileOf(m), Capacity[m])
      BY <1>2, <3>1, FreshReads
    <3>4. p + 0 = p
      OBVIOUS
    <3> QED BY <3>2, <3>3, <3>4
  <2>3. y = v
    BY <1>3, <1>5
  <2> HIDE DEF u
  <2>4. u \in Worlds
    BY <2>1, LiesFacts
  <2>5. q = [u EXCEPT !.st[m] = t]
    <3>1. q = [u EXCEPT !.st[m] = [u.st[m] EXCEPT !.pos = p]]
      OBVIOUS
    <3>2. [u.st[m] EXCEPT !.pos = p] = t
      BY <2>1 DEF Fresh
    <3> QED BY <3>1, <3>2
  <2> HIDE DEF q, t
  <2>6. With(q, u, m, t)
    BY <1>2, <2>2, <2>4, <2>5, WithStream
  <2>7. q.st[m] = t /\ \A s \in Ids \ {m} : q.st[s] = u.st[s]
    BY <2>6 DEF With
  <2>8. Lies(q)
    <3> q \in Worlds /\ q.disk = u.disk /\ q.raw = u.raw /\ q.st[0] = u.st[0]
      BY <1>2, <2>6, Ids0 DEF With
    <3> QED BY <2>1, LiesSame
  <2>9. StandsAt(y, q, Offset[m] + p)
    BY <2>3, <2>8, VirtualSeekFacts
  <2>10. Lies(y) /\ Others(y, q)
    BY <2>9 DEF StandsAt
  <2>11. y.st[m] = t /\ \A s \in Members \ {m} : y.st[s] = w.st[s]
    BY <2>1, <2>7, <2>10, Ids0 DEF Others, Moved
  <2> QED BY <2>2, <2>10, <2>11, MemberMoved
<1> QED BY <1>4, <1>5

\* What a read of a stream gives, and where it leaves it.
ReadOK(y, w, md, s, n) ==
    /\ Moved(y.w, w, md, s, 0, At(w, s) + Len(y.data))
    /\ y.data = Cut(Holds(w, s), At(w, s), n) /\ y.data \in Seq(Byte)
    /\ (n = 1 => Returnable(y.w.st[s], Capacity[s], y.data))

\* Stream::Read of a member's stream returns the member's bytes at its cursor.
LEMMA MemberRead ==
    ASSUME NEW w, Good(w, "archive", 0), NEW m \in Members, NEW n \in Nat,
           NEW y, y = Read(w, m, n)
    PROVE  ReadOK(y, w, "archive", m, n)
<1> DEFINE x == w.st[m]
           f == FileOf(m)
           c == Capacity[m]
           k == Asked(w, m, n)
           v == Spent(w, m)
           r == VirtualRead(v, m, k)
           z == y.w.st[m]
<1>1. /\ Lies(w) /\ w \in Worlds /\ Reads(x, f, c) /\ x \in Stream
      /\ x.pos \in Nat /\ x.read \in Nat /\ x.head \in Nat /\ x.pos + x.read <= MemberSize[m]
      /\ Tell(w, m) = x.pos + x.head /\ At(w, m) = Tell(w, m) /\ Holds(w, m) = f
  BY MemberFacts
<1>2. /\ m # 0 /\ m \in Ids /\ f \in Seq(Byte) /\ Len(f) = MemberSize[m] /\ c \in Nat
      /\ MemberSize[m] \in Nat
  BY FileOfIs
<1>3. y = AfterRead(w, m, n, r)
  BY <1>2 DEF Read, Strict
<1>4. k \in Nat
  <2> HIDE DEF k
  <2>1. Reads(w.st[m], f, Capacity[m])
    BY <1>1
  <2> HIDE DEF f
  <2> QED BY <1>1, <1>2, <2>1, AskedIs DEF k
<1>5. /\ v \in Worlds /\ v.disk = w.disk /\ v.raw = w.raw
      /\ v.st[m].pos = x.pos + x.read /\ v.st[m].pos \in Nat
      /\ \A t \in Ids \ {m} : v.st[t] = w.st[t]
  <2> v = Spent(w, m)
    OBVIOUS
  <2> HIDE DEF v
  <2> QED BY <1>1, <1>2, SpentFacts
<1>6. VirtualReadOK(r, v, m, k)
  <2>1. v.st[0] = w.st[0]
    BY <1>2, <1>5, Ids0
  <2> HIDE DEF v
  <2>2. Lies(v)
    BY <1>1, <1>5, <2>1, LiesSame
  <2>3. r = VirtualRead(v, m, k) /\ v.st[m].pos <= MemberSize[m]
    BY <1>1, <1>5
  <2> HIDE DEF r, k, x, f, c
  <2> QED BY <1>4, <1>5, <2>2, <2>3, VirtualReadFacts
<1> HIDE DEF r
<1>7. /\ Lies(r.w) /\ Others(r.w, v) /\ r.w \in Worlds
      /\ r.data = Cut(f, x.pos + x.read, k)
  BY <1>5, <1>6 DEF VirtualReadOK
<1>8. AfterReadOK(y, w, r, m, f, n)
  <2>1. Reads(w.st[m], f, Capacity[m]) /\ r.w \in Worlds
        /\ r.data = Cut(f, w.st[m].pos + w.st[m].read, Asked(w, m, n))
    BY <1>1, <1>7
  <2> HIDE DEF f
  <2> QED BY <1>1, <1>2, <1>3, <2>1, AfterReadFacts
<1>9. ReadResult(x, z, f, c, n, y.data)
  BY <1>8 DEF AfterReadOK
<1> HIDE DEF v, k
<1>10. /\ Reads(z, f, c) /\ y.data = Cut(f, x.pos + x.head, n) /\ y.data \in Seq(Byte)
       /\ z.pos + z.head = Tell(w, m) + Len(y.data) /\ (n = 1 => Returnable(z, c, y.data))
  BY <1>1, <1>9 DEF ReadResult
<1>11. Moved(y.w, w, "archive", m, 0, Tell(w, m) + Len(y.data))
  <2>1. CASE Missing(x, n) = 0
    <3>1. With(y.w, w, m, z)
      BY <1>8, <2>1 DEF AfterReadOK
    <3> HIDE DEF z, x
    <3> QED BY <1>1, <1>10, <3>1, MemberPut
  <2>2. CASE Missing(x, n) # 0
    <3>1. With(y.w, r.w, m, z)
      BY <1>8, <2>2 DEF AfterReadOK
    <3>2. \A t \in Members \ {m} : r.w.st[t] = w.st[t]
      BY <1>5, <1>7, Ids0 DEF Others
    <3> HIDE DEF z, x
    <3> QED BY <1>7, <1>10, <3>1, <3>2, MemberPut
  <2> QED BY <2>1, <2>2
<1> QED BY <1>1, <1>10, <1>11 DEF ReadOK

\* What is seen of a stream in use.
Sees(w, s, g) ==
    /\ s \in Ids /\ Capacity[s] \in Nat /\ w \in Worlds
    /\ Holds(w, s) \in Seq(Byte) /\ Len(Holds(w, s)) \in Nat
    /\ At(w, s) \in Nat /\ At(w, s) <= Len(Holds(w, s)) /\ At(w, s) = Tell(w, s) + g
    /\ RawSize(w, s) \in Nat /\ Len(Holds(w, s)) - At(w, s) <= RawSize(w, s)
    /\ RawSize(w, s) <= Len(Holds(w, s)) /\ g \in Nat
    /\ (w.st[s].read > 0 =>
          g = 0 /\ Reads(w.st[s], Holds(w, s), Capacity[s])
          /\ At(w, s) = w.st[s].pos + w.st[s].head)

\* It holds of the file's stream,
LEMMA FileSees == ASSUME NEW w, NEW g, Good(w, "file", g) PROVE Sees(w, 0, g)
<1> DEFINE b == Bytes(w)
           p == Cur(w)
           n == Len(w.disk)
           l == Len(b)
           t == Tell(w, 0)
<1>1. Base(w, g) /\ Holds(w, 0) = b /\ At(w, 0) = p /\ RawSize(w, 0) = n
  BY DEF Good, Holds, At, RawSize
<1>2. /\ b \in Seq(Byte) /\ p \in Nat /\ p <= l /\ l \in Nat /\ n <= l /\ p = t + g
  BY <1>1, ViewFacts
<1>3. /\ w \in Worlds /\ n \in Nat /\ g \in Nat /\ w.st[0].head \in Nat /\ w.st[0].pos \in Nat
      /\ w.st[0].read \in Nat /\ w.raw \in Nat
      /\ w.raw = w.st[0].pos + w.st[0].read + g /\ (g > 0 => w.st[0].read = 0)
  BY <1>1, BaseFacts
<1> HIDE DEF b, p, n, l, t
<1>4. l - p <= n
  <2>1. CASE Reads(w.st[0], w.disk, Capacity[0])
    <3>1. l = n
      BY <1>1, <2>1, ReadView DEF b, n, l
    <3> QED BY <1>2, <1>3, <3>1
  <2>2. CASE Writes(w.st[0], Capacity[0])
    <3> DEFINE d == w.st[0].buf
               r == w.raw
    <3>1. Overlaid(b, w.disk, r, d) /\ p = r + w.st[0].head /\ w.st[0].head = Len(d)
      BY <1>1, <2>2, WriteView DEF b, p, Writes
    <3>2. l = IF r + Len(d) > n THEN r + Len(d) ELSE n
      BY <3>1 DEF Overlaid, l, n
    <3>3. p = r + Len(d) /\ Len(d) \in Nat /\ r \in Nat
      BY <1>3, <3>1
    <3> HIDE DEF d, r
    <3>4. CASE r + Len(d) > n
      BY <1>2, <1>3, <3>2, <3>3, <3>4
    <3>5. CASE ~(r + Len(d) > n)
      BY <1>2, <1>3, <3>2, <3>3, <3>5
    <3> QED BY <3>4, <3>5
  <2> QED BY <1>1, <2>1, <2>2 DEF Base
<1>5. ASSUME w.st[0].read > 0
      PROVE  g = 0 /\ Reads(w.st[0], b, Capacity[0]) /\ p = w.st[0].pos + w.st[0].head
  <2>1. g = 0
    BY <1>3, <1>5
  <2>2. Reads(w.st[0], w.disk, Capacity[0])
    BY <1>1, <1>5 DEF Base, Writes
  <2>3. b = w.disk
    BY <1>1, <2>2, ReadView DEF b
  <2>4. p = w.st[0].pos + w.st[0].head
    <3>1. t = w.st[0].pos + w.st[0].head
      BY DEF t, Tell
    <3> QED BY <1>2, <1>3, <2>1, <3>1
  <2> QED BY <2>1, <2>2, <2>3, <2>4
<1>6. 0 \in Ids /\ Capacity[0] \in Nat
  BY Ids0
<1> QED BY <1>1, <1>2, <1>3, <1>4, <1>5, <1>6 DEF Sees, t, l

\* and of every member's.
LEMMA MemberSees ==
    ASSUME NEW w, Good(w, "archive", 0), NEW m \in Members PROVE Sees(w, m, 0)
<1> DEFINE f == FileOf(m)
           t == Tell(w, m)
           n == MemberSize[m]
<1>1. m \in Ids /\ m # 0 /\ Capacity[m] \in Nat /\ f \in Seq(Byte) /\ Len(f) = n /\ n \in Nat
  BY FileOfIs
<1>2. /\ w \in Worlds /\ Reads(w.st[m], f, Capacity[m]) /\ t \in Nat /\ t <= n
      /\ At(w, m) = t /\ Holds(w, m) = f /\ t = w.st[m].pos + w.st[m].head
  BY MemberFacts
<1>3. RawSize(w, m) = n
  BY <1>1 DEF RawSize
<1> HIDE DEF f, n, t
<1>4. n - t <= n /\ t + 0 = t /\ n <= n
  BY <1>1, <1>2
<1> QED BY <1>1, <1>2, <1>3, <1>4 DEF Sees, t

\* The two kinds of programs.
LEMMA Kinds ==
    ASSUME NEW w, NEW md \in {"archive", "file"}, NEW g, Good(w, md, g), NEW s \in UsersOf(md)
    PROVE  /\ (md = "file" /\ s = 0) \/ (md = "archive" /\ s \in Members /\ s # 0 /\ g = 0)
           /\ Sees(w, s, g)
<1>1. CASE md = "file"
  <2>1. s = 0
    BY <1>1 DEF UsersOf
  <2> QED BY <1>1, <2>1, FileSees
<1>2. CASE md = "archive"
  <2>1. s \in Members /\ g = 0 /\ s # 0
    BY <1>2, Ids0 DEF UsersOf, Good
  <2> QED BY <1>2, <2>1, MemberSees
<1> QED BY <1>1, <1>2

\* One call after another.
LEMMA MovedTwice ==
    ASSUME NEW w, NEW md, NEW s, NEW g, NEW p, NEW v, Moved(v, w, md, s, g, p),
           NEW u, NEW h, NEW q, Moved(u, v, md, s, h, q)
    PROVE  Moved(u, w, md, s, h, q)
BY DEF Moved

\* What the next call finds.
LEMMA MovedHolds ==
    ASSUME NEW w, NEW md, NEW s, NEW g, NEW p, NEW v, Moved(v, w, md, s, g, p)
    PROVE  Holds(v, s) = Holds(w, s) /\ At(v, s) = p /\ Good(v, md, g)
BY DEF Moved, Holds

\* Flush, Seek and Read, of a file or of a member.
LEMMA FlushFacts ==
    ASSUME NEW w, NEW md \in {"archive", "file"}, NEW g, Good(w, md, g), NEW s \in UsersOf(md),
           NEW y, y = Flush(w, s)
    PROVE  Moved(y, w, md, s, g, At(w, s)) /\ y.disk = Bytes(w)
           /\ y.st[s].read = 0 /\ y.st[s].head = 0
<1>1. CASE md = "file" /\ s = 0
  <2>1. y = BaseFlush(w) /\ Base(w, g)
    BY <1>1 DEF Flush, Good
  <2>2. Flushes(y, w, g)
    BY <2>1, BaseFlushFacts
  <2>3. /\ Base(y, g) /\ Others(y, w) /\ Bytes(y) = Bytes(w) /\ Cur(y) = Cur(w)
        /\ y.disk = Bytes(w) /\ y.st[0].read = 0 /\ y.st[0].head = 0
    BY <2>2 DEF Flushes
  <2>4. Moved(y, w, "file", 0, g, Cur(w))
    BY <1>1, <2>3, FileMoved
  <2> QED BY <1>1, <2>3, <2>4 DEF At
<1>2. CASE md = "archive" /\ s \in Members /\ s # 0 /\ g = 0
  <2>1. Moved(y, w, "archive", s, 0, Tell(w, s)) /\ Lies(y)
        /\ y.st[s] = [Fresh EXCEPT !.pos = Tell(w, s)]
    BY <1>2, MemberFlush
  <2>2. y.disk = Archive /\ Bytes(w) = Archive
    BY <1>2, <2>1, LiesFacts DEF Lies, Good
  <2>3. y.st[s].read = 0 /\ y.st[s].head = 0
    BY <2>1 DEF Fresh
  <2> QED BY <1>2, <2>1, <2>2, <2>3 DEF At
<1> QED BY <1>1, <1>2, Kinds

\* A seek moves the cursor of the stream it is called on.
LEMMA SeekCallFacts ==
    ASSUME NEW w, NEW md \in {"archive", "file"}, NEW g, Good(w, md, g), NEW s \in UsersOf(md),
           NEW p \in Nat, p <= Len(Holds(w, s)), NEW y, y = Seek(w, s, p)
    PROVE  Moved(y, w, md, s, 0, p)
<1>1. CASE md = "file" /\ s = 0
  <2>1. y = BaseSeek(w, p) /\ Base(w, g) /\ p <= Len(Bytes(w))
    BY <1>1 DEF Seek, Good, Holds
  <2>2. Seeks(y, w, p)
    BY <2>1, BaseSeekFacts
  <2>3. Base(y, 0) /\ Others(y, w) /\ Bytes(y) = Bytes(w) /\ Cur(y) = p
    BY <2>2 DEF Seeks
  <2> QED BY <1>1, <2>3, FileMoved
<1>2. CASE md = "archive" /\ s \in Members /\ s # 0 /\ g = 0
  <2>1. p <= MemberSize[s]
    BY <1>2, FileOfIs DEF Holds
  <2> QED BY <1>2, <2>1, MemberSeek
<1> QED BY <1>1, <1>2, Kinds

\* A read returns the bytes at the cursor of the stream it is called on.
LEMMA ReadFacts ==
    ASSUME NEW w, NEW md \in {"archive", "file"}, Good(w, md, 0), NEW s \in UsersOf(md),
           NEW n \in Nat, NEW y, y = Read(w, s, n)
    PROVE  ReadOK(y, w, md, s, n)
<1>1. CASE md = "file" /\ s = 0
  <2>1. y = BaseRead(w, n) /\ Base(w, 0)
    BY <1>1 DEF Read, Good
  <2>2. BaseReadOK(y, w, n)
    BY <2>1, BaseReadFacts
  <2>3. /\ Base(y.w, 0) /\ Others(y.w, w) /\ Bytes(y.w) = Bytes(w)
        /\ y.data = Cut(Bytes(w), Cur(w), n) /\ y.data \in Seq(Byte)
        /\ Cur(y.w) = Cur(w) + Len(y.data)
        /\ (n = 1 => Returnable(y.w.st[0], Capacity[0], y.data))
    BY <2>2 DEF BaseReadOK
  <2>4. Moved(y.w, w, "file", 0, 0, Cur(w) + Len(y.data))
    BY <1>1, <2>3, FileMoved
  <2> QED BY <1>1, <2>3, <2>4 DEF At, Holds, ReadOK
<1>2. CASE md = "archive" /\ s \in Members /\ s # 0
  BY <1>2, MemberRead
<1> QED BY <1>1, <1>2, Kinds, SMTT(30)

\* The cursor moves inside the buffer.
LEMMA HeadMoved ==
    ASSUME NEW w, NEW md \in {"archive", "file"}, NEW g, Good(w, md, g), NEW s \in UsersOf(md),
           w.st[s].read > 0, NEW k \in Nat, k <= w.st[s].read,
           NEW z, z = AtHead(w.st[s], k), NEW y, With(y, w, s, z)
    PROVE  Moved(y, w, md, s, 0, w.st[s].pos + k)
<1> DEFINE x == w.st[s]
           p == x.pos + k
<1>1. Sees(w, s, g)
  BY Kinds
<1>2. Reads(x, Holds(w, s), Capacity[s]) /\ w \in Worlds /\ s \in Ids /\ g = 0
      /\ Capacity[s] \in Nat /\ Holds(w, s) \in Seq(Byte)
  BY <1>1 DEF Sees
<1>3. /\ Reads(z, Holds(w, s), Capacity[s]) /\ z \in Stream /\ z.pos + z.head = p
      /\ z.pos + z.read = x.pos + x.read
  <2> DEFINE f == Holds(w, s)
             c == Capacity[s]
  <2>1. Inside(z, x, f, c, k)
    BY <1>2 DEF Inside
  <2> HIDE DEF f, c, x
  <2>2. Reads(z, f, c) /\ z \in Stream /\ z.pos + z.head = x.pos + k
        /\ z.pos + z.read = x.pos + x.read
    BY <2>1, Within
  <2> QED BY <2>2 DEF f, c, x
<1>4. With(y, w, s, z)
  OBVIOUS
<1>5. CASE md = "file" /\ s = 0
  <2>1. /\ y \in Worlds /\ y.disk = w.disk /\ y.raw = w.raw /\ y.st[0] = z /\ Others(y, w)
    BY <1>4, <1>5, Ids0 DEF With, Others
  <2>2. Base(w, 0) /\ Reads(w.st[0], w.disk, Capacity[0])
    BY <1>2, <1>5 DEF Good, Base, Writes
  <2>3. Bytes(w) = w.disk /\ Holds(w, s) = w.disk
    BY <1>5, <2>2, ReadView DEF Holds
  <2>4. w.raw = x.pos + x.read + 0 /\ w.raw <= Len(w.disk)
    BY <1>5, <2>2, BaseFacts
  <2>5. z.pos + z.read + 0 = z.pos + z.read /\ x.pos + x.read + 0 = x.pos + x.read
        /\ z.pos + z.head + 0 = z.pos + z.head
    <3>1. z.pos \in Nat /\ z.read \in Nat /\ x.pos \in Nat /\ x.read \in Nat /\ z.head \in Nat
      BY <1>2, <1>3 DEF Reads, Stream
    <3> QED BY <3>1
  <2>6. Base(y, 0) /\ Reads(y.st[0], y.disk, Capacity[0])
    <3>1. Reads(z, y.disk, Capacity[0])
      BY <1>3, <1>5, <2>1, <2>3
    <3>2. y.raw = z.pos + z.read + 0
      <4> HIDE DEF x
      <4> QED BY <1>3, <2>1, <2>4, <2>5
    <3>3. y.raw <= Len(y.disk)
      BY <2>1, <2>4
    <3> QED BY <2>1, <3>1, <3>2, <3>3 DEF Base
  <2>7. Bytes(y) = Bytes(w) /\ Cur(y) = z.pos + z.head + 0
    BY <2>1, <2>3, <2>6, ReadView
  <2>8. Cur(y) = p
    BY <1>3, <2>5, <2>7
  <2> QED BY <1>2, <1>5, <2>1, <2>6, <2>7, <2>8, FileMoved
<1>6. CASE md = "archive" /\ s \in Members /\ s # 0
  <2>1. Lies(w) /\ Holds(w, s) = FileOf(s)
    BY <1>2, <1>6 DEF Good, Lies, Holds
  <2>2. Reads(z, FileOf(s), Capacity[s]) /\ Good(w, "archive", 0)
    BY <1>2, <1>3, <1>6, <2>1
  <2> HIDE DEF p
  <2>3. Moved(y, w, "archive", s, 0, p)
    BY <1>3, <1>4, <1>6, <2>1, <2>2, MemberPut
  <2> QED BY <1>6, <2>3 DEF p
<1> QED BY <1>5, <1>6, Kinds

\* GetCh is a read of one byte, with or without a call of Read.
LEMMA GetChFacts ==
    ASSUME NEW w, NEW md \in {"archive", "file"}, Good(w, md, 0), NEW s \in UsersOf(md),
           NEW y, y = GetCh(w, s)
    PROVE  ReadOK(y, w, md, s, 1)
<1> DEFINE x == w.st[s]
           f == Holds(w, s)
           c == Capacity[s]
           q == At(w, s)
<1>1. CASE x.head < x.read
  <2> DEFINE k == x.head + 1
             z == AtHead(x, k)
             d == <<x.buf[k]>>
             v == [w EXCEPT !.st[s] = z]
  <2>1. Sees(w, s, 0)
    BY Kinds
  <2>2. w \in Worlds /\ s \in Ids /\ c \in Nat /\ f \in Seq(Byte) /\ q \in Nat /\ Len(f) \in Nat
    BY <2>1 DEF Sees
  <2>3. x \in Stream /\ x.head \in Nat /\ x.read \in Nat /\ x.pos \in Nat
    <3>1. x \in Stream
      BY <2>2 DEF Worlds
    <3> HIDE DEF x
    <3> QED BY <3>1 DEF Stream
  <2>4. x.read > 0 /\ k \in Nat /\ k <= x.read /\ k > 0
    <3> HIDE DEF x
    <3> QED BY <1>1, <2>3
  <2>5. Reads(x, f, c) /\ q = x.pos + x.head
    BY <2>1, <2>4 DEF Sees
  <2>6. y.w = v /\ y.data = d
    <3>1. y = [w |-> [w EXCEPT !.st[s].head = @ + 1], data |-> <<x.buf[x.head + 1]>>]
      BY <1>1 DEF GetCh
    <3>2. [w EXCEPT !.st[s].head = @ + 1] = v
      BY DEF AtHead
    <3> QED BY <3>1, <3>2
  <2>7. z \in Stream /\ Reads(z, f, c)
    <3>1. Inside(z, x, f, c, k)
      BY <2>2, <2>4, <2>5 DEF Inside
    <3> HIDE DEF x, f, c, k, z
    <3> QED BY <3>1, Within
  <2>8. With(v, w, s, z)
    <3> v = [w EXCEPT !.st[s] = z]
      OBVIOUS
    <3> HIDE DEF v, z
    <3> QED BY <2>2, <2>7, WithStream
  <2>9. Moved(v, w, md, s, 0, x.pos + k)
    <3>1. w.st[s].read > 0 /\ k <= w.st[s].read /\ z = AtHead(w.st[s], k)
      BY <2>4
    <3> HIDE DEF v, z, k
    <3>2. Moved(v, w, md, s, 0, w.st[s].pos + k)
      BY <2>4, <2>8, <3>1, HeadMoved
    <3> QED BY <3>2
  <2>10. x.buf[k] = f[x.pos + k] /\ x.pos + k = q + 1 /\ q + 1 <= Len(f) /\ x.buf \in Seq(Byte)
         /\ Len(x.buf) = x.read
    <3>1. /\ \A i \in 1..x.read : x.buf[i] = f[x.pos + i]
          /\ x.pos + x.read <= Len(f) /\ x.buf \in Seq(Byte) /\ Len(x.buf) = x.read
      <4> HIDE DEF x, f, c, k
      <4> QED BY <2>2, <2>5, ReadsFacts
    <3>2. k \in 1..x.read
      <4> HIDE DEF k, x
      <4> QED BY <2>3, <2>4
    <3>3. x.pos + k = q + 1 /\ q + 1 <= Len(f)
      <4>1. k = x.head + 1
        OBVIOUS
      <4> HIDE DEF x, q, f, k
      <4> QED BY <2>2, <2>3, <2>4, <2>5, <3>1, <4>1, SMTT(30)
    <3> HIDE DEF k
    <3> QED BY <3>1, <3>2, <3>3
  <2>11. d \in Seq(Byte) /\ Len(d) = 1 /\ d[1] = x.buf[k] /\ d # <<>>
    <3> DEFINE b == x.buf[k]
    <3>1. b \in Byte
      <4>1. k \in 1..Len(x.buf)
        <5> HIDE DEF k, x
        <5> QED BY <2>3, <2>4, <2>10
      <4> HIDE DEF k
      <4> QED BY <2>10, <4>1
    <3> HIDE DEF b
    <3>2. <<b>> \in Seq(Byte) /\ Len(<<b>>) = 1 /\ <<b>>[1] = b /\ <<b>> # <<>>
      BY <3>1
    <3> QED BY <3>2 DEF b
  <2>12. d = Cut(f, q, 1)
    <3>1. Least(1, Len(f) - q) = 1 /\ q <= Len(f)
      <4> HIDE DEF q, f
      <4> QED BY <2>2, <2>10 DEF Least
    <3>2. \A i \in 1..Len(d) : d[i] = f[q + i]
      <4>1. d[1] = f[q + 1]
        BY <2>10, <2>11
      <4> HIDE DEF d, q, f
      <4> QED BY <2>11, <4>1
    <3> DEFINE n == 1
    <3>3. /\ f \in Seq(Byte) /\ q \in Nat /\ n \in Nat /\ q <= Len(f) /\ d \in Seq(Byte)
          /\ Len(d) = Least(n, Len(f) - q) /\ \A i \in 1..Len(d) : d[i] = f[q + i]
      BY <2>2, <2>11, <3>1, <3>2
    <3> HIDE DEF d, q, f, n
    <3>4. d = Cut(f, q, n)
      BY <3>3, IsCut
    <3> QED BY <3>4 DEF n
  <2>13. Returnable(z, c, d)
    <3>1. z.read = x.read /\ z.head = k /\ z.buf = x.buf
      <4> HIDE DEF k, x
      <4> QED BY <2>3 DEF AtHead, Stream
    <3> QED BY <2>4, <2>11, <3>1 DEF Returnable
  <2>14. v.st[s] = z
    BY <2>8 DEF With
  <2> HIDE DEF v, z, d, k
  <2>15. Moved(v, w, md, s, 0, q + Len(d))
    BY <2>9, <2>10, <2>11
  <2> QED BY <2>6, <2>11, <2>12, <2>13, <2>14, <2>15 DEF ReadOK
<1>2. CASE ~(x.head < x.read)
  <2>1. y = Read(w, s, 1)
    BY <1>2 DEF GetCh
  <2> DEFINE n == 1
  <2>2. n \in Nat /\ y = Read(w, s, n)
    BY <2>1
  <2> HIDE DEF n
  <2>3. ReadOK(y, w, md, s, n)
    BY <2>2, ReadFacts
  <2> QED BY <2>3 DEF n
<1> QED BY <1>1, <1>2

\* A byte that was just read goes back.
LEMMA UnGetFacts ==
    ASSUME NEW w, NEW md \in {"archive", "file"}, NEW g, Good(w, md, g), NEW s \in UsersOf(md),
           Capacity[s] > 0, NEW d, d # <<>>, Returnable(w.st[s], Capacity[s], d),
           NEW y, y = UnGet(w, s, d)
    PROVE  Moved(y, w, md, s, 0, At(w, s) - 1) /\ g = 0
<1> DEFINE x == w.st[s]
           k == x.head - 1
           z == AtHead(x, k)
<1>1. x.read > 0 /\ x.head > 0 /\ x.buf[x.head] = d[1]
  BY DEF Returnable
<1>2. Sees(w, s, g)
  BY Kinds
<1>3. /\ w \in Worlds /\ s \in Ids /\ g = 0 /\ At(w, s) = x.pos + x.head
      /\ Reads(x, Holds(w, s), Capacity[s])
  BY <1>1, <1>2 DEF Sees
<1>4. x \in Stream /\ x.head \in Nat /\ x.read \in Nat /\ x.pos \in Nat /\ x.head <= x.read
      /\ x.buf \in Seq(Byte)
  <2>1. x \in Stream /\ x.head <= x.read
    BY <1>3 DEF Reads
  <2> HIDE DEF x
  <2> QED BY <2>1 DEF Stream
<1>5. k \in Nat /\ k <= x.read /\ x.pos + k = At(w, s) - 1
  <2> HIDE DEF x
  <2> QED BY <1>1, <1>3, <1>4
<1>6. y = [w EXCEPT !.st[s] = z]
  <2>1. x.read # 0 /\ x.head # 0
    BY <1>1, <1>4
  <2>2. y = [w EXCEPT !.st[s].buf[x.head] = d[1], !.st[s].head = @ - 1]
    BY <2>1 DEF UnGet
  <2>3. [x EXCEPT !.buf[x.head] = d[1], !.head = @ - 1] = z
    <3>1. [x.buf EXCEPT ![x.head] = d[1]] = x.buf
      BY <1>1, <1>4
    <3>2. [x EXCEPT !.buf[x.head] = d[1], !.head = @ - 1]
            = [x EXCEPT !.buf = [x.buf EXCEPT ![x.head] = d[1]], !.head = k]
      OBVIOUS
    <3>3. [x EXCEPT !.buf = x.buf, !.head = k] = [x EXCEPT !.head = k]
      BY <1>4 DEF Stream
    <3> QED BY <3>1, <3>2, <3>3 DEF AtHead
  <2>4. [w EXCEPT !.st[s].buf[x.head] = d[1], !.st[s].head = @ - 1]
          = [w EXCEPT !.st[s] = [x EXCEPT !.buf[x.head] = d[1], !.head = @ - 1]]
    BY <1>3 DEF Worlds
  <2> QED BY <2>2, <2>3, <2>4
<1>7. z \in Stream
  <2> HIDE DEF x, k
  <2> QED BY <1>4, <1>5 DEF AtHead, Stream
<1>8. z = AtHead(w.st[s], k) /\ k <= w.st[s].read /\ w.st[s].read > 0
  BY <1>1, <1>5
<1> HIDE DEF z, k
<1>9. With(y, w, s, z)
  BY <1>3, <1>6, <1>7, WithStream
<1>10. Moved(y, w, md, s, 0, w.st[s].pos + k)
  BY <1>5, <1>8, <1>9, HeadMoved
<1> QED BY <1>3, <1>5, <1>10

-----------------------------------------------------------------------------
(* Lines *)

\* A single byte of a file, or none at its end.
OneByte(d, f, q) ==
    /\ d \in Seq(Byte)
    /\ (q = Len(f) => d = <<>> /\ Len(d) = 0)
    /\ (q < Len(f) => /\ Len(d) = 1 /\ d[1] = f[q + 1] /\ d # <<>>
                      /\ (d = <<NewLine>>) = (f[q + 1] = NewLine))

\* A read of one byte.
LEMMA OneByteIs ==
    ASSUME NEW f \in Seq(Byte), NEW q \in Nat, q <= Len(f), NEW d, d = Cut(f, q, 1)
    PROVE  OneByte(d, f, q)
<1> DEFINE n == 1
           l == Len(f)
<1>1. d \in Seq(Byte) /\ Len(d) = Least(n, l - q) /\ \A i \in 1..Len(d) : d[i] = f[q + i]
  <2>1. n \in Nat /\ d = Cut(f, q, n)
    OBVIOUS
  <2> HIDE DEF n
  <2> QED BY <2>1, CutIs
<1>2. l \in Nat
  OBVIOUS
<1>3. CASE q = l
  <2>1. Len(d) = 0
    <3> Least(1, l - q) = 0
      <4> HIDE DEF l
      <4> QED BY <1>2, <1>3 DEF Least
    <3> QED BY <1>1
  <2>2. d = <<>>
    BY <1>1, <2>1
  <2> QED BY <1>1, <1>3, <2>1, <2>2 DEF OneByte
<1>4. CASE q < l
  <2>1. Len(d) = 1
    <3> Least(1, l - q) = 1
      <4> HIDE DEF l
      <4> QED BY <1>2, <1>4 DEF Least
    <3> QED BY <1>1
  <2>2. d[1] = f[q + 1]
    BY <1>1, <2>1
  <2>3. d = <<d[1]>>
    BY <1>1, <2>1
  <2>4. d # <<>>
    BY <2>1
  <2>5. (d = <<NewLine>>) = (d[1] = NewLine)
    BY <2>3
  <2> QED BY <1>1, <1>4, <2>1, <2>2, <2>4, <2>5 DEF OneByte
<1>5. q = l \/ q < l
  <2>1. q <= l
    OBVIOUS
  <2> HIDE DEF l
  <2> QED BY <1>2, <2>1
<1> QED BY <1>3, <1>4, <1>5

\* Gets after i rounds, of a call that found world w: what it has is the part of
\* the file behind the cursor, without a newline but for the last byte.
LineState(g, w, md, s, i) ==
    /\ Moved(g.w, w, md, s, 0, At(w, s) + Len(g.data))
    /\ g.data \in Seq(Byte) /\ g.data = Cut(Holds(w, s), At(w, s), Len(g.data))
    /\ At(w, s) + Len(g.data) <= Len(Holds(w, s))
    /\ g.done \in BOOLEAN
    /\ \A j \in 1..Len(g.data) : g.data[j] = NewLine => j = Len(g.data) /\ g.done
    /\ g.done => \/ At(w, s) + Len(g.data) = Len(Holds(w, s))
                 \/ Len(g.data) > 0 /\ g.data[Len(g.data)] = NewLine
    /\ ~g.done => Len(g.data) = i

\* NextCh is GetCh.
LEMMA NextIs == ASSUME NEW w, NEW s PROVE NextCh(w, s) = GetCh(w, s)
BY DEF NextCh, Strict

\* A round of Gets that is not done adds a byte.
LEMMA GetsStepIs ==
    ASSUME NEW s, NEW g, ~g.done, NEW c, c = GetCh(g.w, s)
    PROVE  GetsStep(s, g) = [w |-> c.w, data |-> g.data \o c.data,
                             done |-> c.data = <<>> \/ c.data = <<NewLine>>]
BY NextIs DEF GetsStep, Strict

\* A round of Gets keeps what is known of the line.
LEMMA GetsStepFacts ==
    ASSUME NEW w, NEW md \in {"archive", "file"}, Good(w, md, 0), NEW s \in UsersOf(md),
           NEW i \in Nat, NEW g, LineState(g, w, md, s, i), NEW h, h = GetsStep(s, g)
    PROVE  LineState(h, w, md, s, i + 1)
<1>1. CASE g.done
  <2> h = g
    BY <1>1 DEF GetsStep
  <2> QED BY <1>1 DEF LineState
<1>2. CASE ~g.done
  <2> DEFINE c == GetCh(g.w, s)
             f == Holds(w, s)
             p == At(w, s)
             b == g.data
             n == Len(b)
             q == p + n
             e == c.data
             d == b \o e
  <2>1. /\ h = [w |-> c.w, data |-> d, done |-> e = <<>> \/ e = <<NewLine>>]
    BY <1>2, GetsStepIs
  <2>2. h.w = c.w /\ h.data = d /\ h.done = (e = <<>> \/ e = <<NewLine>>)
    <3> DEFINE o == e = <<>> \/ e = <<NewLine>>
               v == c.w
    <3>1. h = [w |-> v, data |-> d, done |-> o]
      BY <2>1
    <3> HIDE DEF o, v, d
    <3>2. h.w = v /\ h.data = d /\ h.done = o
      BY <3>1
    <3> QED BY <3>2 DEF o, v
  <2>3. /\ Moved(g.w, w, md, s, 0, q) /\ b \in Seq(Byte) /\ b = Cut(f, p, n) /\ q <= Len(f)
        /\ n = i /\ \A j \in 1..n : b[j] # NewLine
    BY <1>2 DEF LineState
  <2>4. f \in Seq(Byte) /\ Len(f) \in Nat /\ p \in Nat /\ n \in Nat /\ q \in Nat
    <3>1. Sees(w, s, 0)
      BY Kinds
    <3>2. f \in Seq(Byte) /\ Len(f) \in Nat /\ p \in Nat
      BY <3>1 DEF Sees
    <3>3. n \in Nat
      BY <2>3
    <3> QED BY <3>2, <3>3
  <2>5. Good(g.w, md, 0) /\ Holds(g.w, s) = f /\ At(g.w, s) = q
    <3> HIDE DEF f, q
    <3> QED BY <2>3, MovedHolds DEF f
  <2>6. ReadOK(c, g.w, md, s, 1)
    <3> c = GetCh(g.w, s)
      OBVIOUS
    <3> HIDE DEF c
    <3> QED BY <2>5, GetChFacts
  <2> HIDE DEF c
  <2>7. Moved(c.w, g.w, md, s, 0, q + Len(e)) /\ e = Cut(f, q, 1) /\ e \in Seq(Byte)
    BY <2>5, <2>6 DEF ReadOK
  <2>8. Moved(h.w, w, md, s, 0, q + Len(e))
    <3> HIDE DEF q, e
    <3> QED BY <2>2, <2>3, <2>7, MovedTwice
  <2>9. OneByte(e, f, q)
    <3> HIDE DEF f, q, e
    <3> QED BY <2>3, <2>4, <2>7, OneByteIs
  <2>10. d \in Seq(Byte) /\ Len(d) = n + Len(e) /\ (\A j \in 1..n : d[j] = b[j])
         /\ \A j \in 1..Len(e) : d[n + j] = e[j]
    <3>1. b \in Seq(Byte) /\ e \in Seq(Byte) /\ d = b \o e
      BY <2>3, <2>7
    <3> HIDE DEF d, b, e
    <3>2. /\ d \in Seq(Byte) /\ Len(d) = Len(b) + Len(e) /\ (\A j \in 1..Len(b) : d[j] = b[j])
          /\ \A j \in 1..Len(e) : d[Len(b) + j] = e[j]
      BY <3>1, Joined
    <3> QED BY <3>2
  <2>11. d = Cut(f, p, n + 1)
    <3>1. Cut(f, p, n) \o Cut(f, p + n, 1) = Cut(f, p, n + 1)
      <4> DEFINE o == 1
      <4>1. o \in Nat /\ p + n <= Len(f)
        BY <2>3
      <4>3. f \in Seq(Byte) /\ p \in Nat /\ n \in Nat
        BY <2>4
      <4> HIDE DEF o, f, p, n
      <4>2. Cut(f, p, n) \o Cut(f, p + n, o) = Cut(f, p, n + o)
        BY <4>1, <4>3, CutJoin
      <4> QED BY <4>2 DEF o
    <3>2. d = Cut(f, p, n) \o Cut(f, p + n, 1)
      BY <2>3, <2>7
    <3> HIDE DEF d
    <3> QED BY <3>1, <3>2
  <2>12. q + Len(e) = p + Len(d)
    <3>1. Len(e) \in Nat
      BY <2>7
    <3>2. q = p + n
      OBVIOUS
    <3> HIDE DEF q, p, n, e, d
    <3> QED BY <2>4, <2>10, <3>1, <3>2
  <2>13. CASE q = Len(f)
    <3>1. e = <<>> /\ Len(e) = 0
      BY <2>9, <2>13 DEF OneByte
    <3>2. h.done /\ h.done \in BOOLEAN
      BY <2>2, <3>1
    <3> HIDE DEF q, p, n, e, d, f, b
    <3>3. Len(d) = n /\ p + Len(d) = Len(f)
      BY <2>4, <2>10, <2>12, <2>13, <3>1
    <3>4. d = b
      <4> d = b \o <<>>
        BY <3>1 DEF d
      <4> QED BY <2>3
    <3>5. d = Cut(f, p, Len(d)) /\ \A j \in 1..Len(d) : d[j] # NewLine
      BY <2>3, <3>3, <3>4
    <3> QED BY <2>2, <2>4, <2>8, <2>10, <2>12, <3>2, <3>3, <3>5 DEF LineState, f, p
  <2>14. CASE q < Len(f)
    <3>1. /\ Len(e) = 1 /\ e[1] = f[q + 1] /\ e # <<>>
          /\ (e = <<NewLine>>) = (f[q + 1] = NewLine)
      BY <2>9, <2>14 DEF OneByte
    <3>2. h.done \in BOOLEAN /\ h.done = (e[1] = NewLine)
      BY <2>2, <3>1
    <3> HIDE DEF e, d, f, b
    <3>3. Len(d) = n + 1 /\ p + Len(d) <= Len(f) /\ d[n + 1] = e[1]
      <4>1. d[n + 1] = e[1]
        BY <2>10, <3>1
      <4>2. q = p + n
        OBVIOUS
      <4> HIDE DEF p, n, q
      <4>3. Len(d) = n + 1
        BY <2>10, <3>1
      <4> QED BY <2>4, <2>12, <2>14, <3>1, <4>1, <4>3
    <3> HIDE DEF p, n, q
    <3>4. \A j \in 1..Len(d) : d[j] = NewLine => j = Len(d) /\ h.done
      <4> SUFFICES ASSUME NEW j \in 1..Len(d), d[j] = NewLine PROVE j = Len(d) /\ h.done
        OBVIOUS
      <4>1. CASE j \in 1..n
        BY <2>3, <2>10, <4>1
      <4>2. CASE j = n + 1
        BY <3>2, <3>3, <4>2
      <4>3. j \in 1..n \/ j = n + 1
        <5> n \in Nat /\ j \in 1..(n + 1)
          BY <2>4, <3>3
        <5> QED OBVIOUS
      <4> QED BY <4>1, <4>2, <4>3
    <3>5. h.done => Len(d) > 0 /\ d[Len(d)] = NewLine
      <4>1. Len(d) > 0 /\ d[Len(d)] = e[1]
        BY <2>4, <3>3
      <4> QED BY <3>2, <4>1, Zenon
    <3>6. ~h.done => Len(d) = i + 1
      BY <2>3, <3>3 
    <3>7. d = Cut(f, p, Len(d))
      BY <2>11, <3>3
    <3> QED BY <2>2, <2>8, <2>10, <2>12, <3>2, <3>3, <3>4, <3>5, <3>6, <3>7 DEF LineState, f, p
  <2> QED BY <2>3, <2>4, <2>13, <2>14
<1> QED BY <1>1, <1>2

\* The rounds of Gets, as a function of their number.
GetsRun(f, n, w, s) ==
    f = [i \in 0..n |-> IF i = 0 THEN [w |-> w, data |-> <<>>, done |-> FALSE]
                        ELSE Strict(LAMBDA g : GetsStep(s, g), f[i - 1])]

\* There is such a function.
LEMMA GetsRuns == ASSUME NEW w, NEW s, NEW m \in Nat PROVE \E f : GetsRun(f, m, w, s)
<1> DEFINE first == [w |-> w, data |-> <<>>, done |-> FALSE]
           S == {n \in Nat : ~ \E f : GetsRun(f, n, w, s)}
<1>0. ASSUME NEW f, NEW n
      PROVE  GetsRun(f, n, w, s)
               <=> f = [i \in 0..n |-> IF i = 0 THEN first ELSE GetsStep(s, f[i - 1])]
  BY DEF GetsRun, Strict
<1> HIDE DEF first
<1>1. SUFFICES ASSUME S # {} PROVE FALSE
  OBVIOUS
<1>2. PICK k \in S : \A n \in S : k <= n
  BY <1>1, LeastExists
<1>3. k \in Nat /\ ~ \E f : GetsRun(f, k, w, s)
  OBVIOUS
<1>4. CASE k = 0
  <2> DEFINE h == [n \in 0..0 |-> first]
  <2>1. h = [n \in 0..0 |-> IF n = 0 THEN first ELSE GetsStep(s, h[n - 1])]
    OBVIOUS
  <2> HIDE DEF h
  <2>2. GetsRun(h, 0, w, s)
    BY <1>0, <2>1
  <2> QED BY <1>3, <1>4, <2>2
<1>5. CASE k # 0
  <2>1. k - 1 \in Nat /\ ~(k <= k - 1)
    BY <1>3, <1>5
  <2>2. PICK f : GetsRun(f, k - 1, w, s)
    BY <1>2, <2>1
  <2> DEFINE h == [n \in 0..k |-> IF n = k THEN GetsStep(s, f[k - 1]) ELSE f[n]]
  <2>3. \A n \in 0..(k - 1) : f[n] = IF n = 0 THEN first ELSE GetsStep(s, f[n - 1])
    <3>1. f = [n \in 0..(k - 1) |-> IF n = 0 THEN first ELSE GetsStep(s, f[n - 1])]
      BY <1>0, <2>2, Zenon
    <3> QED BY <3>1
  <2>4. ASSUME NEW n \in 0..k
        PROVE  h[n] = IF n = 0 THEN first ELSE GetsStep(s, h[n - 1])
    <3>1. CASE n = k
      <4>1. h[n] = GetsStep(s, f[k - 1])
        BY <3>1
      <4>2. h[k - 1] = f[k - 1]
        BY <2>1
      <4> QED BY <1>5, <3>1, <4>1, <4>2
    <3>2. CASE n # k
      <4>1. n \in 0..(k - 1) /\ h[n] = f[n]
        BY <1>3, <3>2
      <4>2. n # 0 => h[n - 1] = f[n - 1]
        BY <1>3, <3>2
      <4> QED BY <2>3, <4>1, <4>2
    <3> QED BY <3>1, <3>2
  <2>5. h = [n \in 0..k |-> h[n]]
    OBVIOUS
  <2> HIDE DEF h
  <2>6. [n \in 0..k |-> h[n]] = [n \in 0..k |-> IF n = 0 THEN first ELSE GetsStep(s, h[n - 1])]
    BY <2>4
  <2>7. GetsRun(h, k, w, s)
    BY <1>0, <2>5, <2>6
  <2> QED BY <1>3, <2>7
<1> QED BY <1>4, <1>5

\* A call of Gets is its last round.
LEMMA GetsIs ==
    ASSUME NEW w, NEW s, RawSize(w, s) \in Nat
    PROVE  \E f : /\ GetsRun(f, RawSize(w, s) + 1, w, s)
                  /\ Gets(w, s) = f[RawSize(w, s) + 1]
<1> DEFINE n == RawSize(w, s) + 1
           f == CHOOSE round : GetsRun(round, n, w, s)
<1>1. n \in Nat
  OBVIOUS
<1>2. Gets(w, s) = f[n]
  BY Zenon DEF Gets, GetsRun
<1> HIDE DEF n
<1>3. GetsRun(f, n, w, s)
  BY <1>1, GetsRuns
<1> HIDE DEF f
<1> QED BY <1>2, <1>3 DEF n

\* What a run's rounds leave.
LEMMA GetsRounds ==
    ASSUME NEW w, NEW md \in {"archive", "file"}, Good(w, md, 0), NEW s \in UsersOf(md),
           NEW m \in Nat, NEW f, GetsRun(f, m, w, s)
    PROVE  LineState(f[m], w, md, s, m)
<1> DEFINE first == [w |-> w, data |-> <<>>, done |-> FALSE]
<1>1. \A n \in 0..m : f[n] = IF n = 0 THEN first ELSE GetsStep(s, f[n - 1])
  <2>1. f = [i \in 0..m |-> IF i = 0 THEN first ELSE GetsStep(s, f[i - 1])]
    BY DEF GetsRun, Strict
  <2> HIDE DEF first
  <2> QED BY <2>1
<1>2. LineState(first, w, md, s, 0)
  <2> DEFINE e == <<>>
             p == At(w, s)
  <2>1. Sees(w, s, 0)
    BY Kinds
  <2>2. Holds(w, s) \in Seq(Byte) /\ p \in Nat /\ p <= Len(Holds(w, s))
    BY <2>1 DEF Sees
  <2>3. e \in Seq(Byte) /\ Len(e) = 0 /\ p + 0 = p /\ ~(\E j \in 1..0 : TRUE)
    BY <2>2
  <2>4. Cut(Holds(w, s), p, 0) = <<>>
    BY <2>2, CutNone
  <2>5. Moved(w, w, md, s, 0, p)
    BY DEF Moved
  <2>6. first.w = w /\ first.data = e /\ first.done = FALSE
    OBVIOUS
  <2>7. e = Cut(Holds(w, s), p, 0)
    BY <2>4
  <2> HIDE DEF first, e
  <2> QED BY <2>2, <2>3, <2>5, <2>6, <2>7 DEF LineState
<1> HIDE DEF first
<1> DEFINE S == {n \in Nat : n <= m /\ ~LineState(f[n], w, md, s, n)}
<1>3. S = {}
  <2>1. SUFFICES ASSUME S # {} PROVE FALSE
    OBVIOUS
  <2>2. PICK k \in S : \A n \in S : k <= n
    BY <2>1, LeastExists
  <2>3. k \in Nat /\ k <= m /\ ~LineState(f[k], w, md, s, k)
    OBVIOUS
  <2>4. CASE k = 0
    <3>1. f[k] = first
      BY <1>1, <2>4
    <3> QED BY <1>2, <2>3, <2>4, <3>1
  <2>5. CASE k # 0
    <3>1. k - 1 \in Nat /\ k - 1 <= m /\ ~(k <= k - 1) /\ k \in 0..m /\ (k - 1) + 1 = k
      BY <2>3, <2>5
    <3>2. LineState(f[k - 1], w, md, s, k - 1)
      BY <2>2, <3>1
    <3>3. f[k] = GetsStep(s, f[k - 1])
      BY <1>1, <2>5, <3>1
    <3> DEFINE g == f[k - 1]
               i == k - 1
    <3>4. LineState(g, w, md, s, i) /\ i \in Nat /\ f[k] = GetsStep(s, g) /\ i + 1 = k
      BY <3>1, <3>2, <3>3
    <3> HIDE DEF g, i
    <3>5. LineState(f[k], w, md, s, i + 1)
      BY <3>4, GetsStepFacts
    <3> QED BY <2>3, <3>4, <3>5
  <2> QED BY <2>4, <2>5
<1>4. m \notin S
  BY <1>3
<1> QED BY <1>4

\* What the callers' view of a stream calls what is ahead, and the start of it.
LEMMA AheadIs ==
    ASSUME NEW f \in Seq(Byte), NEW p \in Nat, p <= Len(f)
    PROVE  SubSeq(f, p + 1, Len(f)) = Cut(f, p, Len(f) - p) /\ Len(f) - p \in Nat
<1> DEFINE n == Len(f) - p
<1>1. Len(f) \in Nat /\ n \in Nat /\ Least(p + n, Len(f)) = Len(f)
  BY DEF Least
<1> QED BY <1>1 DEF Cut

\* Upto is the first piece.
LEMMA UptoIs ==
    ASSUME NEW d \in Seq(Byte), NEW n \in Nat
    PROVE  File!Upto(d, n) = Cut(d, 0, n)
<1>1. 0 + 1 = 1 /\ 0 + n = n
  OBVIOUS
<1> QED BY <1>1 DEF File!Upto, Cut, Least

\* What is ahead, as a piece.
LEMMA AheadPiece ==
    ASSUME NEW f \in Seq(Byte), NEW p \in Nat, p <= Len(f),
           NEW z, z = Len(f) - p, NEW a, a = Cut(f, p, z)
    PROVE  Piece(a, f, p, z)
<1>1. z \in Nat /\ p + z <= Len(f)
  OBVIOUS
<1> QED BY <1>1, PieceIs

\* A piece that stops behind the first newline is a line.
LEMMA LineIs ==
    ASSUME NEW f \in Seq(Byte), NEW p \in Nat, NEW n \in Nat, p + n <= Len(f),
           NEW d, d = Cut(f, p, n), \A j \in 1..n : d[j] = NewLine => j = n,
           p + n = Len(f) \/ (n > 0 /\ d[n] = NewLine)
    PROVE  d = File!Line(Cut(f, p, Len(f) - p))
<1> DEFINE l == Len(f)
           z == l - p
           a == Cut(f, p, z)
           ends == {i \in 1..Len(a) : a[i] = NewLine /\ \A j \in 1..(i - 1) : a[j] # NewLine}
<1>1. l \in Nat /\ z \in Nat /\ p + z = l /\ n <= z /\ p <= l
  OBVIOUS
<1>2. a \in Seq(Byte) /\ Len(a) = z /\ \A i \in 1..z : a[i] = f[p + i]
  <2>1. z = Len(f) - p /\ a = Cut(f, p, z) /\ p <= Len(f)
    BY <1>1
  <2> HIDE DEF a, z, l
  <2>2. Piece(a, f, p, z)
    BY <2>1, AheadPiece
  <2> QED BY <2>2 DEF Piece
<1>3. d \in Seq(Byte) /\ Len(d) = n /\ \A i \in 1..n : d[i] = f[p + i]
  <2>1. Piece(d, f, p, n)
    BY PieceIs
  <2> QED BY <2>1 DEF Piece
<1>4. Cut(a, 0, n) = d
  <2> DEFINE o == 0
             q == p + o
             k == Least(n, z - o)
  <2>0. l = Len(f) /\ o = 0
    OBVIOUS
  <2> HIDE DEF z, o, l
  <2>1. o \in 0..z /\ p + z <= Len(f) /\ q = p /\ k = n
    <3>1. o \in 0..z /\ p + z <= Len(f) /\ q = p
      BY <1>1, <2>0
    <3>2. k = n
      BY <1>1, <2>0 DEF Least
    <3> QED BY <3>1, <3>2
  <2>2. Cut(Cut(f, p, z), o, n) = Cut(f, q, k)
    BY <1>1, <2>1, CutCut
  <2> HIDE DEF q, k
  <2>3. Cut(a, o, n) = Cut(f, p, n)
    BY <2>1, <2>2
  <2> QED BY <2>3 DEF o
<1>5. File!Line(a) = IF ends = {} THEN a ELSE File!Upto(a, CHOOSE i \in ends : TRUE)
  BY DEF File!Line
<1>6. \A i \in 1..n : a[i] = d[i]
  <2> HIDE DEF z, a, l
  <2> QED BY <1>1, <1>2, <1>3
<1> HIDE DEF a, z, l
<1>7. CASE n > 0 /\ d[n] = NewLine
  <2>1. n \in ends
    <3>1. n \in 1..Len(a) /\ a[n] = NewLine
      BY <1>1, <1>2, <1>6, <1>7
    <3>2. \A j \in 1..(n - 1) : a[j] # NewLine
      BY <1>6
    <3> QED BY <3>1, <3>2
  <2>2. ASSUME NEW i \in ends PROVE i = n
    <3>1. /\ i \in 1..Len(a) /\ a[i] = NewLine /\ \A j \in 1..(i - 1) : a[j] # NewLine
          /\ n \in 1..Len(a) /\ a[n] = NewLine /\ \A j \in 1..(n - 1) : a[j] # NewLine
      BY <2>1
    <3>2. ~(i \in 1..(n - 1)) /\ ~(n \in 1..(i - 1))
      BY <3>1
    <3>3. i \in Int /\ n \in Int /\ i >= 1 /\ n >= 1
      BY <3>1
    <3> QED BY <3>2, <3>3
  <2> HIDE DEF ends
  <2>3. ends # {} /\ (CHOOSE i \in ends : TRUE) = n
    BY <2>1, <2>2
  <2>4. File!Line(a) = File!Upto(a, n)
    BY <1>5, <2>3
  <2> QED BY <1>2, <1>4, <2>4, UptoIs DEF a, z, l
<1>8. CASE p + n = Len(f) /\ ~(n > 0 /\ d[n] = NewLine)
  <2>1. n = z
    BY <1>1, <1>8 DEF l
  <2>2. \A i \in 1..Len(a) : a[i] # NewLine
    <3> SUFFICES ASSUME NEW i \in 1..Len(a), a[i] = NewLine PROVE FALSE
      OBVIOUS
    <3>1. i \in 1..n /\ d[i] = NewLine
      BY <1>2, <1>6, <2>1
    <3>2. i = n /\ n > 0
      BY <3>1
    <3> QED BY <1>8, <3>1, <3>2
  <2>3. ends = {}
    BY <2>2
  <2>4. File!Line(a) = a
    BY <1>5, <2>3
  <2>5. d = a
    BY <2>1 DEF a
  <2> QED BY <2>4, <2>5 DEF a, z, l
<1> QED BY <1>7, <1>8

\* Gets returns what is left of the line, and leaves the cursor behind it.
GetsOK(y, w, md, s) ==
    /\ Moved(y.w, w, md, s, 0, At(w, s) + Len(y.data)) /\ y.data \in Seq(Byte)
    /\ y.data = File!Line(Cut(Holds(w, s), At(w, s), Len(Holds(w, s)) - At(w, s)))

\* Stream::Gets does so.
LEMMA GetsFacts ==
    ASSUME NEW w, NEW md \in {"archive", "file"}, Good(w, md, 0), NEW s \in UsersOf(md),
           NEW y, y = Gets(w, s)
    PROVE  GetsOK(y, w, md, s)
<1> DEFINE f == Holds(w, s)
           p == At(w, s)
           m == RawSize(w, s) + 1
           n == Len(y.data)
<1>1. Sees(w, s, 0)
  BY Kinds
<1>2. /\ f \in Seq(Byte) /\ Len(f) \in Nat /\ p \in Nat /\ p <= Len(f) /\ RawSize(w, s) \in Nat
      /\ Len(f) - p <= RawSize(w, s)
  BY <1>1 DEF Sees
<1>3. PICK run : GetsRun(run, m, w, s) /\ y = run[m]
  BY <1>2, GetsIs
<1>4. m \in Nat
  BY <1>2
<1> HIDE DEF m
<1>5. LineState(y, w, md, s, m)
  BY <1>3, <1>4, GetsRounds
<1>6. /\ Moved(y.w, w, md, s, 0, p + n) /\ y.data \in Seq(Byte) /\ y.data = Cut(f, p, n)
      /\ p + n <= Len(f) /\ y.done \in BOOLEAN
      /\ (\A j \in 1..n : y.data[j] = NewLine => j = n /\ y.done)
      /\ (y.done => p + n = Len(f) \/ (n > 0 /\ y.data[n] = NewLine))
      /\ (~y.done => n = m)
  BY <1>5 DEF LineState
<1>7. n \in Nat
  BY <1>6
<1> HIDE DEF f, p, n
<1>8. n # m
  BY <1>2, <1>6, <1>7 DEF m
<1>9. p + n = Len(f) \/ (n > 0 /\ y.data[n] = NewLine)
  BY <1>6, <1>8
<1>10. \A j \in 1..n : y.data[j] = NewLine => j = n
  BY <1>6
<1>11. y.data = File!Line(Cut(f, p, Len(f) - p))
  BY <1>2, <1>6, <1>7, <1>9, <1>10, LineIs
<1> QED BY <1>6, <1>11 DEF GetsOK, f, p, n

\* Vscanf after i rounds over spaces, of a call that found world w: k of them are
\* behind it, and it has read the byte that follows.
SkipState(g, w, md, s, i, k) ==
    /\ k \in Nat /\ At(w, s) + k <= Len(Holds(w, s))
    /\ \A j \in 1..k : Holds(w, s)[At(w, s) + j] = NewLine
    /\ g.data = Cut(Holds(w, s), At(w, s) + k, 1) /\ g.data \in Seq(Byte)
    /\ Moved(g.w, w, md, s, 0, (At(w, s) + k) + Len(g.data))
    /\ Returnable(g.w.st[s], Capacity[s], g.data)
    /\ (g.data = <<NewLine>> => k = i)

\* Before the first round.
LEMMA SkipFirst ==
    ASSUME NEW w, NEW md \in {"archive", "file"}, Good(w, md, 0), NEW s \in UsersOf(md),
           NEW g, g = NextCh(w, s)
    PROVE  SkipState(g, w, md, s, 0, 0)
<1> DEFINE f == Holds(w, s)
           p == At(w, s)
           o == 0
<1>1. Sees(w, s, 0)
  BY Kinds
<1>2. f \in Seq(Byte) /\ Len(f) \in Nat /\ p \in Nat /\ p <= Len(f)
  BY <1>1 DEF Sees
<1>3. g = GetCh(w, s)
  BY NextIs
<1>4. ReadOK(g, w, md, s, 1)
  BY <1>3, GetChFacts
<1>5. /\ Moved(g.w, w, md, s, 0, p + Len(g.data)) /\ g.data = Cut(f, p, 1) /\ g.data \in Seq(Byte)
      /\ Returnable(g.w.st[s], Capacity[s], g.data)
  BY <1>4 DEF ReadOK
<1>6. o \in Nat /\ p + o = p /\ p + o <= Len(f) /\ ~(\E j \in 1..o : TRUE)
  BY <1>2
<1> HIDE DEF o
<1>7. SkipState(g, w, md, s, o, o)
  BY <1>5, <1>6 DEF SkipState
<1> QED BY <1>7 DEF o

\* A round passes over a newline, or changes nothing.
LEMMA SkipStepFacts ==
    ASSUME NEW w, NEW md \in {"archive", "file"}, Good(w, md, 0), NEW s \in UsersOf(md),
           NEW i \in Nat, NEW g, NEW k, SkipState(g, w, md, s, i, k), NEW h, h = SkipStep(s, g)
    PROVE  \E m : SkipState(h, w, md, s, i + 1, m)
<1>1. CASE g.data # <<NewLine>>
  <2>1. h = g
    BY <1>1 DEF SkipStep
  <2>2. SkipState(h, w, md, s, i + 1, k)
    BY <1>1, <2>1 DEF SkipState
  <2> QED BY <2>2
<1>2. CASE g.data = <<NewLine>>
  <2> DEFINE f == Holds(w, s)
             p == At(w, s)
             q == p + k
             d == g.data
             m == k + 1
             r == q + 1
  <2>1. /\ k \in Nat /\ q <= Len(f) /\ (\A j \in 1..k : f[p + j] = NewLine)
        /\ d = Cut(f, q, 1) /\ d \in Seq(Byte) /\ Moved(g.w, w, md, s, 0, q + Len(d)) /\ k = i
    BY <1>2 DEF SkipState
  <2>2. f \in Seq(Byte) /\ Len(f) \in Nat /\ p \in Nat /\ q \in Nat
    <3>1. Sees(w, s, 0)
      BY Kinds
    <3>2. f \in Seq(Byte) /\ Len(f) \in Nat /\ p \in Nat
      BY <3>1 DEF Sees
    <3> QED BY <2>1, <3>2
  <2>3. Len(d) = 1 /\ q < Len(f) /\ f[r] = NewLine
    <3>1. OneByte(d, f, q)
      <4> HIDE DEF d, f, q
      <4> QED BY <2>1, <2>2, OneByteIs
    <3>2. d # <<>> /\ d = <<NewLine>>
      BY <1>2
    <3>3. q < Len(f)
      <4>1. q # Len(f)
        BY <3>1, <3>2 DEF OneByte
      <4> HIDE DEF q, f, d
      <4> QED BY <2>1, <2>2, <4>1
    <3> QED BY <3>1, <3>2, <3>3 DEF OneByte
  <2>4. h = GetCh(g.w, s)
    BY <1>2, NextIs DEF SkipStep
  <2>5. Good(g.w, md, 0) /\ Holds(g.w, s) = f /\ At(g.w, s) = r /\ Moved(g.w, w, md, s, 0, r)
    <3>1. Moved(g.w, w, md, s, 0, r)
      BY <2>1, <2>3
    <3> HIDE DEF f, r
    <3> QED BY <3>1, MovedHolds DEF f
  <2>6. ReadOK(h, g.w, md, s, 1)
    BY <2>4, <2>5, GetChFacts
  <2>7. /\ Moved(h.w, g.w, md, s, 0, r + Len(h.data)) /\ h.data = Cut(f, r, 1)
        /\ h.data \in Seq(Byte) /\ Returnable(h.w.st[s], Capacity[s], h.data)
    BY <2>5, <2>6 DEF ReadOK
  <2>8. Moved(h.w, w, md, s, 0, r + Len(h.data))
    <3> HIDE DEF r
    <3> QED BY <2>5, <2>7, MovedTwice
  <2>9. m \in Nat /\ p + m = r /\ p + m <= Len(f) /\ m = i + 1
    <3>1. q = p + k
      OBVIOUS
    <3> HIDE DEF p, f, q
    <3> QED BY <2>1, <2>2, <2>3, <3>1
  <2>10. ASSUME NEW j \in 1..m PROVE f[p + j] = NewLine
    <3>1. j \in 1..k \/ j = m
      BY <2>1
    <3>2. CASE j = m
      BY <2>3, <2>9, <3>2
    <3>3. CASE j \in 1..k
      BY <2>1, <3>3
    <3> QED BY <3>1, <3>2, <3>3
  <2> HIDE DEF r, m
  <2>11. SkipState(h, w, md, s, i + 1, m)
    BY <2>7, <2>8, <2>9, <2>10 DEF SkipState
  <2> QED BY <2>11
<1> QED BY <1>1, <1>2

\* The rounds over spaces, as a function of their number.
SkipRun(f, n, w, s) ==
    f = [i \in 0..n |-> IF i = 0 THEN NextCh(w, s)
                        ELSE Strict(LAMBDA g : SkipStep(s, g), f[i - 1])]

\* There is such a function.
LEMMA SkipRuns == ASSUME NEW w, NEW s, NEW m \in Nat PROVE \E f : SkipRun(f, m, w, s)
<1> DEFINE first == NextCh(w, s)
           S == {n \in Nat : ~ \E f : SkipRun(f, n, w, s)}
<1>0. ASSUME NEW f, NEW n
      PROVE  SkipRun(f, n, w, s)
               <=> f = [i \in 0..n |-> IF i = 0 THEN first ELSE SkipStep(s, f[i - 1])]
  BY DEF SkipRun, Strict
<1> HIDE DEF first
<1>1. SUFFICES ASSUME S # {} PROVE FALSE
  OBVIOUS
<1>2. PICK k \in S : \A n \in S : k <= n
  BY <1>1, LeastExists
<1>3. k \in Nat /\ ~ \E f : SkipRun(f, k, w, s)
  OBVIOUS
<1>4. CASE k = 0
  <2> DEFINE h == [n \in 0..0 |-> first]
  <2>1. h = [n \in 0..0 |-> IF n = 0 THEN first ELSE SkipStep(s, h[n - 1])]
    OBVIOUS
  <2> HIDE DEF h
  <2>2. SkipRun(h, 0, w, s)
    BY <1>0, <2>1
  <2> QED BY <1>3, <1>4, <2>2
<1>5. CASE k # 0
  <2>1. k - 1 \in Nat /\ ~(k <= k - 1)
    BY <1>3, <1>5
  <2>2. PICK f : SkipRun(f, k - 1, w, s)
    BY <1>2, <2>1
  <2> DEFINE h == [n \in 0..k |-> IF n = k THEN SkipStep(s, f[k - 1]) ELSE f[n]]
  <2>3. \A n \in 0..(k - 1) : f[n] = IF n = 0 THEN first ELSE SkipStep(s, f[n - 1])
    <3>1. f = [n \in 0..(k - 1) |-> IF n = 0 THEN first ELSE SkipStep(s, f[n - 1])]
      BY <1>0, <2>2, Zenon
    <3> QED BY <3>1
  <2>4. ASSUME NEW n \in 0..k
        PROVE  h[n] = IF n = 0 THEN first ELSE SkipStep(s, h[n - 1])
    <3>1. CASE n = k
      <4>1. h[n] = SkipStep(s, f[k - 1])
        BY <3>1
      <4>2. h[k - 1] = f[k - 1]
        BY <2>1
      <4> QED BY <1>5, <3>1, <4>1, <4>2
    <3>2. CASE n # k
      <4>1. n \in 0..(k - 1) /\ h[n] = f[n]
        BY <1>3, <3>2
      <4>2. n # 0 => h[n - 1] = f[n - 1]
        BY <1>3, <3>2
      <4> QED BY <2>3, <4>1, <4>2
    <3> QED BY <3>1, <3>2
  <2>5. h = [n \in 0..k |-> h[n]]
    OBVIOUS
  <2> HIDE DEF h
  <2>6. [n \in 0..k |-> h[n]] = [n \in 0..k |-> IF n = 0 THEN first ELSE SkipStep(s, h[n - 1])]
    BY <2>4
  <2>7. SkipRun(h, k, w, s)
    BY <1>0, <2>5, <2>6
  <2> QED BY <1>3, <2>7
<1> QED BY <1>4, <1>5

\* SkipSpaces is the last of them.
LEMMA SkipsAre ==
    ASSUME NEW w, NEW s, RawSize(w, s) \in Nat
    PROVE  \E f : /\ SkipRun(f, RawSize(w, s), w, s)
                  /\ SkipSpaces(w, s) = f[RawSize(w, s)]
<1> DEFINE n == RawSize(w, s)
           f == CHOOSE round : SkipRun(round, n, w, s)
<1>1. n \in Nat
  OBVIOUS
<1>2. SkipSpaces(w, s) = f[n]
  BY Zenon DEF SkipSpaces, SkipRun
<1> HIDE DEF n
<1>3. SkipRun(f, n, w, s)
  BY <1>1, SkipRuns
<1> HIDE DEF f
<1> QED BY <1>2, <1>3 DEF n

\* What the rounds over spaces leave.
LEMMA SkipRounds ==
    ASSUME NEW w, NEW md \in {"archive", "file"}, Good(w, md, 0), NEW s \in UsersOf(md),
           NEW m \in Nat, NEW f, SkipRun(f, m, w, s)
    PROVE  \E k : SkipState(f[m], w, md, s, m, k)
<1> DEFINE first == NextCh(w, s)
<1>1. \A n \in 0..m : f[n] = IF n = 0 THEN first ELSE SkipStep(s, f[n - 1])
  <2>1. f = [i \in 0..m |-> IF i = 0 THEN first ELSE SkipStep(s, f[i - 1])]
    BY DEF SkipRun, Strict
  <2> HIDE DEF first
  <2> QED BY <2>1
<1>2. SkipState(first, w, md, s, 0, 0)
  <2>1. first = NextCh(w, s)
    OBVIOUS
  <2> HIDE DEF first
  <2> QED BY <2>1, SkipFirst
<1> HIDE DEF first
<1> DEFINE Reached(n) == \E k : SkipState(f[n], w, md, s, n, k)
           S == {n \in Nat : n <= m /\ ~Reached(n)}
<1>3. S = {}
  <2>1. SUFFICES ASSUME S # {} PROVE FALSE
    OBVIOUS
  <2>2. PICK n \in S : \A l \in S : n <= l
    BY <2>1, LeastExists
  <2>3. n \in Nat /\ n <= m /\ ~Reached(n)
    OBVIOUS
  <2>4. CASE n = 0
    <3>1. f[n] = first
      BY <1>1, <2>4
    <3>2. SkipState(f[n], w, md, s, n, 0)
      BY <1>2, <2>4, <3>1
    <3> QED BY <2>3, <3>2
  <2>5. CASE n # 0
    <3>1. n - 1 \in Nat /\ n - 1 <= m /\ ~(n <= n - 1) /\ n \in 0..m /\ (n - 1) + 1 = n
      BY <2>3, <2>5
    <3>2. Reached(n - 1)
      BY <2>2, <3>1
    <3>3. PICK k : SkipState(f[n - 1], w, md, s, n - 1, k)
      BY <3>2
    <3>4. f[n] = SkipStep(s, f[n - 1])
      BY <1>1, <2>5, <3>1
    <3> DEFINE g == f[n - 1]
               i == n - 1
    <3>5. SkipState(g, w, md, s, i, k) /\ i \in Nat /\ f[n] = SkipStep(s, g) /\ i + 1 = n
      BY <3>1, <3>3, <3>4
    <3> HIDE DEF g, i
    <3>6. \E l : SkipState(f[n], w, md, s, i + 1, l)
      BY <3>5, SkipStepFacts
    <3> QED BY <2>3, <3>5, <3>6
  <2> QED BY <2>4, <2>5
<1>4. m \notin S
  BY <1>3
<1> QED BY <1>4

\* Behind the spaces, k of them, is a byte that is none, or the end.
Spaces(f, p, k) ==
    /\ k \in Nat /\ p + k <= Len(f) /\ (\A j \in 1..k : f[p + j] = NewLine)
    /\ (p + k < Len(f) => f[p + k + 1] # NewLine)

\* Vscanf returns the line behind the spaces, and leaves the cursor behind it.
ScanOK(y, w, md, s, k) ==
    /\ Spaces(Holds(w, s), At(w, s), k) /\ y.data \in Seq(Byte)
    /\ y.data = File!Line(Cut(Holds(w, s), At(w, s) + k, Len(Holds(w, s)) - (At(w, s) + k)))
    /\ Moved(y.w, w, md, s, 0, (At(w, s) + k) + Len(y.data))

\* Vscanf skips spaces, puts a byte back and reads a line.
LEMMA VscanfIs ==
    ASSUME NEW w, NEW s, NEW g, g = SkipSpaces(w, s), NEW v, v = UnGet(g.w, s, g.data)
    PROVE  Vscanf(w, s) = Gets(v, s)
BY DEF Vscanf, Strict

\* Stream::Vscanf does so.
LEMMA VscanfFacts ==
    ASSUME NEW w, NEW md \in {"archive", "file"}, Good(w, md, 0), NEW s \in UsersOf(md),
           Capacity[s] > 0, NEW y, y = Vscanf(w, s)
    PROVE  \E k : ScanOK(y, w, md, s, k)
<1> DEFINE f == Holds(w, s)
           p == At(w, s)
           m == RawSize(w, s)
           g == SkipSpaces(w, s)
           v == UnGet(g.w, s, g.data)
<1>1. Sees(w, s, 0)
  BY Kinds
<1>2. /\ f \in Seq(Byte) /\ Len(f) \in Nat /\ p \in Nat /\ p <= Len(f) /\ m \in Nat
      /\ Len(f) - p <= m
  BY <1>1 DEF Sees
<1>3. PICK run : SkipRun(run, m, w, s) /\ g = run[m]
  BY <1>2, SkipsAre
<1>4. y = Gets(v, s)
  BY VscanfIs
<1>5. v = UnGet(g.w, s, g.data)
  OBVIOUS
<1> HIDE DEF v, g, m
<1>6. PICK k : SkipState(g, w, md, s, m, k)
  BY <1>2, <1>3, SkipRounds
<1> DEFINE q == p + k
           d == g.data
<1>7. /\ k \in Nat /\ q <= Len(f) /\ (\A j \in 1..k : f[p + j] = NewLine)
      /\ d = Cut(f, q, 1) /\ d \in Seq(Byte) /\ Moved(g.w, w, md, s, 0, q + Len(d))
      /\ Returnable(g.w.st[s], Capacity[s], d) /\ (d = <<NewLine>> => k = m)
  BY <1>6 DEF SkipState
<1>8. q \in Nat
  BY <1>2, <1>7
<1>9. OneByte(d, f, q)
  <2> HIDE DEF d, f, q
  <2> QED BY <1>2, <1>7, <1>8, OneByteIs
<1>10. q < Len(f) => f[q + 1] # NewLine
  <2> SUFFICES ASSUME q < Len(f), f[q + 1] = NewLine PROVE FALSE
    OBVIOUS
  <2>1. d = <<NewLine>>
    BY <1>9 DEF OneByte
  <2>2. k = m /\ q = p + k
    BY <1>7, <2>1
  <2> HIDE DEF q, f, p, m
  <2> QED BY <1>2, <1>7, <1>8, <2>2
<1>11. Good(g.w, md, 0) /\ Holds(g.w, s) = f /\ At(g.w, s) = q + Len(d)
  <2> HIDE DEF f, q, d
  <2> QED BY <1>7, MovedHolds DEF f
<1>12. Moved(v, w, md, s, 0, q)
  <2>1. CASE d = <<>>
    <3>1. v = g.w
      BY <1>5, <2>1 DEF UnGet
    <3>2. q + Len(d) = q
      <4> HIDE DEF q, d
      <4> QED BY <1>8, <2>1
    <3> HIDE DEF q, d
    <3> QED BY <1>7, <3>1, <3>2
  <2>2. CASE d # <<>>
    <3>1. Len(d) = 1
      <4>1. q # Len(f)
        BY <1>9, <2>2 DEF OneByte
      <4>2. q < Len(f)
        <5> HIDE DEF q, f
        <5> QED BY <1>2, <1>7, <1>8, <4>1
      <4> QED BY <1>9, <4>2 DEF OneByte
    <3>2. Moved(v, g.w, md, s, 0, At(g.w, s) - 1)
      <4> DEFINE a == g.w
                 o == 0
      <4>1. /\ Good(a, md, o) /\ Capacity[s] > 0 /\ d # <<>> /\ v = UnGet(a, s, d)
            /\ Returnable(a.st[s], Capacity[s], d)
        BY <1>5, <1>7, <1>11, <2>2
      <4> HIDE DEF a, d, o
      <4>2. Moved(v, a, md, s, 0, At(a, s) - 1)
        BY <4>1, UnGetFacts
      <4> QED BY <4>2 DEF a
    <3>3. At(g.w, s) - 1 = q
      <4> HIDE DEF q, d
      <4> QED BY <1>8, <1>11, <3>1
    <3> HIDE DEF q, d
    <3>4. Moved(v, g.w, md, s, 0, q)
      BY <3>2, <3>3
    <3> QED BY <1>7, <3>4, MovedTwice
  <2> QED BY <2>1, <2>2
<1>13. Good(v, md, 0) /\ Holds(v, s) = f /\ At(v, s) = q
  <2> HIDE DEF f, q
  <2> QED BY <1>12, MovedHolds DEF f
<1>14. GetsOK(y, v, md, s)
  BY <1>4, <1>13, GetsFacts
<1>15. /\ Moved(y.w, v, md, s, 0, q + Len(y.data)) /\ y.data \in Seq(Byte)
       /\ y.data = File!Line(Cut(f, q, Len(f) - q))
  BY <1>13, <1>14 DEF GetsOK
<1>16. Moved(y.w, w, md, s, 0, q + Len(y.data))
  <2> HIDE DEF q
  <2> QED BY <1>12, <1>15, MovedTwice
<1>17. Spaces(f, p, k)
  BY <1>7, <1>10 DEF Spaces
<1>18. ScanOK(y, w, md, s, k)
  BY <1>15, <1>16, <1>17 DEF ScanOK
<1> QED BY <1>18
-----------------------------------------------------------------------------
(* Writing *)

\* A base stream that has read nothing ahead, and may have bytes to write.
Pending(a, g) ==
    /\ a \in Worlds /\ g \in Nat /\ a.raw <= Len(a.disk) /\ a.st[0].read = 0
    /\ a.st[0].head = Len(a.st[0].buf) /\ a.st[0].head <= Capacity[0]
    /\ a.raw = a.st[0].pos + g

\* Its parts, and what is seen of it.
LEMMA PendingFacts ==
    ASSUME NEW a, NEW g, Pending(a, g)
    PROVE  /\ a.disk \in Seq(Byte) /\ a.raw \in Nat /\ Len(a.disk) \in Nat /\ g \in Nat
           /\ a.st[0] \in Stream /\ a.st[0].head \in Nat /\ a.st[0].pos \in Nat
           /\ a.st[0].buf \in Seq(Byte)
           /\ Bytes(a) = Overlay(a.disk, a.raw, a.st[0].buf) /\ Cur(a) = a.raw + a.st[0].head
<1> DEFINE x == a.st[0]
<1>1. a.disk \in Seq(Byte) /\ a.raw \in Nat /\ x \in Stream /\ x.read = 0 /\ g \in Nat
  BY Ids0 DEF Pending, Worlds
<1>2. x.head \in Nat /\ x.pos \in Nat /\ x.buf \in Seq(Byte)
  <2> HIDE DEF x
  <2> QED BY <1>1 DEF Stream
<1>3. Bytes(a) = Overlay(a.disk, a.raw, x.buf) /\ Cur(a) = a.raw + x.head
  BY <1>1 DEF Bytes, Cur
<1> QED BY <1>1, <1>2, <1>3

\* A base stream without bytes read ahead is one.
LEMMA PendingIs ==
    ASSUME NEW a, NEW g, Base(a, g), a.st[0].read = 0
    PROVE  Pending(a, g)
<1> DEFINE x == a.st[0]
           c == Capacity[0]
<1>1. /\ a \in Worlds /\ a.raw \in Nat /\ a.raw <= Len(a.disk) /\ g \in Nat /\ x.head \in Nat
      /\ x.pos \in Nat /\ a.raw = x.pos + x.read + g /\ a.disk \in Seq(Byte)
  BY BaseFacts
<1>2. c \in Nat
  BY Ids0
<1>3. a.raw = x.pos + g
  BY <1>1
<1>4. CASE Reads(x, a.disk, c)
  <2>1. x.buf = <<>> /\ x.head <= x.read
    <3> HIDE DEF x, c
    <3> QED BY <1>1, <1>2, <1>4, ReadsFacts DEF x
  <2>2. x.head = 0 /\ Len(x.buf) = 0
    BY <1>1, <2>1
  <2> QED BY <1>1, <1>2, <1>3, <2>2 DEF Pending
<1>5. CASE Writes(x, c)
  BY <1>1, <1>3, <1>5 DEF Writes, Pending
<1> QED BY <1>4, <1>5 DEF Base

\* And every one is a base stream.
LEMMA PendingBase ==
    ASSUME NEW a, NEW g, Pending(a, g)
    PROVE  Base(a, g)
<1> DEFINE x == a.st[0]
           c == Capacity[0]
<1>1. /\ a.disk \in Seq(Byte) /\ a.raw \in Nat /\ x \in Stream /\ x.head \in Nat /\ x.pos \in Nat
      /\ x.buf \in Seq(Byte) /\ g \in Nat /\ c \in Nat
  BY PendingFacts, Ids0
<1>2. /\ a \in Worlds /\ a.raw <= Len(a.disk) /\ x.read = 0
      /\ x.head = Len(x.buf) /\ x.head <= c /\ a.raw = x.pos + g
  BY DEF Pending
<1>3. Reads(x, a.disk, c) \/ Writes(x, c)
  <2>1. CASE x.head > 0
    BY <1>1, <1>2, <2>1 DEF Writes
  <2>2. CASE ~(x.head > 0)
    <3> HIDE DEF x, c
    <3>1. x.head = 0 /\ Len(x.buf) = 0 /\ x.pos <= Len(a.disk)
      BY <1>1, <1>2, <2>2
    <3>2. x.buf = <<>>
      BY <1>1, <3>1
    <3>3. Cut(a.disk, x.pos, 0) = <<>>
      BY <1>1, <3>1, CutNone
    <3>4. x.pos + 0 <= Len(a.disk) /\ 0 <= c
      BY <1>1, <3>1
    <3> QED BY <1>1, <1>2, <3>1, <3>2, <3>3, <3>4 DEF Reads
  <2> QED BY <2>1, <2>2
<1>4. a.raw = x.pos + x.read + g
  BY <1>1, <1>2
<1> QED BY <1>1, <1>2, <1>3, <1>4 DEF Base

\* Bytes are added to the buffer of such a stream.
Appended(a, e) == [a EXCEPT !.st[0].buf = @ \o e, !.st[0].head = @ + Len(e)]

\* Bytes e were written at the cursor.
Wrote(y, w, e, g) ==
    /\ Base(y, g) /\ Others(y, w) /\ Bytes(y) = Overlay(Bytes(w), Cur(w), e)
    /\ Cur(y) = Cur(w) + Len(e)

\* It is as if they had been written to the file.
LEMMA AppendFacts ==
    ASSUME NEW a, NEW g, Pending(a, g), NEW e \in Seq(Byte), a.st[0].head + Len(e) <= Capacity[0],
           NEW y, y = Appended(a, e)
    PROVE  Pending(y, g) /\ Wrote(y, a, e, g)
<1> DEFINE x == a.st[0]
           h == x.head + Len(e)
           b == x.buf \o e
           z == [x EXCEPT !.buf = b, !.head = h]
<1>1. /\ a.disk \in Seq(Byte) /\ a.raw \in Nat /\ Len(a.disk) \in Nat /\ g \in Nat
      /\ x \in Stream /\ x.head \in Nat /\ x.pos \in Nat /\ x.buf \in Seq(Byte)
      /\ Bytes(a) = Overlay(a.disk, a.raw, x.buf) /\ Cur(a) = a.raw + x.head
  BY PendingFacts
<1>2. /\ a \in Worlds /\ a.raw <= Len(a.disk) /\ x.read = 0 /\ x.head = Len(x.buf)
      /\ a.raw = x.pos + g
  BY DEF Pending
<1>3. b \in Seq(Byte) /\ Len(b) = Len(x.buf) + Len(e) /\ Len(e) \in Nat
  BY <1>1
<1>4. h \in Nat /\ h = Len(b)
  BY <1>1, <1>2, <1>3
<1>5. y = [a EXCEPT !.st[0] = z]
  <2>1. [x EXCEPT !.buf = @ \o e, !.head = @ + Len(e)] = z
    OBVIOUS
  <2>2. y = [a EXCEPT !.st[0] = [x EXCEPT !.buf = @ \o e, !.head = @ + Len(e)]]
    BY <1>2, Ids0 DEF Appended, Worlds
  <2> QED BY <2>1, <2>2
<1>6. z \in Stream /\ z.buf = b /\ z.head = h /\ z.read = 0 /\ z.pos = x.pos
  <2> HIDE DEF b, h, x
  <2> QED BY <1>1, <1>2, <1>3, <1>4 DEF Stream
<1> HIDE DEF z
<1>7. With(y, a, 0, z)
  BY <1>2, <1>5, <1>6, Ids0, WithStream
<1>8. y \in Worlds /\ y.disk = a.disk /\ y.raw = a.raw /\ y.st[0] = z /\ Others(y, a)
  BY <1>7, Ids0 DEF With, Others
<1>9. Pending(y, g)
  BY <1>1, <1>2, <1>4, <1>6, <1>8 DEF Pending
<1>10. Bytes(y) = Overlay(a.disk, a.raw, b) /\ Cur(y) = a.raw + h
  BY <1>6, <1>8, <1>9, PendingFacts
<1>11. Overlay(a.disk, a.raw, b) = Overlay(Bytes(a), Cur(a), e)
  <2> DEFINE d == x.buf
             f == a.disk
             p == a.raw
  <2>1. f \in Seq(Byte) /\ p \in Nat /\ p <= Len(f) /\ d \in Seq(Byte)
    BY <1>1, <1>2
  <2>2. Bytes(a) = Overlay(f, p, d) /\ Cur(a) = p + Len(d) /\ b = d \o e
    BY <1>1, <1>2
  <2> HIDE DEF d, f, p
  <2>3. Overlay(Overlay(f, p, d), p + Len(d), e) = Overlay(f, p, d \o e)
    BY <2>1, OverlayTwice
  <2> QED BY <2>2, <2>3 DEF f, p
<1>12. Cur(y) = Cur(a) + Len(e)
  <2>1. h = x.head + Len(e) /\ Cur(y) = a.raw + h
    BY <1>10
  <2> HIDE DEF h, x
  <2> QED BY <1>1, <1>3, <2>1
<1>13. Base(y, g)
  BY <1>9, PendingBase
<1> QED BY <1>8, <1>9, <1>10, <1>11, <1>12, <1>13 DEF Wrote

\* One write behind another is one write.
LEMMA WroteTwice ==
    ASSUME NEW w, NEW k, Base(w, k), NEW d \in Seq(Byte), NEW e \in Seq(Byte), NEW v, NEW g,
           Wrote(v, w, d, g), NEW y, NEW h, Wrote(y, v, e, h)
    PROVE  Wrote(y, w, d \o e, h)
<1> DEFINE f == Bytes(w)
           p == Cur(w)
<1>1. f \in Seq(Byte) /\ p \in Nat /\ p <= Len(f)
  BY ViewFacts
<1>2. Bytes(v) = Overlay(f, p, d) /\ Cur(v) = p + Len(d) /\ Others(v, w)
  BY DEF Wrote
<1>3. /\ Base(y, h) /\ Bytes(y) = Overlay(Bytes(v), Cur(v), e) /\ Cur(y) = Cur(v) + Len(e)
      /\ Others(y, v)
  BY DEF Wrote
<1> HIDE DEF f, p
<1>4. Bytes(y) = Overlay(f, p, d \o e)
  BY <1>1, <1>2, <1>3, OverlayTwice
<1>5. Cur(y) = p + Len(d \o e)
  BY <1>1, <1>2, <1>3
<1>6. Others(y, w)
  BY <1>2, <1>3 DEF Others
<1> QED BY <1>3, <1>4, <1>5, <1>6 DEF Wrote, f, p

\* A flush, or nothing, before a write.
Readied(a, w, g) ==
    Pending(a, g) /\ Bytes(a) = Bytes(w) /\ Cur(a) = Cur(w) /\ Others(a, w)

\* A write after a flush is a write.
LEMMA WroteFrom ==
    ASSUME NEW w, NEW a, NEW k, Readied(a, w, k), NEW d, NEW y, NEW g, Wrote(y, a, d, g)
    PROVE  Wrote(y, w, d, g)
BY DEF Readied, Wrote, Others

\* A flush leaves a stream that can be written to.
LEMMA FlushReadied ==
    ASSUME NEW w, NEW g, Base(w, g), NEW a, a = BaseFlush(w)
    PROVE  Readied(a, w, g) /\ a.st[0].head = 0 /\ a.st[0].buf = <<>> /\ a.raw = Cur(w)
           /\ a.disk = Bytes(w)
<1>1. Flushes(a, w, g)
  BY BaseFlushFacts
<1>2. /\ Base(a, g) /\ a.st[0].read = 0 /\ a.st[0].head = 0 /\ a.st[0].buf = <<>>
      /\ Bytes(a) = Bytes(w) /\ Cur(a) = Cur(w) /\ Others(a, w) /\ a.raw = Cur(w)
      /\ a.disk = Bytes(w)
  BY <1>1 DEF Flushes
<1>3. Pending(a, g)
  BY <1>2, PendingIs
<1> QED BY <1>2, <1>3 DEF Readied

\* A large write goes to the file at once, and position_ does not count it.
LEMMA LargeWrite ==
    ASSUME NEW w, NEW g, Base(w, g), NEW d \in Seq(Byte), NEW y, y = FileWrite(BaseFlush(w), d)
    PROVE  Wrote(y, w, d, g + Len(d))
<1> DEFINE v == BaseFlush(w)
           f == Bytes(w)
           p == Cur(w)
           n == Len(d)
           h == g + n
<1>1. v = BaseFlush(w) /\ y = FileWrite(v, d)
  OBVIOUS
<1> HIDE DEF v
<1>2. /\ Readied(v, w, g) /\ v.st[0].head = 0 /\ v.st[0].buf = <<>> /\ v.raw = p /\ v.disk = f
  BY <1>1, FlushReadied
<1>3. /\ v \in Worlds /\ v.raw <= Len(v.disk) /\ v.st[0].read = 0 /\ g \in Nat
      /\ v.raw = v.st[0].pos + g /\ Others(v, w)
  BY <1>2 DEF Readied, Pending
<1>4. f \in Seq(Byte) /\ p \in Nat /\ p <= Len(f) /\ n \in Nat
  BY ViewFacts
<1>5. /\ y \in Worlds /\ y.st = v.st /\ y.disk = Overlay(f, p, d) /\ y.disk \in Seq(Byte)
      /\ y.raw = p + n /\ y.raw \in Nat /\ y.raw <= Len(y.disk)
  BY <1>1, <1>2, <1>3, WriteFacts
<1>6. v.st[0].pos \in Nat
  <2> v.st[0] \in Stream
    BY <1>3, Ids0 DEF Worlds
  <2> QED BY DEF Stream
<1>7. y.st[0].read = 0 /\ y.st[0].head = 0 /\ Len(y.st[0].buf) = 0 /\ y.st[0].buf = <<>>
  BY <1>2, <1>3, <1>5
<1>8. h \in Nat /\ y.raw = y.st[0].pos + h
  <2>1. y.st[0].pos = v.st[0].pos /\ p = v.st[0].pos + g
    BY <1>2, <1>3, <1>5
  <2> HIDE DEF p, n
  <2> QED BY <1>3, <1>4, <1>5, <1>6, <2>1, SMTT(30)
<1>9. 0 <= Capacity[0]
  BY Ids0
<1> HIDE DEF h
<1>10. Pending(y, h)
  BY <1>5, <1>7, <1>8, <1>9 DEF Pending
<1>11. Bytes(y) = Overlay(y.disk, y.raw, <<>>) /\ Cur(y) = y.raw + 0
  BY <1>7, <1>10, PendingFacts
<1>12. Overlay(y.disk, y.raw, <<>>) = y.disk /\ y.raw + 0 = y.raw
  BY <1>5, OverlayNone
<1>13. Base(y, h)
  BY <1>10, PendingBase
<1>14. Others(y, w)
  BY <1>3, <1>5 DEF Others
<1> QED BY <1>5, <1>11, <1>12, <1>13, <1>14 DEF Wrote, f, p, n, h

\* The first n items of a piece and the others.
Halves(d, n, e, r) ==
    /\ e \in Seq(Byte) /\ Len(e) = n /\ r \in Seq(Byte) /\ Len(r) = Len(d) - n
    /\ e \o r = d

\* Cut in two, and joined again.
LEMMA CutHalves ==
    ASSUME NEW d \in Seq(Byte), NEW k \in Nat, k <= Len(d)
    PROVE  Halves(d, k, Cut(d, 0, k), Cut(d, k, Len(d)))
<1> DEFINE o == 0
           n == Len(d)
           e == Cut(d, o, k)
           r == Cut(d, k, n)
<1>1. n \in Nat /\ o \in Nat /\ o + k = k /\ o + k <= Len(d) /\ k + n >= Len(d) /\ k + n \in Nat
      /\ e = Cut(d, o, k) /\ r = Cut(d, k, n) /\ n = Len(d)
  OBVIOUS
<1>2. Least(n, Len(d) - k) = n - k
  BY <1>1 DEF Least
<1>3. Cut(d, 0, k + n) = d
  BY <1>1, CutAll
<1>4. o = 0
  OBVIOUS
<1>0. o \in Nat /\ n \in Nat /\ o + k <= Len(d)
  OBVIOUS
<1> HIDE DEF o, n, e, r
<1>5. e \in Seq(Byte) /\ Len(e) = k
  BY <1>1, CutLen
<1>6. r \in Seq(Byte) /\ Len(r) = n - k
  BY <1>1, <1>2, CutIs
<1>7. Cut(d, o, k) \o Cut(d, o + k, n) = Cut(d, o, k + n)
  BY <1>0, CutJoin
<1>8. e \o r = d
  BY <1>1, <1>3, <1>4, <1>7
<1> QED BY <1>1, <1>5, <1>6, <1>8 DEF Halves, e, r, o, n

\* A buffer that the bytes fill is flushed on the way, and what is left stays in it.
LEMMA FillingWrite ==
    ASSUME NEW a, NEW g, Pending(a, g), NEW d \in Seq(Byte), Len(d) < Capacity[0],
           NEW room, room = Capacity[0] - a.st[0].head, Len(d) >= room,
           NEW full, full = Appended(a, Cut(d, 0, room)),
           NEW y, y = Appended(BaseFlush(full), Cut(d, room, Len(d)))
    PROVE  Wrote(y, a, d, g)
<1> DEFINE e == Cut(d, 0, room)
           n == Len(d)
           r == Cut(d, room, n)
           b == BaseFlush(full)
           c == Capacity[0]
<1>1. a.st[0].head \in Nat /\ a.st[0].head <= c /\ c \in Nat /\ n \in Nat
  BY PendingFacts, Ids0 DEF Pending
<1>2. room \in Nat /\ room <= n /\ a.st[0].head + room = c
  BY <1>1
<1>3. e \in Seq(Byte) /\ Len(e) = room /\ r \in Seq(Byte) /\ Len(r) = n - room /\ e \o r = d
  BY <1>2, CutHalves DEF Halves
<1>6. full = Appended(a, e) /\ y = Appended(b, r) /\ b = BaseFlush(full) /\ n < c
  OBVIOUS
<1> HIDE DEF e, r, b, n, c
<1>7. Pending(full, g) /\ Wrote(full, a, e, g)
  <2>1. a.st[0].head + Len(e) <= Capacity[0]
    BY <1>1, <1>2, <1>3 DEF c
  <2> QED BY <1>3, <1>6, <2>1, AppendFacts
<1>8. Readied(b, full, g) /\ b.st[0].head = 0
  BY <1>6, <1>7, FlushReadied DEF Wrote
<1>9. Pending(b, g)
  BY <1>8 DEF Readied
<1>10. Wrote(y, b, r, g)
  <2>1. b.st[0].head + Len(r) <= Capacity[0]
    BY <1>1, <1>2, <1>3, <1>6, <1>8 DEF c
  <2> QED BY <1>3, <1>6, <1>9, <2>1, AppendFacts
<1>11. Wrote(y, full, r, g)
  BY <1>8, <1>10, WroteFrom
<1>12. Base(a, g)
  BY PendingBase
<1> QED BY <1>3, <1>7, <1>11, <1>12, WroteTwice

\* What the program calls a write, of either size.
LagAfter(g, d) == IF Len(d) >= Capacity[0] THEN g + Len(d) ELSE g

\* Stream::Write puts the bytes over what the file held at the cursor.
LEMMA WriteCallFacts ==
    ASSUME NEW w, NEW g, Base(w, g), NEW d \in Seq(Byte), NEW y, y = Write(w, d)
    PROVE  Wrote(y, w, d, LagAfter(g, d))
<1> DEFINE a    == IF w.st[0].read > 0 THEN Flush(w, 0) ELSE w
           room == Capacity[0] - a.st[0].head
           e    == Cut(d, 0, room)
           full == [a EXCEPT !.st[0].buf = @ \o Cut(d, 0, room), !.st[0].head = Capacity[0]]
           rest == Cut(d, room, Len(d))
           b    == IF Len(d) >= room THEN Flush(full, 0) ELSE a
           kept == IF Len(d) >= room THEN rest ELSE d
<1>1. y = IF Len(d) >= Capacity[0] THEN FileWrite(Flush(a, 0), d)
          ELSE [b EXCEPT !.st[0].buf = @ \o kept, !.st[0].head = @ + Len(kept)]
  BY DEF Write
<1>2. Readied(a, w, g)
  <2>1. CASE w.st[0].read > 0
    <3>1. a = BaseFlush(w)
      BY <2>1 DEF Flush
    <3> HIDE DEF a
    <3> QED BY <3>1, FlushReadied
  <2>2. CASE ~(w.st[0].read > 0)
    <3>1. a = w
      BY <2>2
    <3>2. w.st[0].read = 0
      BY <2>2, BaseFacts
    <3> HIDE DEF a
    <3>3. Pending(w, g) /\ Others(w, w)
      BY <3>2, PendingIs DEF Others
    <3> QED BY <3>1, <3>3 DEF Readied
  <2> QED BY <2>1, <2>2
<1>3. room = Capacity[0] - a.st[0].head /\ rest = Cut(d, room, Len(d)) /\ e = Cut(d, 0, room)
  OBVIOUS
<1> HIDE DEF a, room
<1>4. Pending(a, g) /\ Base(a, g)
  BY <1>2, PendingBase DEF Readied
<1>5. /\ a.st[0].head \in Nat /\ a.st[0].head <= Capacity[0] /\ Capacity[0] \in Nat
      /\ Len(d) \in Nat /\ a \in Worlds
  BY <1>4, PendingFacts, Ids0 DEF Pending
<1>6. CASE Len(d) >= Capacity[0]
  <2>1. y = FileWrite(BaseFlush(a), d)
    BY <1>1, <1>6 DEF Flush
  <2>2. Wrote(y, a, d, g + Len(d))
    BY <1>4, <2>1, LargeWrite
  <2>3. Wrote(y, a, d, LagAfter(g, d))
    BY <1>6, <2>2 DEF LagAfter
  <2> QED BY <1>2, <2>3, WroteFrom
<1>7. CASE ~(Len(d) >= Capacity[0])
  <2>1. LagAfter(g, d) = g /\ Len(d) < Capacity[0]
    BY <1>5, <1>7 DEF LagAfter
  <2>2. CASE Len(d) >= room
    <3>1. y = [BaseFlush(full) EXCEPT !.st[0].buf = @ \o rest, !.st[0].head = @ + Len(rest)]
      BY <1>1, <1>7, <2>2 DEF Flush
    <3>2. full = Appended(a, e)
      <4>1. Capacity[0] = a.st[0].head + Len(e)
        <5>1. room \in Nat /\ room <= Len(d) /\ a.st[0].head + room = Capacity[0]
          BY <1>3, <1>5, <2>2
        <5>2. Len(e) = room
          <6> DEFINE o == 0
          <6>1. o \in Nat /\ o + room <= Len(d) /\ e = Cut(d, o, room)
            BY <1>3, <5>1
          <6> HIDE DEF e, o
          <6> QED BY <5>1, <6>1, CutLen
        <5> QED BY <5>1, <5>2
      <4>2. Appended(a, e) = [a EXCEPT !.st[0].buf = @ \o e, !.st[0].head = Capacity[0]]
        BY <1>5, <4>1, Ids0 DEF Appended, Worlds
      <4> QED BY <1>3, <4>2
    <3>3. y = Appended(BaseFlush(full), Cut(d, room, Len(d)))
      BY <1>3, <3>1 DEF Appended
    <3>4. full = Appended(a, Cut(d, 0, room))
      BY <1>3, <3>2
    <3> HIDE DEF full, rest, e
    <3>5. Wrote(y, a, d, g)
      BY <1>3, <1>4, <2>1, <2>2, <3>3, <3>4, FillingWrite
    <3> QED BY <1>2, <2>1, <3>5, WroteFrom
  <2>3. CASE ~(Len(d) >= room)
    <3>1. y = Appended(a, d)
      BY <1>1, <1>7, <2>3 DEF Appended
    <3>2. a.st[0].head + Len(d) <= Capacity[0]
      BY <1>3, <1>5, <2>3
    <3>3. Wrote(y, a, d, g)
      BY <1>4, <3>1, <3>2, AppendFacts
    <3> QED BY <1>2, <2>1, <3>3, WroteFrom
  <2> QED BY <2>2, <2>3
<1> QED BY <1>6, <1>7

\* PutCh, which may add its byte without a call of Write.
LEMMA PutChFacts ==
    ASSUME NEW w, NEW g, Base(w, g), NEW b \in Byte,
           NEW y, y = IF w.st[0].read = 0 /\ w.st[0].head < Capacity[0]
                      THEN [w EXCEPT !.st[0].buf = Append(@, b), !.st[0].head = @ + 1]
                      ELSE Write(w, <<b>>)
    PROVE  Wrote(y, w, <<b>>, g)
<1> DEFINE e == <<b>>
<1>1. e \in Seq(Byte) /\ Len(e) = 1
  OBVIOUS
<1>2. Capacity[0] \in Nat /\ Capacity[0] > 1
  BY Ids0
<1>3. CASE w.st[0].read = 0 /\ w.st[0].head < Capacity[0]
  <2>1. Pending(w, g)
    BY <1>3, PendingIs
  <2>2. w.st[0].buf \in Seq(Byte) /\ w.st[0].head \in Nat /\ w.st[0] \in Stream /\ w \in Worlds
    BY <2>1, PendingFacts DEF Pending
  <2>3. y = [w EXCEPT !.st[0].buf = Append(@, b), !.st[0].head = @ + 1]
    BY <1>3
  <2>4. Append(w.st[0].buf, b) = w.st[0].buf \o e
    BY <2>2, AppendIsConcat
  <2>5. y = Appended(w, e)
    BY <1>1, <2>2, <2>3, <2>4, Ids0 DEF Appended, Worlds
  <2>6. w.st[0].head + Len(e) <= Capacity[0]
    BY <1>1, <1>2, <1>3, <2>2
  <2> HIDE DEF e
  <2>7. Wrote(y, w, e, g)
    BY <1>1, <2>1, <2>5, <2>6, AppendFacts
  <2> QED BY <2>7 DEF e
<1>4. CASE ~(w.st[0].read = 0 /\ w.st[0].head < Capacity[0])
  <2>1. y = Write(w, e)
    BY <1>4
  <2>2. LagAfter(g, e) = g
    BY <1>1, <1>2 DEF LagAfter
  <2> HIDE DEF e
  <2>3. Wrote(y, w, e, LagAfter(g, e))
    BY <1>1, <2>1, WriteCallFacts
  <2> QED BY <2>2, <2>3 DEF e
<1> QED BY <1>3, <1>4
-----------------------------------------------------------------------------
(* What the callers see *)

Shows(w, md, s) == IF s # 0 THEN FileOf(s) ELSE IF md = "archive" THEN <<>> ELSE Bytes(w)
Stands(w, o, s) == IF s \notin o THEN -1 ELSE At(w, s)

\* The callers' view of the files and of the cursors, as a function of the world.
LEMMA ShownIs ==
    /\ SeenBytes = [s \in Ids |-> Shows(World, mode, s)]
    /\ SeenCursor = [s \in Ids |-> Stands(World, open, s)]
<1>1. ASSUME NEW s \in Ids
      PROVE  (IF s # 0 THEN Cut(Archive, Offset[s], MemberSize[s])
              ELSE IF mode = "archive" THEN <<>>
              ELSE IF st[0].read = 0 THEN Overlay(disk, raw, st[0].buf) ELSE disk)
             = Shows(World, mode, s)
  BY DEF Shows, FileOf, Bytes, World
<1>2. ASSUME NEW s \in Ids
      PROVE  (IF s \notin open THEN -1 ELSE IF s = 0 THEN Cursor ELSE Tell(World, s))
             = Stands(World, open, s)
  BY DEF Stands, At, Cur, Cursor, World
<1> QED BY <1>1, <1>2 DEF SeenBytes, SeenCursor

\* The same of the next state.
LEMMA ShownNext ==
    /\ SeenBytes' = [s \in Ids |-> Shows(World', mode', s)]
    /\ SeenCursor' = [s \in Ids |-> Stands(World', open', s)]
<1>1. /\ (SeenBytes = [s \in Ids |-> Shows(World, mode, s)])'
      /\ (SeenCursor = [s \in Ids |-> Stands(World, open, s)])'
  BY ShownIs, PTL
<1> QED BY <1>1

\* What a call leaves is the next world.
LEMMA BecomesIs ==
    ASSUME NEW y \in Worlds, Becomes(y)
    PROVE  World' = y
BY DEF Becomes, World, Worlds

\* The parts of the world are the variables.
LEMMA WorldIs == World.disk = disk /\ World.raw = raw /\ World.st = st
BY DEF World

\* The same of the next state.
LEMMA WorldNext == World'.disk = disk' /\ World'.raw = raw' /\ World'.st = st'
BY DEF World

\* What is known of a stream in use.
OpenIs(w, md, s, g) ==
    /\ md \in {"archive", "file"} /\ Good(w, md, g) /\ s \in UsersOf(md) /\ Sees(w, s, g)
    /\ s \in Ids /\ File!IsOpen(s)
    /\ SeenBytes[s] = Holds(w, s) /\ SeenCursor[s] = At(w, s)
    /\ File!Ahead(s) = Cut(Holds(w, s), At(w, s), Len(Holds(w, s)) - At(w, s))

\* The streams that the program uses.
LEMMA UsersIs == Users = UsersOf(mode)
BY DEF Users, UsersOf

\* All of this holds of a stream that is open.
LEMMA OpenFacts ==
    ASSUME IInv, NEW s \in open
    PROVE  OpenIs(World, mode, s, lag)
<1> DEFINE w == World
           f == Holds(w, s)
           p == At(w, s)
           n == Len(f) - p
<1>1. mode \in {"archive", "file"} /\ Good(w, mode, lag) /\ s \in UsersOf(mode)
  BY UsersIs DEF IInv
<1>2. /\ (mode = "file" /\ s = 0) \/ (mode = "archive" /\ s \in Members /\ s # 0 /\ lag = 0)
      /\ Sees(w, s, lag)
  <2> HIDE DEF w
  <2> QED BY <1>1, Kinds
<1>3. s \in Ids /\ f \in Seq(Byte) /\ p \in Nat /\ p <= Len(f)
  BY <1>2 DEF Sees
<1>4. SeenBytes[s] = f
  <2>1. SeenBytes[s] = Shows(w, mode, s)
    BY <1>3, ShownIs
  <2> HIDE DEF w
  <2> QED BY <1>2, <2>1 DEF Shows, Holds
<1>5. SeenCursor[s] = p
  BY <1>3, ShownIs DEF Stands
<1>6. File!IsOpen(s)
  <2> HIDE DEF p
  <2> QED BY <1>3, <1>5 DEF File!IsOpen
<1>7. File!Ahead(s) = Cut(f, p, n)
  <2>1. File!Ahead(s) = SubSeq(f, p + 1, Len(f))
    BY <1>4, <1>5 DEF File!Ahead
  <2> HIDE DEF f, p
  <2> QED BY <1>3, <2>1, AheadIs
<1> QED BY <1>1, <1>2, <1>3, <1>4, <1>5, <1>6, <1>7 DEF OpenIs

\* A call of stream s leaves its cursor at p, and nothing else that can be seen has
\* changed.
StepMoved(s, p) ==
    /\ mode' = mode /\ open' \subseteq Users /\ s \in open'
    /\ \A t \in Ids : t # s => (t \in open' <=> t \in open)
    /\ Moved(World', World, mode, s, lag', p)
    /\ out'.op = "read" /\ out'.asked = 1
         => out'.stream = s /\ Returnable(st'[s], Capacity[s], out'.data)

\* Such a step keeps the invariant.
LEMMA StepMovedKeeps ==
    ASSUME IInv, NEW s \in Users, NEW p, StepMoved(s, p)
    PROVE  IInv'
<1>1. /\ mode' = mode /\ open' \subseteq Users /\ s \in open'
      /\ Moved(World', World, mode, s, lag', p)
  BY DEF StepMoved
<1>2. mode \in {"archive", "file"} /\ (mode = "file" => Len(Bytes(World)) <= MaxFile)
  BY DEF IInv
<1>3. Good(World', mode, lag') /\ Bytes(World') = Bytes(World)
  BY <1>1 DEF Moved
<1>4. mode = "file" => s = 0
  BY DEF Users
<1>5. Users' = Users
  BY <1>1 DEF Users
<1>6. (out.op = "read" /\ out.asked = 1 /\ out.stream \in open
         => Returnable(st[out.stream], Capacity[out.stream], out.data))'
  BY DEF StepMoved
<1>7. (mode \in {"archive", "file"} /\ open \subseteq Users /\ Good(World, mode, lag))'
  BY <1>1, <1>2, <1>3, <1>5
<1>8. (mode = "file" => Len(Bytes(World)) <= MaxFile)'
  BY <1>1, <1>2, <1>3
<1>9. (mode = "file" /\ 0 \notin open => raw = 0 /\ lag = 0 /\ st[0] = Fresh)'
  BY <1>1, <1>4
<1> QED BY <1>6, <1>7, <1>8, <1>9 DEF IInv

\* A step that moves a cursor, opens or closes its stream changes nothing else that is seen.
LEMMA MoveShows ==
    ASSUME IInv, NEW s \in Users, NEW q, Moved(World', World, mode, s, lag', q), mode' = mode,
           \A t \in Ids : t # s => (t \in open' <=> t \in open),
           NEW p, Stands(World', open', s) = p
    PROVE  File!Move(s, p)
<1> DEFINE v == World'
           w == World
           b == [t \in Ids |-> Shows(w, mode, t)]
           a == [t \in Ids |-> Stands(w, open, t)]
<1>1. /\ mode' = mode /\ Stands(v, open', s) = p /\ Moved(v, w, mode, s, lag', q)
      /\ \A t \in Ids : t # s => (t \in open' <=> t \in open)
  OBVIOUS
<1>2. mode \in {"archive", "file"} /\ open \subseteq Users
  BY DEF IInv
<1>3. /\ SeenBytes = b /\ SeenCursor = a
      /\ SeenBytes' = [t \in Ids |-> Shows(v, mode', t)]
      /\ SeenCursor' = [t \in Ids |-> Stands(v, open', t)]
  BY ShownIs, ShownNext
<1> HIDE DEF v, w
<1>4. s \in Ids /\ (mode = "file" => s = 0) /\ (mode = "archive" => s \in Members /\ s # 0)
  BY <1>2, Ids0 DEF Users
<1>5. Bytes(v) = Bytes(w) /\ \A t \in Members \ {s} : v.st[t] = w.st[t]
  BY <1>1 DEF Moved
<1>6. ASSUME NEW t \in Ids PROVE Shows(v, mode', t) = Shows(w, mode, t)
  BY <1>1, <1>5 DEF Shows
<1>7. ASSUME NEW t \in Ids PROVE Stands(v, open', t) = [a EXCEPT ![s] = p][t]
  <2>1. CASE t = s
    BY <1>1, <1>4, <2>1
  <2>2. CASE t # s
    <3>1. [a EXCEPT ![s] = p][t] = Stands(w, open, t)
      BY <2>2
    <3>2. t \in open' <=> t \in open
      BY <1>1, <2>2
    <3>3. CASE t \in open
      <4>1. t \in Members /\ t # 0
        BY <1>2, <1>4, <2>2, <3>3, Ids0 DEF Users
      <4>2. v.st[t] = w.st[t]
        BY <1>5, <2>2, <4>1
      <4> QED BY <3>1, <3>2, <4>1, <4>2 DEF Stands, At, Tell
    <3> QED BY <3>1, <3>2, <3>3 DEF Stands
  <2> QED BY <2>1, <2>2
<1>8. SeenBytes' = SeenBytes
  BY <1>3, <1>6
<1>9. SeenCursor' = [SeenCursor EXCEPT ![s] = p]
  <2>1. [a EXCEPT ![s] = p] = [t \in Ids |-> [a EXCEPT ![s] = p][t]]
    OBVIOUS
  <2>2. [t \in Ids |-> Stands(v, open', t)] = [t \in Ids |-> [a EXCEPT ![s] = p][t]]
    BY <1>7
  <2> HIDE DEF a
  <2> QED BY <1>3, <2>1, <2>2
<1> QED BY <1>8, <1>9 DEF File!Move

\* Such a step moves the cursor in the abstract file.
LEMMA StepMovedShows ==
    ASSUME IInv, NEW s \in Users, NEW p, StepMoved(s, p)
    PROVE  File!Move(s, p)
<1>1. /\ Moved(World', World, mode, s, lag', p) /\ mode' = mode /\ s \in open'
      /\ \A t \in Ids : t # s => (t \in open' <=> t \in open)
  BY DEF StepMoved
<1>2. Stands(World', open', s) = p
  BY <1>1 DEF Stands, Moved
<1> QED BY <1>1, <1>2, MoveShows

\* A call of an open stream that moves its cursor to p.
Called(s, y, p) ==
    /\ s \in open /\ mode' = mode /\ open' = open
    /\ Moved(y, World, mode, s, lag', p) /\ Becomes(y)

\* Such a call keeps the invariant and moves the cursor in the abstract file.
LEMMA CalledKeeps ==
    ASSUME IInv, NEW s, NEW y, NEW p, Called(s, y, p),
           out'.op = "read" /\ out'.asked = 1
             => out'.stream = s /\ Returnable(y.st[s], Capacity[s], out'.data)
    PROVE  IInv' /\ File!Move(s, p)
<1>1. /\ s \in open /\ mode' = mode /\ open' = open /\ Moved(y, World, mode, s, lag', p)
      /\ Becomes(y) /\ st' = y.st
  BY DEF Called, Becomes
<1>2. open \subseteq Users
  BY DEF IInv
<1>3. World' = y
  <2>1. y \in Worlds
    BY <1>1 DEF Moved, Good, Base
  <2> QED BY <1>1, <2>1, BecomesIs
<1>4. Moved(World', World, mode, s, lag', p)
  BY <1>1, <1>3
<1>5. StepMoved(s, p)
  BY <1>1, <1>2, <1>4 DEF StepMoved
<1>6. s \in Users
  BY <1>1, <1>2
<1> QED BY <1>5, <1>6, StepMovedKeeps, StepMovedShows

\* A step of the abstract file.
Stored(s) ==
    \/ File!AOpen(s) \/ File!ACreate(s) \/ File!AGets(s) \/ File!AScan(s) \/ File!AUnGetCh(s)
    \/ File!ATell(s) \/ File!ASize(s) \/ File!AFlush(s) \/ File!AClose(s)
    \/ \E n \in Sizes \cup {1} : File!ARead(s, n)
    \/ \E d \in Pieces : File!AWrite(s, d)
    \/ \E p \in 0..Len(SeenBytes[s]) : File!ASeek(s, p)

\* It is one of the steps of the abstract specification.
LEMMA StoredIs == ASSUME NEW s \in Ids, Stored(s) PROVE File!FileNext
BY DEF Stored, File!FileNext

\* What a reader takes from what is ahead.
LEMMA UptoAhead ==
    ASSUME NEW f \in Seq(Byte), NEW p \in Nat, p <= Len(f), NEW n \in Nat
    PROVE  File!Upto(Cut(f, p, Len(f) - p), n) = Cut(f, p, n)
<1> DEFINE z == Len(f) - p
           a == Cut(f, p, z)
           o == 0
           k == Least(n, z)
<1>1. z = Len(f) - p /\ a = Cut(f, p, z) /\ k = Least(n, z)
  OBVIOUS
<1>2. z \in Nat /\ p + z <= Len(f) /\ o \in 0..z /\ p + o = p /\ z - o = z /\ o = 0
  OBVIOUS
<1> HIDE DEF z, a, o, k
<1>3. a \in Seq(Byte)
  BY <1>1, AheadPiece DEF Piece
<1>4. File!Upto(a, n) = Cut(a, 0, n)
  BY <1>3, UptoIs
<1>5. Cut(Cut(f, p, z), o, n) = Cut(f, p + o, Least(n, z - o))
  BY <1>2, CutCut
<1>6. k = Least(n, Len(f) - p)
  BY <1>1
<1>7. Cut(f, p, n) = Cut(f, p, k)
  BY <1>6, CutShort
<1>8. File!Upto(a, n) = Cut(f, p, k)
  BY <1>1, <1>2, <1>4, <1>5
<1> QED BY <1>7, <1>8 DEF a, z

\* Read and GetCh.
LEMMA ReadStep ==
    ASSUME IInv, NEW s, s \in open, mode' = mode, open' = open, lag = 0, lag' = 0,
           NEW n \in Sizes \cup {1}, NEW y, ReadOK(y, World, mode, s, n), Becomes(y.w),
           Returns("read", s, n, y.data)
    PROVE  IInv' /\ Stored(s)
<1> DEFINE f == Holds(World, s)
           p == At(World, s)
           d == y.data
           v == y.w
<1>1. /\ Moved(v, World, mode, s, 0, p + Len(d)) /\ d = Cut(f, p, n)
      /\ (n = 1 => Returnable(v.st[s], Capacity[s], d))
  BY DEF ReadOK
<1>2. out' = [op |-> "read", stream |-> s, asked |-> n, data |-> d]
  BY DEF Returns
<1>3. out'.stream = s /\ out'.asked = n /\ out'.data = d
  BY <1>2
<1>4. Called(s, v, p + Len(d))
  BY <1>1 DEF Called
<1>5. n \in Nat
  BY StreamsAssumption
<1>6. OpenIs(World, mode, s, lag)
  BY OpenFacts
<1> HIDE DEF d, v
<1>7. IInv' /\ File!Move(s, p + Len(d))
  BY <1>1, <1>3, <1>4, CalledKeeps
<1>8. /\ f \in Seq(Byte) /\ p \in Nat /\ p <= Len(f) /\ File!IsOpen(s) /\ SeenCursor[s] = p
      /\ File!Ahead(s) = Cut(f, p, Len(f) - p)
  BY <1>6 DEF OpenIs, Sees
<1> HIDE DEF f, p
<1>9. File!Upto(File!Ahead(s), n) = d
  BY <1>1, <1>5, <1>8, UptoAhead
<1>10. File!ARead(s, n)
  BY <1>2, <1>7, <1>8, <1>9 DEF File!ARead, File!Returns
<1> QED BY <1>7, <1>10 DEF Stored

\* A read keeps the invariant and is the abstract file's read.
LEMMA ReadCallStep ==
    ASSUME IInv, NEW s \in Users, NEW n \in Sizes, ReadCall(s, n)
    PROVE  IInv' /\ Stored(s)
<1> DEFINE y == Read(World, s, n)
<1>1. /\ s \in open /\ mode' = mode /\ open' = open /\ lag = 0 /\ lag' = 0
      /\ Becomes(y.w) /\ Returns("read", s, n, y.data)
  BY DEF ReadCall, Call
<1>2. mode \in {"archive", "file"} /\ Good(World, mode, 0) /\ s \in UsersOf(mode) /\ n \in Nat
      /\ y = Read(World, s, n) /\ n \in Sizes \cup {1}
  BY <1>1, UsersIs, StreamsAssumption DEF IInv
<1> HIDE DEF y
<1>3. ReadOK(y, World, mode, s, n)
  <2> DEFINE w == World
  <2>1. Good(w, mode, 0) /\ y = Read(w, s, n)
    BY <1>2
  <2> HIDE DEF w
  <2>2. ReadOK(y, w, mode, s, n)
    BY <1>2, <2>1, ReadFacts
  <2> QED BY <2>2 DEF w
<1> QED BY <1>1, <1>2, <1>3, ReadStep

\* A call of GetCh is the abstract file's read of one byte.
LEMMA GetChCallStep ==
    ASSUME IInv, NEW s \in Users, GetChCall(s)
    PROVE  IInv' /\ Stored(s)
<1> DEFINE y == GetCh(World, s)
           n == 1
<1>1. /\ s \in open /\ mode' = mode /\ open' = open /\ lag = 0 /\ lag' = 0
      /\ Becomes(y.w) /\ Returns("read", s, n, y.data)
  BY DEF GetChCall, Call
<1>2. mode \in {"archive", "file"} /\ Good(World, mode, 0) /\ s \in UsersOf(mode)
      /\ y = GetCh(World, s) /\ n \in Sizes \cup {1}
  BY <1>1, UsersIs DEF IInv
<1>3. ReadOK(y, World, mode, s, n)
  <2> DEFINE w == World
  <2>1. Good(w, mode, 0) /\ y = GetCh(w, s)
    BY <1>2
  <2> HIDE DEF w, y
  <2>2. ReadOK(y, w, mode, s, 1)
    BY <1>2, <2>1, GetChFacts
  <2> QED BY <2>2 DEF w
<1> HIDE DEF y, n
<1> QED BY <1>1, <1>2, <1>3, ReadStep

\* What is returned of a line.
LEMMA LineKept ==
    ASSUME NEW d \in Seq(Byte)
    PROVE  Cut(d, 0, LineMax - 1) = File!Upto(d, LineMax - 1)
<1>1. LineMax - 1 \in Nat
  BY StreamsAssumption
<1> QED BY <1>1, UptoIs

\* A call of a stream in use, of the kinds that read or seek.
LEMMA CallFacts ==
    ASSUME IInv, NEW s \in Users, Call(s)
    PROVE  /\ s \in open /\ mode' = mode /\ open' = open /\ OpenIs(World, mode, s, lag)
           /\ s \in Ids
<1>1. s \in open /\ mode' = mode /\ open' = open
  BY DEF Call
<1>2. OpenIs(World, mode, s, lag)
  BY <1>1, OpenFacts
<1> QED BY <1>1, <1>2 DEF OpenIs

\* A call of Gets is the abstract file's.
LEMMA GetsCallStep ==
    ASSUME IInv, NEW s \in Users, GetsCall(s)
    PROVE  IInv' /\ Stored(s)
<1> DEFINE y == Gets(World, s)
           f == Holds(World, s)
           p == At(World, s)
           d == y.data
           v == y.w
<1>1. /\ Call(s) /\ lag = 0 /\ lag' = 0
      /\ Becomes(v) /\ Returns("gets", s, 0, Cut(d, 0, LineMax - 1))
  BY DEF GetsCall
<1>2. /\ s \in open /\ mode' = mode /\ open' = open /\ OpenIs(World, mode, s, 0)
  BY <1>1, CallFacts
<1>3. GetsOK(y, World, mode, s)
  <2> DEFINE w == World
  <2>1. mode \in {"archive", "file"} /\ Good(w, mode, 0) /\ s \in UsersOf(mode) /\ y = Gets(w, s)
    BY <1>2 DEF OpenIs
  <2> HIDE DEF w, y
  <2>2. GetsOK(y, w, mode, s)
    BY <2>1, GetsFacts
  <2> QED BY <2>2 DEF w
<1>4. Moved(v, World, mode, s, 0, p + Len(d)) /\ d = File!Line(Cut(f, p, Len(f) - p))
      /\ d \in Seq(Byte)
  BY <1>3 DEF GetsOK
<1>5. Called(s, v, p + Len(d))
  BY <1>1, <1>2, <1>4 DEF Called
<1>6. out' = [op |-> "gets", stream |-> s, asked |-> 0, data |-> File!Upto(d, LineMax - 1)]
  BY <1>1, <1>4, LineKept DEF Returns
<1>7. out'.op = "gets"
  BY <1>6
<1> HIDE DEF d, v
<1>8. IInv' /\ File!Move(s, p + Len(d))
  BY <1>5, <1>7, CalledKeeps
<1>9. File!IsOpen(s) /\ SeenCursor[s] = p /\ File!Ahead(s) = Cut(f, p, Len(f) - p)
  BY <1>2 DEF OpenIs
<1> HIDE DEF f, p
<1>10. File!AGets(s)
  BY <1>4, <1>6, <1>8, <1>9 DEF File!AGets, File!Returns
<1> QED BY <1>8, <1>10 DEF Stored

\* The spaces that Vscanf skips are all there are.
SpacesIn(a) == {i \in 0..Len(a) : \A j \in 1..i : a[j] = NewLine}
Skipped(a)  == CHOOSE i \in SpacesIn(a) : \A j \in SpacesIn(a) : j <= i

\* They are as many as the abstract file finds.
LEMMA SpacesAre ==
    ASSUME NEW f \in Seq(Byte), NEW p \in Nat, p <= Len(f), NEW k, Spaces(f, p, k),
           NEW a, a = Cut(f, p, Len(f) - p)
    PROVE  Skipped(a) = k
<1> DEFINE spaces == SpacesIn(a)
<1>0. spaces = {i \in 0..Len(a) : \A j \in 1..i : a[j] = NewLine}
  BY DEF SpacesIn
<1>1. /\ k \in Nat /\ p + k <= Len(f) /\ (\A j \in 1..k : f[p + j] = NewLine)
      /\ (p + k < Len(f) => f[p + k + 1] # NewLine)
  BY DEF Spaces
<1> DEFINE z == Len(f) - p
<1>2. Piece(a, f, p, z)
  BY AheadPiece
<1>3. Len(a) = z /\ \A i \in 1..z : a[i] = f[p + i]
  BY <1>2 DEF Piece
<1>4. z \in Nat /\ k <= z /\ (k < z => p + k < Len(f)) /\ Len(f) \in Nat
  BY <1>1
<1> HIDE DEF z, spaces
<1>5. k \in spaces
  <2>1. k \in 0..Len(a)
    BY <1>1, <1>3, <1>4
  <2>2. ASSUME NEW j \in 1..k PROVE a[j] = NewLine
    <3>1. j \in 1..z /\ f[p + j] = NewLine
      BY <1>1, <1>4
    <3> QED BY <1>3, <3>1
  <2> QED BY <1>0, <2>1, <2>2
<1>6. ASSUME NEW i \in spaces PROVE i \in Nat /\ i <= k
  <2>1. i \in 0..z /\ \A j \in 1..i : a[j] = NewLine
    BY <1>0, <1>3
  <2>2. SUFFICES ASSUME ~(i <= k) PROVE FALSE
    BY <2>1
  <2> DEFINE q == k + 1
  <2>3. q \in 1..i /\ q \in 1..z /\ k < z /\ p + q = p + k + 1
    BY <1>1, <1>4, <2>1, <2>2
  <2> HIDE DEF q
  <2>4. a[q] = NewLine /\ a[q] = f[p + q]
    BY <1>3, <2>1, <2>3
  <2> QED BY <1>1, <1>4, <2>3, <2>4
<1>7. ASSUME NEW i \in spaces, \A j \in spaces : j <= i PROVE i = k
  <2>1. k <= i /\ i <= k /\ i \in Nat
    BY <1>5, <1>6, <1>7
  <2> QED BY <1>1, <2>1
<1>8. \A j \in spaces : j <= k
  BY <1>6
<1>9. (CHOOSE i \in spaces : \A j \in spaces : j <= i) = k
  BY <1>5, <1>7, <1>8
<1> QED BY <1>9 DEF Skipped, spaces

\* What is ahead k bytes on.
LeftIs(a, k, f, q) == SubSeq(a, k + 1, Len(a)) = Cut(f, q, Len(f) - q)

\* It is what is ahead of the place k bytes on.
LEMMA AheadOfAhead ==
    ASSUME NEW f \in Seq(Byte), NEW p \in Nat, NEW k \in Nat, p + k <= Len(f),
           NEW a, a = Cut(f, p, Len(f) - p), NEW q, q = p + k
    PROVE  LeftIs(a, k, f, q)
<1> DEFINE z == Len(f) - p
           m == z - k
<1>1. /\ z \in Nat /\ m \in Nat /\ p <= Len(f) /\ m = Len(f) - q /\ z = Len(f) - p
      /\ a = Cut(f, p, z)
  OBVIOUS
<1>2. z \in Nat /\ p + z <= Len(f) /\ k \in 0..z /\ m \in Nat
  OBVIOUS
<1>3. m = z - k /\ k <= z
  OBVIOUS
<1> HIDE DEF z, m
<1>4. Piece(a, f, p, z)
  BY <1>1, AheadPiece
<1>5. a \in Seq(Byte) /\ Len(a) = z
  BY <1>4 DEF Piece
<1>6. SubSeq(a, k + 1, Len(a)) = Cut(a, k, m)
  <2>1. k <= Len(a) /\ Len(a) - k = m
    BY <1>3, <1>5
  <2> QED BY <1>5, <2>1, AheadIs
<1>7. Cut(Cut(f, p, z), k, m) = Cut(f, p + k, Least(m, z - k))
  BY <1>2, CutCut
<1>8. Least(m, z - k) = m
  BY <1>1, <1>3 DEF Least
<1> QED BY <1>1, <1>6, <1>7, <1>8 DEF LeftIs

\* A call of Vscanf is the abstract file's.
LEMMA VscanfCallStep ==
    ASSUME IInv, NEW s \in Users, VscanfCall(s)
    PROVE  IInv' /\ Stored(s)
<1> DEFINE y == Vscanf(World, s)
           f == Holds(World, s)
           p == At(World, s)
           d == y.data
           v == y.w
<1>1. /\ Call(s) /\ lag = 0 /\ lag' = 0 /\ Capacity[s] > 0
      /\ Becomes(v) /\ Returns("scan", s, 0, Cut(d, 0, LineMax - 1))
  BY DEF VscanfCall
<1>2. /\ s \in open /\ mode' = mode /\ open' = open /\ OpenIs(World, mode, s, 0)
  BY <1>1, CallFacts
<1>3. PICK k : ScanOK(y, World, mode, s, k)
  <2> DEFINE w == World
  <2>1. mode \in {"archive", "file"} /\ Good(w, mode, 0) /\ s \in UsersOf(mode) /\ y = Vscanf(w, s)
    BY <1>2 DEF OpenIs
  <2> HIDE DEF w, y
  <2>2. \E k : ScanOK(y, w, mode, s, k)
    BY <1>1, <2>1, VscanfFacts
  <2> QED BY <2>2 DEF w
<1> DEFINE q == p + k
<1>4. /\ Spaces(f, p, k) /\ Moved(v, World, mode, s, 0, q + Len(d)) /\ d \in Seq(Byte)
      /\ d = File!Line(Cut(f, q, Len(f) - q))
  BY <1>3 DEF ScanOK
<1>5. Called(s, v, q + Len(d))
  BY <1>1, <1>2, <1>4 DEF Called
<1>6. out' = [op |-> "scan", stream |-> s, asked |-> 0, data |-> File!Upto(d, LineMax - 1)]
  BY <1>1, <1>4, LineKept DEF Returns
<1>7. out'.op = "scan"
  BY <1>6
<1> HIDE DEF d, v
<1>8. IInv' /\ File!Move(s, p + k + Len(d))
  BY <1>5, <1>7, CalledKeeps
<1>9. /\ File!IsOpen(s) /\ SeenCursor[s] = p /\ File!Ahead(s) = Cut(f, p, Len(f) - p)
      /\ f \in Seq(Byte) /\ p \in Nat /\ p <= Len(f)
  BY <1>2 DEF OpenIs, Sees
<1> HIDE DEF f, p
<1> DEFINE a == File!Ahead(s)
           spaces == {i \in 0..Len(a) : \A j \in 1..i : a[j] = NewLine}
           skip == CHOOSE i \in spaces : \A j \in spaces : j <= i
<1>10. skip = k
  <2>1. a = Cut(f, p, Len(f) - p) /\ skip = Skipped(a)
    BY <1>9 DEF Skipped, SpacesIn
  <2> HIDE DEF a, skip
  <2> QED BY <1>4, <1>9, <2>1, SpacesAre
<1>11. SubSeq(a, k + 1, Len(a)) = Cut(f, q, Len(f) - q)
  <2>1. /\ f \in Seq(Byte) /\ p \in Nat /\ k \in Nat /\ p + k <= Len(f)
        /\ a = Cut(f, p, Len(f) - p) /\ q = p + k
    BY <1>4, <1>9 DEF Spaces
  <2> HIDE DEF a, q
  <2>2. LeftIs(a, k, f, q)
    BY <2>1, AheadOfAhead
  <2> QED BY <2>2 DEF LeftIs
<1>12. File!Line(SubSeq(a, k + 1, Len(a))) = d
  BY <1>4, <1>11
<1>13. /\ File!Move(s, SeenCursor[s] + skip + Len(File!Line(SubSeq(a, skip + 1, Len(a)))))
       /\ File!Returns("scan", s, 0, File!Upto(File!Line(SubSeq(a, skip + 1, Len(a))), LineMax - 1))
  <2> HIDE DEF a, skip
  <2> QED BY <1>6, <1>8, <1>9, <1>10, <1>12 DEF File!Returns
<1>14. File!AScan(s)
  BY <1>9, <1>13 DEF File!AScan
<1> QED BY <1>8, <1>14 DEF Stored

\* A call of UnGetCh is the abstract file's.
LEMMA UnGetChCallStep ==
    ASSUME IInv, NEW s \in Users, UnGetChCall(s)
    PROVE  IInv' /\ Stored(s)
<1> DEFINE d == out.data
           v == UnGet(World, s, d)
           p == At(World, s) - 1
<1>1. /\ Call(s) /\ out.op = "read" /\ out.stream = s /\ out.asked = 1 /\ d # <<>>
      /\ Capacity[s] > 0 /\ Becomes(v) /\ Returns("unget", s, 0, d) /\ lag' = lag
  BY DEF UnGetChCall
<1>2. s \in open /\ mode' = mode /\ open' = open /\ OpenIs(World, mode, s, lag)
  BY <1>1, CallFacts
<1>3. Returnable(World.st[s], Capacity[s], d)
  BY <1>1, <1>2, WorldIs DEF IInv
<1>4. Moved(v, World, mode, s, 0, p) /\ lag = 0
  <2> DEFINE w == World
             g == lag
  <2>1. /\ mode \in {"archive", "file"} /\ Good(w, mode, g) /\ s \in UsersOf(mode)
        /\ Capacity[s] > 0 /\ d # <<>> /\ Returnable(w.st[s], Capacity[s], d)
        /\ v = UnGet(w, s, d)
    BY <1>1, <1>2, <1>3 DEF OpenIs
  <2> HIDE DEF w, g, d, v
  <2>2. Moved(v, w, mode, s, 0, At(w, s) - 1) /\ g = 0
    BY <2>1, UnGetFacts
  <2> QED BY <2>2 DEF w, g
<1>5. Called(s, v, p)
  BY <1>1, <1>2, <1>4 DEF Called
<1>6. out' = [op |-> "unget", stream |-> s, asked |-> 0, data |-> d]
  BY <1>1 DEF Returns
<1>7. out'.op = "unget"
  BY <1>6
<1>8. SeenCursor[s] = At(World, s)
  BY <1>2 DEF OpenIs
<1> HIDE DEF v, p
<1>9. IInv' /\ File!Move(s, p)
  BY <1>5, <1>7, CalledKeeps
<1>10. File!AUnGetCh(s)
  BY <1>1, <1>6, <1>8, <1>9 DEF File!AUnGetCh, File!Returns, p
<1> QED BY <1>9, <1>10 DEF Stored

\* A seek, wherever the place comes from.
LEMMA SeekStep ==
    ASSUME IInv, NEW s \in Users, Call(s), NEW p \in 0..RawSize(World, s),
           Becomes(Seek(World, s, p)), Returns("seek", s, p, <<p>>), lag' = 0
    PROVE  IInv' /\ Stored(s)
<1> DEFINE v == Seek(World, s, p)
<1>1. s \in open /\ mode' = mode /\ open' = open /\ OpenIs(World, mode, s, lag)
  BY CallFacts
<1>2. p \in Nat /\ p <= Len(Holds(World, s)) /\ Len(Holds(World, s)) \in Nat
  BY <1>1 DEF OpenIs, Sees
<1>3. Moved(v, World, mode, s, 0, p)
  <2> DEFINE w == World
             g == lag
  <2>1. /\ mode \in {"archive", "file"} /\ Good(w, mode, g) /\ s \in UsersOf(mode)
        /\ p <= Len(Holds(w, s)) /\ v = Seek(w, s, p)
    BY <1>1, <1>2 DEF OpenIs
  <2> HIDE DEF w, g, v
  <2>2. Moved(v, w, mode, s, 0, p)
    BY <1>2, <2>1, SeekCallFacts
  <2> QED BY <2>2 DEF w
<1>4. Called(s, v, p)
  BY <1>1, <1>3 DEF Called
<1>5. out' = [op |-> "seek", stream |-> s, asked |-> p, data |-> <<p>>]
  BY DEF Returns
<1>6. out'.op = "seek"
  BY <1>5
<1> HIDE DEF v
<1>7. IInv' /\ File!Move(s, p)
  BY <1>4, <1>6, CalledKeeps
<1>8. File!ASeek(s, p)
  BY <1>1, <1>5, <1>7 DEF File!ASeek, File!Returns, OpenIs
<1>9. p \in 0..Len(SeenBytes[s])
  BY <1>1, <1>2 DEF OpenIs
<1> QED BY <1>7, <1>8, <1>9 DEF Stored

\* A seek to a place.
LEMMA SeekCallStep ==
    ASSUME IInv, NEW s \in Users, NEW p, SeekCall(s, p)
    PROVE  IInv' /\ Stored(s)
BY SeekStep DEF SeekCall

\* A seek from the cursor.
LEMMA SeekAheadStep ==
    ASSUME IInv, NEW s \in Users, NEW k, SeekAhead(s, k)
    PROVE  IInv' /\ Stored(s)
<1> DEFINE p == Tell(World, s) + k
<1>1. /\ Call(s) /\ p \in 0..RawSize(World, s) /\ Becomes(Seek(World, s, p))
      /\ Returns("seek", s, p, <<p>>) /\ lag' = 0
  BY DEF SeekAhead
<1> HIDE DEF p
<1> QED BY <1>1, SeekStep

\* Tell returns the cursor.
LEMMA TellCallStep ==
    ASSUME IInv, NEW s \in Users, TellCall(s)
    PROVE  IInv' /\ Stored(s)
<1> DEFINE w == World
           p == At(w, s)
<1>1. /\ Call(s) /\ lag = 0 /\ lag' = 0 /\ disk' = disk /\ raw' = raw /\ st' = st
      /\ Returns("tell", s, 0, <<Tell(w, s)>>)
  BY DEF TellCall
<1>2. s \in open /\ mode' = mode /\ open' = open /\ OpenIs(w, mode, s, 0)
  BY <1>1, CallFacts
<1>3. Good(w, mode, 0) /\ p \in Nat /\ p = Tell(w, s) + 0 /\ SeenCursor[s] = p /\ File!IsOpen(s)
  BY <1>2 DEF OpenIs, Sees
<1>4. Moved(w, w, mode, s, 0, p) /\ Becomes(w)
  BY <1>1, <1>3, WorldIs DEF Moved, Becomes
<1>5. Called(s, w, p)
  BY <1>1, <1>2, <1>4 DEF Called
<1>6. Tell(w, s) = p
  <2>1. Tell(w, s) \in Nat
    <3>1. w \in Worlds /\ s \in Ids
      BY <1>2 DEF OpenIs, Sees
    <3>2. w.st[s] \in Stream
      BY <3>1 DEF Worlds
    <3> HIDE DEF w
    <3>3. w.st[s].pos \in Nat /\ w.st[s].head \in Nat
      BY <3>2 DEF Stream
    <3> QED BY <3>3 DEF Tell
  <2> HIDE DEF p, w
  <2> QED BY <1>3, <2>1
<1>7. out' = [op |-> "tell", stream |-> s, asked |-> 0, data |-> <<p>>]
  BY <1>1, <1>6 DEF Returns
<1>8. out'.op = "tell"
  BY <1>7
<1> HIDE DEF w, p
<1>9. IInv' /\ File!Move(s, p)
  BY <1>5, <1>8, CalledKeeps
<1>10. File!ATell(s)
  BY <1>3, <1>7, <1>9 DEF File!ATell, File!Returns
<1> QED BY <1>9, <1>10 DEF Stored

\* The calls that flush: what they leave, and the size of the file.
FlushedIs(s, y) ==
    /\ OpenIs(World, mode, s, lag) /\ IInv' /\ File!Move(s, SeenCursor[s])
    /\ RawSize(y, s) = Len(SeenBytes[s])

\* A flush keeps the invariant, the bytes and the cursor.
LEMMA FlushStep ==
    ASSUME IInv, NEW s \in Users, Call(s), NEW y, y = Flush(World, s), Becomes(y), lag' = lag,
           out'.op # "read"
    PROVE  FlushedIs(s, y)
<1> DEFINE p == At(World, s)
           w == World
           g == lag
<1>1. s \in open /\ mode' = mode /\ open' = open /\ OpenIs(w, mode, s, g)
  BY CallFacts
<1>2. mode \in {"archive", "file"} /\ Good(w, mode, g) /\ s \in UsersOf(mode) /\ y = Flush(w, s)
  BY <1>1 DEF OpenIs
<1>3. Moved(y, w, mode, s, g, At(w, s)) /\ y.disk = Bytes(w)
  <2> HIDE DEF w, g
  <2> QED BY <1>2, FlushFacts
<1>4. Called(s, y, p)
  BY <1>1, <1>3 DEF Called
<1>5. SeenCursor[s] = p /\ SeenBytes[s] = Holds(w, s) /\ s \in Ids
  BY <1>1 DEF OpenIs
<1>6. RawSize(y, s) = Len(Holds(w, s))
  <2>1. CASE s = 0
    BY <1>3, <2>1 DEF RawSize, Holds
  <2>2. CASE s # 0
    <3>1. s \in Members
      BY <1>5, <2>2, Ids0
    <3>2. Len(FileOf(s)) = MemberSize[s]
      BY <3>1, FileOfIs
    <3> QED BY <2>2, <3>2 DEF RawSize, Holds
  <2> QED BY <2>1, <2>2
<1> HIDE DEF p
<1>7. IInv' /\ File!Move(s, p)
  BY <1>4, CalledKeeps
<1> QED BY <1>1, <1>5, <1>6, <1>7 DEF FlushedIs

\* Size returns the length of the file that is seen.
LEMMA SizeCallStep ==
    ASSUME IInv, NEW s \in Users, SizeCall(s)
    PROVE  IInv' /\ Stored(s)
<1> DEFINE y == Flush(World, s)
<1>1. /\ Call(s) /\ Becomes(y) /\ lag' = lag /\ y = Flush(World, s)
      /\ out' = [op |-> "size", stream |-> s, asked |-> 0, data |-> <<RawSize(y, s)>>]
  BY DEF SizeCall, Returns
<1>2. out'.op = "size"
  BY <1>1
<1> HIDE DEF y
<1>3. FlushedIs(s, y)
  BY <1>1, <1>2, FlushStep
<1>4. File!ASize(s)
  BY <1>1, <1>3 DEF FlushedIs, OpenIs, File!ASize, File!Returns
<1> QED BY <1>3, <1>4 DEF FlushedIs, Stored

\* A flush shows in nothing.
LEMMA FlushCallStep ==
    ASSUME IInv, NEW s \in Users, FlushCall(s)
    PROVE  IInv' /\ Stored(s)
<1> DEFINE y == Flush(World, s)
<1>1. /\ Call(s) /\ Becomes(y) /\ lag' = lag /\ y = Flush(World, s)
      /\ out' = [op |-> "flush", stream |-> s, asked |-> 0, data |-> <<>>]
  BY DEF FlushCall, Returns
<1>2. out'.op = "flush"
  BY <1>1
<1> HIDE DEF y
<1>3. FlushedIs(s, y)
  BY <1>1, <1>2, FlushStep
<1>4. File!AFlush(s)
  BY <1>1, <1>3 DEF FlushedIs, OpenIs, File!AFlush, File!Returns
<1> QED BY <1>3, <1>4 DEF FlushedIs, Stored
-----------------------------------------------------------------------------
(* Files that are opened, written to and closed *)

\* A file nothing was read from or written to since it was opened.
LEMMA FreshFile ==
    ASSUME NEW v \in Worlds, v.raw = 0, v.st[0] = Fresh, \A m \in Members : v.st[m] = Fresh
    PROVE  Good(v, "file", 0) /\ Bytes(v) = v.disk /\ Cur(v) = 0 /\ Pending(v, 0)
<1> DEFINE f == v.disk
           e == <<>>
           o == 0
<1>1. f \in Seq(Byte) /\ o \in Nat /\ o <= Len(f) /\ Len(f) \in Nat
  BY DEF Worlds
<1>2. v.st[0].read = 0 /\ v.st[0].head = 0 /\ v.st[0].pos = 0 /\ v.st[0].buf = e /\ Len(e) = 0
  BY DEF Fresh
<1>3. Capacity[0] \in Nat
  BY Ids0
<1>4. Overlay(f, o, e) = f
  <2> HIDE DEF f, o
  <2> QED BY <1>1, OverlayNone
<1>5. Pending(v, 0)
  BY <1>1, <1>2, <1>3 DEF Pending
<1>6. Base(v, 0)
  BY <1>5, PendingBase
<1>7. Bytes(v) = f /\ Cur(v) = 0
  BY <1>2, <1>4 DEF Bytes, Cur
<1> QED BY <1>5, <1>6, <1>7 DEF Good

\* The program that uses a file.
FileProgram(w, g) ==
    /\ mode = "file" /\ Users = {0} /\ Good(w, "file", g) /\ Base(w, g)
    /\ Len(Bytes(w)) <= MaxFile /\ \A m \in Members : w.st[m] = Fresh

\* It keeps its members' streams fresh.
LEMMA FileProgramIs ==
    ASSUME IInv, mode = "file"
    PROVE  FileProgram(World, lag)
BY DEF FileProgram, IInv, Users, Good

\* Its file holds b now, and its cursor is at p.
LEMMA FileChanged ==
    ASSUME IInv, mode = "file", mode' = mode, 0 \in open', open' \subseteq {0},
           Good(World', "file", lag'), NEW b, Bytes(World') = b, Len(b) <= MaxFile,
           NEW p, Cur(World') = p, out'.op # "read"
    PROVE  /\ IInv' /\ SeenBytes' = [SeenBytes EXCEPT ![0] = b]
           /\ SeenCursor' = [SeenCursor EXCEPT ![0] = p]
<1>1. Users = {0} /\ Users' = {0}
  BY DEF Users
<1>2. open \subseteq {0} /\ 0 \in Ids
  BY <1>1, Ids0 DEF IInv
<1>3. IInv'
  <2>1. (mode \in {"archive", "file"} /\ open \subseteq Users /\ Good(World, mode, lag))'
    BY <1>1
  <2>2. (mode = "file" => Len(Bytes(World)) <= MaxFile)'
    OBVIOUS
  <2>3. (mode = "file" /\ 0 \notin open => raw = 0 /\ lag = 0 /\ st[0] = Fresh)'
    OBVIOUS
  <2>4. (out.op = "read" /\ out.asked = 1 /\ out.stream \in open
           => Returnable(st[out.stream], Capacity[out.stream], out.data))'
    OBVIOUS
  <2> QED BY <2>1, <2>2, <2>3, <2>4 DEF IInv
<1>4. SeenBytes' = [SeenBytes EXCEPT ![0] = b]
  <2> DEFINE u == World'
             w == World
  <2>1. /\ SeenBytes = [s \in Ids |-> Shows(w, mode, s)]
        /\ SeenBytes' = [s \in Ids |-> Shows(u, mode', s)]
        /\ mode' = "file" /\ Bytes(u) = b
    BY ShownIs, ShownNext
  <2> HIDE DEF u, w
  <2>2. ASSUME NEW s \in Ids
        PROVE  Shows(u, mode', s) = IF s = 0 THEN b ELSE Shows(w, mode, s)
    BY <2>1 DEF Shows
  <2>3. [SeenBytes EXCEPT ![0] = b] = [s \in Ids |-> IF s = 0 THEN b ELSE Shows(w, mode, s)]
    BY <2>1
  <2> QED BY <2>1, <2>2, <2>3
<1>5. SeenCursor' = [SeenCursor EXCEPT ![0] = p]
  <2> DEFINE u == World'
             w == World
  <2>1. /\ SeenCursor = [s \in Ids |-> Stands(w, open, s)]
        /\ SeenCursor' = [s \in Ids |-> Stands(u, open', s)] /\ Cur(u) = p
    BY ShownIs, ShownNext
  <2> HIDE DEF u, w
  <2>2. ASSUME NEW s \in Ids
        PROVE  Stands(u, open', s) = IF s = 0 THEN p ELSE Stands(w, open, s)
    BY <1>2, <2>1 DEF Stands, At
  <2>3. [SeenCursor EXCEPT ![0] = p] = [s \in Ids |-> IF s = 0 THEN p ELSE Stands(w, open, s)]
    BY <2>1
  <2> QED BY <2>1, <2>2, <2>3
<1> QED BY <1>3, <1>4, <1>5

\* The file as it is on disk, opened.
LEMMA OpenedWorld ==
    ASSUME IInv, mode = "file", NEW f \in Seq(Byte), disk' = f, raw' = 0,
           st' = [st EXCEPT ![0] = Fresh]
    PROVE  /\ World' \in Worlds /\ Good(World', "file", 0) /\ Bytes(World') = f /\ Cur(World') = 0
           /\ (\A m \in Members : World'.st[m] = World.st[m]) /\ st'[0] = Fresh
<1> DEFINE v == World'
<1>1. st \in [Ids -> Stream] /\ \A m \in Members : st[m] = Fresh
  BY FileProgramIs, WorldIs DEF FileProgram, Base, Worlds
<1>2. st' \in [Ids -> Stream] /\ st'[0] = Fresh /\ \A m \in Members : st'[m] = Fresh
  <2>1. Fresh \in Stream
    BY DEF Fresh, Stream
  <2> HIDE DEF v
  <2> QED BY <1>1, <2>1, Ids0
<1>3. v \in Worlds
  BY <1>2 DEF World, Worlds
<1>4. v.disk = f /\ v.raw = 0 /\ v.st[0] = Fresh /\ \A m \in Members : v.st[m] = Fresh
  BY <1>2, WorldNext
<1>5. \A m \in Members : v.st[m] = World.st[m]
  BY <1>1, <1>4, WorldIs
<1> HIDE DEF v
<1>6. Good(v, "file", 0) /\ Bytes(v) = v.disk /\ Cur(v) = 0
  BY <1>3, <1>4, FreshFile
<1> QED BY <1>2, <1>3, <1>4, <1>5, <1>6 DEF v

\* Opening a file finds what the last close left.
LEMMA OpenFileStep ==
    ASSUME IInv, OpenFile
    PROVE  IInv' /\ Stored(0)
<1>1. /\ mode = "file" /\ 0 \notin open /\ open' = {0} /\ raw' = 0 /\ mode' = mode
      /\ st' = [st EXCEPT ![0] = Fresh] /\ lag' = 0 /\ disk' = disk
      /\ out' = [op |-> "open", stream |-> 0, asked |-> 0, data |-> <<>>]
  BY DEF OpenFile, Returns
<1>2. FileProgram(World, lag) /\ raw = 0 /\ lag = 0 /\ st[0] = Fresh
  BY <1>1, FileProgramIs DEF IInv
<1>3. World \in Worlds /\ World.raw = 0 /\ World.st[0] = Fresh /\ World.disk = disk
  BY <1>2, WorldIs DEF FileProgram, Base
<1>4. disk \in Seq(Byte)
  BY <1>3 DEF Worlds
<1>5. Bytes(World) = disk
  BY <1>2, <1>3, FreshFile DEF FileProgram
<1>6. /\ Good(World', "file", 0) /\ Bytes(World') = disk /\ Cur(World') = 0
      /\ \A m \in Members : World'.st[m] = World.st[m]
  BY <1>1, <1>4, OpenedWorld
<1>7. Moved(World', World, mode, 0, lag', 0)
  BY <1>1, <1>5, <1>6 DEF Moved, At
<1>8. 0 \in Users /\ open' \subseteq Users /\ out'.op = "open" /\ open \subseteq Users
  BY <1>1 DEF Users, IInv
<1>9. \A t \in Ids : t # 0 => (t \in open' <=> t \in open)
  BY <1>1, <1>2, <1>8 DEF FileProgram
<1>10. StepMoved(0, 0)
  BY <1>1, <1>7, <1>8, <1>9 DEF StepMoved
<1>11. IInv' /\ File!Move(0, 0)
  BY <1>8, <1>10, StepMovedKeeps, StepMovedShows
<1>12. SeenCursor[0] = -1
  BY <1>1, Ids0, ShownIs DEF Stands
<1>13. File!AOpen(0)
  BY <1>1, <1>11, <1>12 DEF File!AOpen, File!Returns
<1> QED BY <1>11, <1>13 DEF Stored

\* Creating a file empties it.
LEMMA CreateFileStep ==
    ASSUME IInv, CreateFile
    PROVE  IInv' /\ Stored(0)
<1> DEFINE e == <<>>
<1>1. /\ mode = "file" /\ 0 \notin open /\ open' = {0} /\ raw' = 0 /\ mode' = mode
      /\ st' = [st EXCEPT ![0] = Fresh] /\ lag' = 0 /\ disk' = e
      /\ out' = [op |-> "create", stream |-> 0, asked |-> 0, data |-> <<>>]
  BY DEF CreateFile, Returns
<1>2. e \in Seq(Byte) /\ Len(e) <= MaxFile /\ e = <<>>
  BY StreamsAssumption
<1> HIDE DEF e
<1>3. Good(World', "file", 0) /\ Bytes(World') = e /\ Cur(World') = 0
  BY <1>1, <1>2, OpenedWorld
<1>4. out'.op # "read" /\ 0 \in open' /\ open' \subseteq {0}
  BY <1>1
<1>5. Good(World', "file", lag')
  BY <1>1, <1>3
<1>6. /\ IInv' /\ SeenBytes' = [SeenBytes EXCEPT ![0] = e]
      /\ SeenCursor' = [SeenCursor EXCEPT ![0] = 0]
  BY <1>1, <1>2, <1>3, <1>4, <1>5, FileChanged
<1>7. SeenCursor[0] = -1
  BY <1>1, Ids0, ShownIs DEF Stands
<1>8. File!ACreate(0)
  BY <1>1, <1>2, <1>6, <1>7 DEF File!ACreate, File!Returns
<1> QED BY <1>6, <1>8 DEF Stored

\* Opening a member starts it at its first byte.
LEMMA OpenMemberStep ==
    ASSUME IInv, NEW m \in Members, OpenMember(m)
    PROVE  IInv' /\ Stored(m)
<1> DEFINE w == World
           x == Fresh
           v == [World EXCEPT !.st[m] = Fresh]
           y == VirtualSeek(v, m, 0)
           o == 0
<1>1. /\ mode = "archive" /\ m \notin open /\ open' = open \cup {m} /\ Becomes(y)
      /\ out' = [op |-> "open", stream |-> m, asked |-> 0, data |-> <<>>]
      /\ mode' = mode /\ lag' = lag
  BY DEF OpenMember, Returns
<1>2. Good(w, "archive", 0) /\ lag = 0
  BY <1>1 DEF IInv, Good
<1>3. v = [w EXCEPT !.st[m] = x] /\ y = VirtualSeek(v, m, o) /\ o \in Nat /\ x = Fresh
  OBVIOUS
<1>4. x \in Stream /\ x.pos = 0 /\ x.head = 0 /\ x.read = 0 /\ x = [Fresh EXCEPT !.pos = 0]
  BY DEF Fresh, Stream
<1> HIDE DEF w, v, x, y, o
<1>5. Lies(w) /\ w \in Worlds
  BY <1>2, MemberFacts
<1>6. /\ m \in Ids /\ m # 0 /\ FileOf(m) \in Seq(Byte) /\ Len(FileOf(m)) = MemberSize[m]
      /\ MemberSize[m] \in Nat /\ Capacity[m] \in Nat
  BY FileOfIs
<1>7. With(v, w, m, x)
  BY <1>3, <1>4, <1>5, <1>6, WithStream
<1>8. v \in Worlds /\ v.disk = w.disk /\ v.raw = w.raw /\ v.st[0] = w.st[0] /\ v.st[m] = x
      /\ \A t \in Members \ {m} : v.st[t] = w.st[t]
  BY <1>6, <1>7, Ids0 DEF With
<1>9. Lies(v)
  BY <1>5, <1>8, LiesSame
<1>10. o <= MemberSize[m]
  BY <1>6 DEF o
<1>11. StandsAt(y, v, Offset[m] + o)
  BY <1>3, <1>9, <1>10, VirtualSeekFacts
<1>12. Lies(y) /\ y.st[m] = x /\ \A t \in Members \ {m} : y.st[t] = w.st[t]
  BY <1>8, <1>11 DEF StandsAt, Others
<1>13. Reads(x, FileOf(m), Capacity[m])
  <2> DEFINE p == 0
  <2>1. p \in Nat /\ p <= Len(FileOf(m)) /\ x = [Fresh EXCEPT !.pos = p]
    BY <1>4, <1>6
  <2> HIDE DEF p
  <2> QED BY <1>6, <2>1, FreshReads
<1>14. y.st[m].pos + y.st[m].head = 0
  BY <1>4, <1>12
<1>15. Moved(y, w, "archive", m, 0, 0)
  BY <1>2, <1>12, <1>13, <1>14, MemberMoved
<1>16. y \in Worlds
  BY <1>15 DEF Moved, Good, Base
<1>17. World' = y
  BY <1>1, <1>16, BecomesIs
<1>18. Moved(World', World, mode, m, lag', 0)
  BY <1>1, <1>2, <1>15, <1>17 DEF w
<1>19. m \in Users /\ open' \subseteq Users /\ out'.op = "open" /\ m \in open'
  BY <1>1 DEF Users, IInv
<1>20. StepMoved(m, 0)
  BY <1>1, <1>18, <1>19 DEF StepMoved
<1>21. IInv' /\ File!Move(m, 0)
  BY <1>19, <1>20, StepMovedKeeps, StepMovedShows
<1>22. SeenCursor[m] = -1
  BY <1>1, <1>6, ShownIs DEF Stands
<1>23. File!AOpen(m)
  BY <1>1, <1>21, <1>22 DEF File!AOpen, File!Returns
<1> QED BY <1>21, <1>23 DEF Stored

\* A write, whichever way it takes.
LEMMA WriteStep ==
    ASSUME IInv, mode = "file", Call(0), NEW d \in Pieces, Cur(World) + Len(d) <= MaxFile,
           NEW y, Wrote(y, World, d, lag'), Becomes(y), Returns("write", 0, Len(d), <<Len(d)>>)
    PROVE  IInv' /\ Stored(0)
<1> DEFINE w == World
           f == Bytes(w)
           p == Cur(w)
           b == File!Put(f, p, d)
           q == p + Len(d)
<1>1. 0 \in open /\ mode' = mode /\ open' = open
  BY DEF Call
<1>2. FileProgram(w, lag) /\ OpenIs(w, mode, 0, lag)
  BY <1>1, FileProgramIs, OpenFacts
<1>3. d \in Seq(Byte)
  BY StreamsAssumption
<1>4. /\ f \in Seq(Byte) /\ p \in Nat /\ p <= Len(f) /\ Len(f) \in Nat /\ Len(f) <= MaxFile
      /\ SeenBytes[0] = f /\ SeenCursor[0] = p
  <2>1. Base(w, lag) /\ Len(f) <= MaxFile
    BY <1>2 DEF FileProgram
  <2>2. SeenBytes[0] = f /\ SeenCursor[0] = p
    <3> HIDE DEF w
    <3> QED BY <1>2 DEF OpenIs, Holds, At
  <2> HIDE DEF w
  <2> QED BY <2>1, <2>2, ViewFacts
<1>5. /\ Base(y, lag') /\ Others(y, w) /\ Bytes(y) = Overlay(f, p, d) /\ Cur(y) = q
  BY DEF Wrote
<1>6. World' = y
  <2> y \in Worlds
    BY <1>5 DEF Base
  <2> QED BY BecomesIs
<1>7. Good(y, "file", lag')
  BY <1>2, <1>5 DEF Good, FileProgram, Others
<1>8. b = Overlay(f, p, d) /\ Len(b) <= MaxFile
  <2>1. p + Len(d) <= MaxFile
    OBVIOUS
  <2> HIDE DEF w, f, p, q
  <2>2. b = Overlay(f, p, d)
    BY <1>3, <1>4, OverlayIsPut
  <2> HIDE DEF b
  <2>3. Overlaid(b, f, p, d)
    BY <1>3, <1>4, <2>2, OverlayIs
  <2>4. Len(b) <= MaxFile
    BY <1>4, <2>1, <2>3 DEF Overlaid
  <2> QED BY <2>2, <2>4
<1>9. out' = [op |-> "write", stream |-> 0, asked |-> Len(d), data |-> <<Len(d)>>]
  BY DEF Returns
<1>10. out'.op # "read" /\ open' \subseteq {0}
  BY <1>1, <1>2, <1>9 DEF FileProgram, IInv
<1>11. /\ Good(World', "file", lag') /\ Bytes(World') = b /\ Cur(World') = q
  BY <1>5, <1>6, <1>7, <1>8
<1> HIDE DEF w, f, p, b, q
<1>12. /\ IInv' /\ SeenBytes' = [SeenBytes EXCEPT ![0] = b]
       /\ SeenCursor' = [SeenCursor EXCEPT ![0] = q]
  BY <1>1, <1>8, <1>10, <1>11, FileChanged
<1>13. File!IsOpen(0)
  BY <1>2 DEF OpenIs
<1>14. /\ SeenBytes' = [SeenBytes EXCEPT ![0] = File!Put(@, SeenCursor[0], d)]
       /\ SeenCursor' = [SeenCursor EXCEPT ![0] = @ + Len(d)]
  BY <1>4, <1>12 DEF b, q
<1>15. File!AWrite(0, d)
  BY <1>9, <1>13, <1>14 DEF File!AWrite, File!Returns
<1> QED BY <1>12, <1>15 DEF Stored

\* The bound on written files is on the cursor.
LEMMA CursorIs == Cursor = Cur(World)
BY DEF Cursor, Cur, World

\* A write is the abstract file's, large or small.
LEMMA WriteCallStep ==
    ASSUME IInv, NEW d \in Pieces, WriteCall(d)
    PROVE  IInv' /\ Stored(0)
<1> DEFINE w == World
           g == lag
           y == Write(w, d)
<1>1. /\ mode = "file" /\ Call(0) /\ Cursor + Len(d) <= MaxFile /\ Becomes(y)
      /\ Returns("write", 0, Len(d), <<Len(d)>>) /\ lag' = LagAfter(g, d) /\ y = Write(w, d)
  BY DEF WriteCall, LagAfter
<1>2. Base(w, g) /\ d \in Seq(Byte)
  BY <1>1, FileProgramIs, StreamsAssumption DEF FileProgram
<1>3. Wrote(y, w, d, LagAfter(g, d))
  <2> HIDE DEF w, g, y
  <2> QED BY <1>1, <1>2, WriteCallFacts
<1> HIDE DEF y
<1>4. Wrote(y, World, d, lag')
  BY <1>1, <1>3
<1> QED BY <1>1, <1>4, CursorIs, WriteStep

\* PutCh writes one byte.
LEMMA PutChStep ==
    ASSUME IInv, NEW b \in Byte, <<b>> \in Pieces, PutCh(b)
    PROVE  IInv' /\ Stored(0)
<1> DEFINE w == World
           g == lag
           d == <<b>>
           y == IF w.st[0].read = 0 /\ w.st[0].head < Capacity[0]
                THEN [w EXCEPT !.st[0].buf = Append(@, b), !.st[0].head = @ + 1]
                ELSE Write(w, <<b>>)
<1>1. /\ mode = "file" /\ Call(0) /\ Cursor < MaxFile /\ Becomes(y)
      /\ Returns("write", 0, 1, <<1>>) /\ lag' = g
  BY DEF PutCh, World
<1>2. Len(d) = 1 /\ d \in Pieces
  OBVIOUS
<1>3. Base(w, g)
  BY <1>1, FileProgramIs DEF FileProgram
<1>4. Wrote(y, w, <<b>>, g)
  <2>1. y = IF w.st[0].read = 0 /\ w.st[0].head < Capacity[0]
            THEN [w EXCEPT !.st[0].buf = Append(@, b), !.st[0].head = @ + 1]
            ELSE Write(w, <<b>>)
    OBVIOUS
  <2> HIDE DEF w, g, y
  <2> QED BY <1>3, <2>1, PutChFacts, ZenonT(40)
<1>5. Cur(World) + Len(d) <= MaxFile
  <2>1. Cur(w) \in Nat
    <3> HIDE DEF w, g
    <3> QED BY <1>3, ViewFacts
  <2>2. Cur(w) < MaxFile
    BY <1>1, CursorIs
  <2> QED BY <1>2, <2>1, <2>2, StreamsAssumption
<1>6. Wrote(y, World, d, lag') /\ Returns("write", 0, Len(d), <<Len(d)>>)
  BY <1>1, <1>2, <1>4
<1> HIDE DEF y, d
<1> QED BY <1>1, <1>2, <1>5, <1>6, WriteStep

\* The file that CloseCall leaves is the one its user saw; a member stays as it is.
LEMMA CloseMoved ==
    ASSUME IInv, NEW s \in Users, CloseCall(s)
    PROVE  /\ Moved(World', World, mode, s, 0, 0)
           /\ (mode = "file" => s = 0 /\ raw' = 0 /\ lag' = 0 /\ st'[0] = Fresh)
<1> DEFINE w == World
           g == lag
           v == Flush(w, s)
<1>1. /\ s \in open /\ disk' = v.disk /\ raw' = (IF s = 0 THEN 0 ELSE raw)
      /\ st' = [st EXCEPT ![s] = Fresh] /\ lag' = 0 /\ mode' = mode
  BY DEF CloseCall, CloseFlushed
<1>2. OpenIs(w, mode, s, g)
  BY <1>1, OpenFacts
<1>3. mode \in {"archive", "file"} /\ Good(w, mode, g) /\ s \in UsersOf(mode) /\ v = Flush(w, s)
      /\ s \in Ids
  BY <1>2 DEF OpenIs
<1>4. v.disk = Bytes(w)
  <2> HIDE DEF w, g, v
  <2> QED BY <1>3, FlushFacts
<1>5. CASE mode = "file"
  <2>1. s = 0
    BY <1>5 DEF Users
  <2>2. Bytes(w) \in Seq(Byte)
    <3>1. Base(w, g)
      BY <1>3 DEF Good
    <3> HIDE DEF w, g
    <3> QED BY <3>1, ViewFacts
  <2>3. disk' = Bytes(w) /\ raw' = 0 /\ st' = [st EXCEPT ![0] = Fresh]
    BY <1>1, <1>4, <2>1
  <2> HIDE DEF w, v
  <2>4. /\ Good(World', "file", 0) /\ Bytes(World') = Bytes(w) /\ Cur(World') = 0
        /\ (\A m \in Members : World'.st[m] = World.st[m]) /\ st'[0] = Fresh
    BY <1>5, <2>2, <2>3, OpenedWorld
  <2> QED BY <1>1, <1>5, <2>1, <2>4 DEF Moved, At, w
<1>6. CASE mode = "archive"
  <2> DEFINE u == World'
             x == Fresh
  <2>1. s \in Members /\ s # 0
    BY <1>6, Ids0 DEF Users
  <2>2. Good(w, "archive", 0)
    BY <1>3, <1>6 DEF Good
  <2>3. disk' = Archive /\ disk = Archive /\ raw' = raw /\ raw \in Nat /\ st \in [Ids -> Stream]
        /\ Archive \in Seq(Byte)
    <3>1. w.disk = Archive /\ w \in Worlds /\ Reads(w.st[0], Archive, Capacity[0]) /\ Base(w, 0)
      BY <2>2 DEF Good, Base
    <3>2. Bytes(w) = w.disk
      <4>1. Reads(w.st[0], w.disk, Capacity[0])
        BY <3>1
      <4> HIDE DEF w
      <4> QED BY <3>1, <4>1, ReadView
    <3>3. w.disk = disk /\ w.raw = raw /\ w.st = st
      BY WorldIs
    <3> HIDE DEF w, v
    <3> QED BY <1>1, <1>4, <2>1, <3>1, <3>2, <3>3, Ids0 DEF Worlds
  <2>4. x \in Stream /\ x.pos = 0 /\ x.head = 0 /\ x = [Fresh EXCEPT !.pos = 0] /\ x = Fresh
    BY DEF Fresh, Stream
  <2> HIDE DEF x
  <2>0. x.pos = 0 /\ x.head = 0
    BY <2>4
  <2> HIDE DEF w
  <2>5. st' \in [Ids -> Stream] /\ st'[s] = x /\ \A t \in Ids \ {s} : st'[t] = st[t]
    BY <1>1, <1>3, <2>3, <2>4
  <2>6. u \in Worlds
    BY <2>3, <2>5 DEF World, Worlds
  <2>7. /\ u.disk = w.disk /\ u.raw = w.raw /\ u.st[0] = w.st[0] /\ u.st[s] = x
        /\ \A t \in Members \ {s} : u.st[t] = w.st[t]
    BY <2>1, <2>3, <2>5, WorldIs, WorldNext, Ids0 DEF w
  <2> HIDE DEF u
  <2>8. Lies(w)
    BY <2>1, <2>2, MemberFacts
  <2>9. Lies(u)
    BY <2>6, <2>7, <2>8, LiesSame
  <2>10. Reads(u.st[s], FileOf(s), Capacity[s])
    <3> DEFINE p == 0
    <3>1. /\ p \in Nat /\ x = [Fresh EXCEPT !.pos = p] /\ FileOf(s) \in Seq(Byte)
          /\ p <= Len(FileOf(s)) /\ Capacity[s] \in Nat
      BY <2>1, <2>4, FileOfIs
    <3> HIDE DEF p
    <3>2. Reads(x, FileOf(s), Capacity[s])
      BY <3>1, FreshReads
    <3> QED BY <2>7, <3>2
  <2>11. u.st[s].pos + u.st[s].head = 0
    BY <2>0, <2>7
  <2>12. Moved(u, w, "archive", s, 0, 0)
    BY <2>1, <2>2, <2>7, <2>9, <2>10, <2>11, MemberMoved
  <2> QED BY <1>6, <2>12 DEF u, w
<1> QED BY <1>3, <1>5, <1>6

\* A close keeps what was written.
LEMMA CloseCallStep ==
    ASSUME IInv, NEW s \in Users, CloseCall(s)
    PROVE  IInv' /\ Stored(s)
<1>1. /\ s \in open /\ open' = open \ {s} /\ mode' = mode /\ lag' = 0
      /\ out' = [op |-> "close", stream |-> s, asked |-> 0, data |-> <<>>]
  BY DEF CloseCall, Returns
<1>2. /\ Moved(World', World, mode, s, 0, 0)
      /\ (mode = "file" => s = 0 /\ raw' = 0 /\ lag' = 0 /\ st'[0] = Fresh)
  BY CloseMoved
<1>3. Moved(World', World, mode, s, lag', 0)
  BY <1>1, <1>2
<1>4. IInv'
  <2>1. (mode \in {"archive", "file"} /\ open \subseteq Users /\ Good(World, mode, lag))'
    BY <1>1, <1>3 DEF IInv, Moved, Users
  <2>2. (mode = "file" => Len(Bytes(World)) <= MaxFile)'
    BY <1>1, <1>3 DEF IInv, Moved
  <2>3. (mode = "file" /\ 0 \notin open => raw = 0 /\ lag = 0 /\ st[0] = Fresh)'
    BY <1>1, <1>2
  <2>4. (out.op = "read" /\ out.asked = 1 /\ out.stream \in open
           => Returnable(st[out.stream], Capacity[out.stream], out.data))'
    BY <1>1
  <2> QED BY <2>1, <2>2, <2>3, <2>4 DEF IInv
<1>5. Stands(World', open', s) = -1
  BY <1>1 DEF Stands
<1>6. \A t \in Ids : t # s => (t \in open' <=> t \in open)
  BY <1>1
<1>7. File!Move(s, -1)
  BY <1>1, <1>3, <1>5, <1>6, MoveShows
<1>8. File!IsOpen(s)
  BY <1>1, OpenFacts DEF OpenIs
<1>9. File!AClose(s)
  BY <1>1, <1>7, <1>8 DEF File!AClose, File!Returns
<1> QED BY <1>4, <1>9 DEF Stored

\* What a crash leaves of a file: all of it but bytes in front of the cursor that
\* were in the buffer.
Remains(f, b, p, c) ==
    /\ Len(f) <= Len(b)
    /\ \A i \in 1..Len(b) : i \notin p - c + 1..p => i <= Len(f) /\ f[i] = b[i]

\* No more than a buffer of bytes is lost.
LEMMA CrashRemains ==
    ASSUME NEW w, NEW g, Base(w, g)
    PROVE  Remains(w.disk, Bytes(w), Cur(w), Capacity[0])
<1> DEFINE x == w.st[0]
           b == Bytes(w)
           f == w.disk
           p == Cur(w)
           c == Capacity[0]
           r == w.raw
           n == Len(x.buf)
<1>1. CASE Reads(x, f, c)
  <2>1. b = f
    BY <1>1, ReadView
  <2>2. Len(f) \in Nat
    BY BaseFacts
  <2> HIDE DEF b, f, p, c
  <2> QED BY <2>1, <2>2 DEF Remains, b, f, p, c
<1>2. CASE Writes(x, c)
  <2>1. /\ Overlaid(b, f, r, x.buf) /\ p = r + x.head /\ x.head = n /\ x.head <= c
        /\ Len(f) <= Len(b)
    BY <1>2, WriteView DEF Writes
  <2>2. /\ r \in Nat /\ Len(f) \in Nat /\ r <= Len(f) /\ c \in Nat /\ x.head \in Nat
        /\ b \in Seq(Byte) /\ x.buf \in Seq(Byte)
    BY BaseFacts, ViewFacts, Ids0
  <2> DEFINE h == x.head
             d == x.buf
  <2>3. /\ Overlaid(b, f, r, d) /\ p = r + h /\ h = Len(d) /\ h <= c /\ h \in Nat
    BY <2>1, <2>2
  <2> HIDE DEF b, f, p, c, h, d, r, x, n
  <2>4. ASSUME NEW i \in 1..Len(b), i \notin p - c + 1..p
        PROVE  i <= Len(f) /\ f[i] = b[i]
    <3>0. Len(b) \in Nat
      BY <2>2
    <3>1. i \notin r + 1..r + Len(d)
      <4>1. p - c + 1 <= r + 1 /\ r + Len(d) = p /\ i \in Nat /\ p \in Nat
        BY <2>2, <2>3, <2>4, <3>0
      <4> QED BY <2>2, <2>3, <2>4, <4>1
    <3>2. b[i] = f[i] /\ Len(b) = IF r + Len(d) > Len(f) THEN r + Len(d) ELSE Len(f)
      BY <2>3, <3>1 DEF Overlaid
    <3>3. i <= Len(f)
      BY <2>2, <2>3, <3>0, <3>1, <3>2
    <3> QED BY <3>2, <3>3
  <2> QED BY <2>1, <2>4 DEF Remains, b, f, p, c
<1> QED BY <1>1, <1>2 DEF Base

\* A crash is the abstract file's.
LEMMA CrashStep ==
    ASSUME IInv, Crash
    PROVE  IInv' /\ File!ACrash
<1> DEFINE f == disk
           w == World
           b == Bytes(w)
           p == Cur(w)
<1>1. /\ mode = "file" /\ open # {} /\ open' = {} /\ lag' = 0 /\ mode' = mode /\ disk' = f
      /\ raw' = 0 /\ st' = [st EXCEPT ![0] = Fresh]
      /\ out' = [op |-> "crash", stream |-> out.stream, asked |-> 0, data |-> <<>>]
  BY DEF Crash
<1>2. FileProgram(w, lag) /\ 0 \in open /\ w.disk = f
  BY <1>1, FileProgramIs, WorldIs DEF FileProgram, IInv
<1>3. Base(w, lag) /\ Len(b) <= MaxFile
  BY <1>2 DEF FileProgram
<1>4. f \in Seq(Byte) /\ Len(f) <= Len(b) /\ Len(b) \in Nat
  <2> HIDE DEF w
  <2> QED BY <1>2, <1>3, ViewFacts, BaseFacts
<1>5. Remains(f, b, p, Capacity[0])
  <2> HIDE DEF w
  <2> QED BY <1>2, <1>3, CrashRemains
<1> HIDE DEF f, b, p
<1>6. Good(World', "file", 0) /\ Bytes(World') = f /\ st'[0] = Fresh
  BY <1>1, <1>4, OpenedWorld
<1>7. IInv'
  <2>1. (mode \in {"archive", "file"} /\ open \subseteq Users /\ Good(World, mode, lag))'
    BY <1>1, <1>6
  <2>2. (mode = "file" => Len(Bytes(World)) <= MaxFile)'
    BY <1>3, <1>4, <1>6, StreamsAssumption
  <2>3. (mode = "file" /\ 0 \notin open => raw = 0 /\ lag = 0 /\ st[0] = Fresh)'
    BY <1>1, <1>6
  <2>4. (out.op = "read" /\ out.asked = 1 /\ out.stream \in open
           => Returnable(st[out.stream], Capacity[out.stream], out.data))'
    BY <1>1
  <2> QED BY <2>1, <2>2, <2>3, <2>4 DEF IInv
<1>8. /\ SeenBytes[0] = b /\ SeenCursor[0] = p /\ File!IsOpen(0) /\ 0 \in Ids
  BY <1>2, OpenFacts DEF OpenIs, Holds, At, b, p, w
<1>9. SeenCursor' = [s \in Ids |-> -1]
  BY <1>1, ShownNext DEF Stands
<1>10. SeenBytes'[0] = f
  BY <1>1, <1>6, <1>8, ShownNext DEF Shows
<1>11. ASSUME NEW s \in Ids
       PROVE  Remains(SeenBytes'[s], SeenBytes[s], SeenCursor[s], Capacity[0])
  <2>1. CASE s = 0
    BY <1>5, <1>8, <1>10, <2>1
  <2>2. CASE s # 0
    <3>1. s \in Members /\ SeenBytes'[s] = FileOf(s) /\ SeenBytes[s] = FileOf(s)
      BY <2>2, ShownIs, ShownNext, Ids0 DEF Shows
    <3>2. FileOf(s) \in Seq(Byte) /\ Len(FileOf(s)) \in Nat
      BY <3>1, FileOfIs
    <3> QED BY <3>1, <3>2 DEF Remains
  <2> QED BY <2>1, <2>2
<1>12. File!ACrash
  BY <1>1, <1>8, <1>9, <1>11 DEF File!ACrash, Remains
<1> QED BY <1>7, <1>12
-----------------------------------------------------------------------------
(* The invariant and the file that is implemented *)

\* VirtualFileSystem's constructor leaves the base at rest, and the members fresh.
LEMMA LoadedFacts == Good(Loaded, "archive", 0)
<1> DEFINE w == [disk |-> Archive, raw |-> 0, st |-> [s \in Ids |-> Fresh]]
           n == HeaderSize
           y == Read(w, 0, n)
           v == y.w
           z == Flush(v, 0)
<1>1. Loaded = z
  BY DEF Loaded
<1>2. Archive \in Seq(Byte) /\ n \in Nat /\ Fresh \in Stream
  BY StreamsAssumption DEF Fresh, Stream
<1>3. w \in Worlds /\ w.raw = 0 /\ w.disk = Archive /\ \A s \in Ids : w.st[s] = Fresh
  BY <1>2 DEF Worlds
<1>4. y = BaseRead(w, n) /\ z = BaseFlush(v) /\ v = y.w
  BY DEF Read, Flush
<1> HIDE DEF w, y, z, v, n
<1>5. Base(w, 0) /\ Bytes(w) = Archive
  BY <1>3, FreshFile, PendingBase, Ids0
<1>6. BaseReadOK(y, w, n)
  BY <1>2, <1>4, <1>5, BaseReadFacts
<1>7. Base(v, 0) /\ Bytes(v) = Archive /\ Others(v, w)
  BY <1>4, <1>5, <1>6 DEF BaseReadOK
<1> DEFINE o == 0
<1>8. Flushes(z, v, o)
  <2> Base(v, o)
    BY <1>7
  <2> HIDE DEF o
  <2> QED BY <1>4, BaseFlushFacts
<1>9. Base(z, 0) /\ z.disk = Archive /\ Reads(z.st[0], Archive, Capacity[0]) /\ Others(z, v)
  BY <1>7, <1>8 DEF Flushes
<1>10. ASSUME NEW m \in Members PROVE Reads(z.st[m], FileOf(m), Capacity[m])
  <2> DEFINE p == 0
  <2>1. p \in Nat /\ p <= Len(FileOf(m)) /\ FileOf(m) \in Seq(Byte) /\ Capacity[m] \in Nat
    BY FileOfIs
  <2>2. Fresh = [Fresh EXCEPT !.pos = p]
    BY DEF Fresh
  <2> HIDE DEF p
  <2>3. Reads(Fresh, FileOf(m), Capacity[m])
    BY <2>1, <2>2, FreshReads
  <2>4. z.st[m] = Fresh
    BY <1>3, <1>7, <1>9, Ids0 DEF Others
  <2> QED BY <2>3, <2>4
<1> QED BY <1>1, <1>9, <1>10 DEF Good

\* The invariant and the abstract file's initial condition hold at first.
LEMMA InitKeeps ==
    ASSUME Init
    PROVE  IInv /\ File!FileInit
<1>1. open = {} /\ lag = 0 /\ out.op = "none" /\ mode \in {"archive", "file"}
  BY DEF Init, InitArchive, InitFile
<1>2. Good(World, mode, 0) /\ (mode = "file" => Len(Bytes(World)) <= MaxFile)
      /\ (mode = "file" => raw = 0 /\ st[0] = Fresh)
  <2>1. CASE InitArchive
    <3>1. Good(Loaded, "archive", 0) /\ Loaded \in Worlds
      BY LoadedFacts DEF Good, Base
    <3>2. disk = Loaded.disk /\ raw = Loaded.raw /\ st = Loaded.st /\ mode = "archive"
      BY <2>1 DEF InitArchive
    <3>3. World = Loaded
      BY <3>1, <3>2 DEF World, Worlds
    <3> QED BY <3>1, <3>2, <3>3
  <2>2. CASE InitFile
    <3> DEFINE w == World
    <3>1. w.disk = <<>> /\ w.raw = 0 /\ mode = "file" /\ \A s \in Ids : w.st[s] = Fresh
      BY <2>2, WorldIs DEF InitFile
    <3>2. w \in Worlds /\ raw = 0 /\ st[0] = Fresh
      BY <2>2, Ids0 DEF InitFile, World, Worlds, Fresh, Stream
    <3>3. Good(w, "file", 0) /\ Bytes(w) = <<>>
      <4> HIDE DEF w
      <4> QED BY <3>1, <3>2, FreshFile, Ids0
    <3>4. Len(Bytes(w)) <= MaxFile
      BY <3>3, StreamsAssumption
    <3> QED BY <3>1, <3>2, <3>3, <3>4
  <2> QED BY <2>1, <2>2 DEF Init
<1>3. IInv
  BY <1>1, <1>2 DEF IInv
<1>4. SeenCursor = [s \in Ids |-> -1]
  BY <1>1, ShownIs DEF Stands
<1>5. SeenBytes \in [Ids -> Seq(Byte)]
  <2>1. ASSUME NEW s \in Ids PROVE Shows(World, mode, s) \in Seq(Byte)
    <3>1. CASE s # 0
      <4>1. s \in Members
        BY <3>1, Ids0
      <4> QED BY <3>1, <4>1, FileOfIs DEF Shows
    <3>2. CASE s = 0
      <4> DEFINE w == World
                 b == Bytes(w)
                 e == <<>>
      <4>1. b \in Seq(Byte)
        <5>1. Base(w, 0)
          BY <1>2 DEF Good
        <5> HIDE DEF w
        <5> QED BY <5>1, ViewFacts
      <4>2. e \in Seq(Byte)
        OBVIOUS
      <4>3. Shows(w, mode, s) = IF mode = "archive" THEN e ELSE b
        BY <3>2 DEF Shows
      <4> HIDE DEF w, e, b
      <4>4. Shows(w, mode, s) \in Seq(Byte)
        BY <4>1, <4>2, <4>3
      <4> QED BY <4>4 DEF w
    <3> QED BY <3>1, <3>2
  <2> QED BY <2>1, ShownIs
<1>6. File!FileInit
  BY <1>1, <1>4, <1>5 DEF File!FileInit
<1> QED BY <1>3, <1>6

\* Every step keeps the invariant and is a step of the abstract file.
LEMMA NextKeeps ==
    ASSUME IInv, Next
    PROVE  IInv' /\ File!FileNext
<1>0. 0 \in Ids /\ Members \subseteq Ids /\ Users \subseteq Ids
  BY Ids0 DEF Users
<1>1. ASSUME NEW s \in Ids, IInv' /\ Stored(s) PROVE IInv' /\ File!FileNext
  BY <1>1, StoredIs
<1>2. CASE OpenFile
  BY <1>0, <1>1, <1>2, OpenFileStep
<1>3. CASE CreateFile
  BY <1>0, <1>1, <1>3, CreateFileStep
<1>4. CASE Crash
  BY <1>4, CrashStep DEF File!FileNext
<1>5. CASE \E m \in Members : OpenMember(m)
  BY <1>0, <1>1, <1>5, OpenMemberStep
<1>6. CASE \E s \in Users, n \in Sizes : ReadCall(s, n)
  BY <1>0, <1>1, <1>6, ReadCallStep
<1>7. CASE \E s \in Users : GetChCall(s)
  BY <1>0, <1>1, <1>7, GetChCallStep
<1>8. CASE \E s \in Users : UnGetChCall(s)
  BY <1>0, <1>1, <1>8, UnGetChCallStep
<1>9. CASE \E s \in Users : GetsCall(s)
  BY <1>0, <1>1, <1>9, GetsCallStep
<1>10. CASE \E s \in Users : VscanfCall(s)
  BY <1>0, <1>1, <1>10, VscanfCallStep
<1>11. CASE \E s \in Users, p \in 0..Len(disk) : SeekCall(s, p)
  BY <1>0, <1>1, <1>11, SeekCallStep
<1>12. CASE \E s \in Users, k \in Sizes : SeekAhead(s, k)
  BY <1>0, <1>1, <1>12, SeekAheadStep
<1>13. CASE \E s \in Users : TellCall(s)
  BY <1>0, <1>1, <1>13, TellCallStep
<1>14. CASE \E s \in Users : SizeCall(s)
  BY <1>0, <1>1, <1>14, SizeCallStep
<1>15. CASE \E s \in Users : FlushCall(s)
  BY <1>0, <1>1, <1>15, FlushCallStep
<1>16. CASE \E s \in Users : CloseCall(s)
  BY <1>0, <1>1, <1>16, CloseCallStep
<1>17. CASE \E d \in Pieces : WriteCall(d)
  BY <1>0, <1>1, <1>17, WriteCallStep
<1>18. CASE \E b \in Byte : <<b>> \in Pieces /\ PutCh(b)
  BY <1>0, <1>1, <1>18, PutChStep
<1> QED BY <1>2, <1>3, <1>4, <1>5, <1>6, <1>7, <1>8, <1>9, <1>10, <1>11, <1>12, <1>13,
           <1>14, <1>15, <1>16, <1>17, <1>18 DEF Next

\* A stutter is one of the abstract file, too.
LEMMA StutterKeeps ==
    ASSUME IInv, UNCHANGED vars
    PROVE  IInv' /\ UNCHANGED File!fileVars
<1>1. /\ mode' = mode /\ disk' = disk /\ raw' = raw /\ st' = st /\ open' = open /\ lag' = lag
      /\ out' = out /\ World' = World /\ Users' = Users
  BY DEF vars, World, Users
<1>2. IInv'
  BY <1>1 DEF IInv
<1>3. SeenBytes' = SeenBytes /\ SeenCursor' = SeenCursor
  BY <1>1, ShownIs, ShownNext
<1> QED BY <1>1, <1>2, <1>3 DEF File!fileVars

\* The streams' invariant: a buffer that was read is a window on its file, one that
\* is written to stands at the handle, and the byte read last can be put back.
THEOREM StreamsInvariant == Spec => []IInv
<1>1. Init => IInv
  BY InitKeeps
<1>2. IInv /\ [Next]_vars => IInv'
  BY NextKeeps, StutterKeeps
<1> QED BY <1>1, <1>2, PTL DEF Spec

\* What the invariant says of each stream.
LEMMA StreamIs ==
    ASSUME IInv, NEW s \in Ids
    PROVE  /\ Len(st[s].buf) = IF st[s].read > 0 THEN st[s].read ELSE st[s].head
           /\ Len(st[s].buf) <= Capacity[s] /\ st[s].head <= Len(st[s].buf)
<1> DEFINE w == World
           x == st[s]
           c == Capacity[s]
<1>1. Good(w, mode, lag) /\ mode \in {"archive", "file"} /\ w.st[s] = x /\ Base(w, lag)
  BY WorldIs DEF IInv, Good
<1>2. c \in Nat
  BY Ids0
<1>3. (\E f \in Seq(Byte) : Reads(x, f, c)) \/ Writes(x, c)
  <2>1. CASE s = 0
    <3>1. w.disk \in Seq(Byte)
      BY <1>1 DEF Base, Worlds
    <3> QED BY <1>1, <2>1, <3>1 DEF Base
  <2>2. CASE s # 0
    <3>1. s \in Members
      BY <2>2, Ids0
    <3>2. FileOf(s) \in Seq(Byte) /\ Len(FileOf(s)) \in Nat
      BY <3>1, FileOfIs
    <3>3. CASE mode = "file"
      <4> DEFINE p == 0
      <4>1. x = Fresh /\ Fresh = [Fresh EXCEPT !.pos = p]
        BY <1>1, <3>1, <3>3 DEF Good, Fresh
      <4>2. p \in Nat /\ p <= Len(FileOf(s))
        BY <3>2
      <4> HIDE DEF p, c
      <4>3. Reads(Fresh, FileOf(s), c)
        BY <1>2, <3>2, <4>1, <4>2, FreshReads
      <4> QED BY <3>2, <4>1, <4>3
    <3>4. CASE mode = "archive"
      BY <1>1, <3>1, <3>2, <3>4 DEF Good
    <3> QED BY <1>1, <3>3, <3>4
  <2> QED BY <2>1, <2>2
<1> HIDE DEF x, c
<1>4. ASSUME NEW f \in Seq(Byte), Reads(x, f, c)
      PROVE  /\ Len(x.buf) = IF x.read > 0 THEN x.read ELSE x.head
             /\ Len(x.buf) <= c /\ x.head <= Len(x.buf)
  <2>1. x.head \in Nat /\ x.read \in Nat /\ Len(x.buf) = x.read /\ x.head <= x.read /\ x.read <= c
    BY <1>2, <1>4, ReadsFacts
  <2> QED BY <2>1
<1>5. ASSUME Writes(x, c)
      PROVE  /\ Len(x.buf) = IF x.read > 0 THEN x.read ELSE x.head
             /\ Len(x.buf) <= c /\ x.head <= Len(x.buf)
  <2>1. x.head \in Nat /\ x.read = 0 /\ x.head = Len(x.buf) /\ x.head <= c
    BY <1>5 DEF Writes, Stream
  <2> QED BY <2>1
<1> QED BY <1>3, <1>4, <1>5 DEF x, c

\* The type invariant of Streams: buffers within their capacity, the cursor within
\* what is buffered.
THEOREM StreamsTypes == Spec => []TypeOK
<1>1. IInv => TypeOK
  <2> SUFFICES ASSUME IInv PROVE TypeOK
    OBVIOUS
  <2> DEFINE w == World
  <2>1. mode \in {"archive", "file"} /\ open \subseteq Users
    BY DEF IInv
  <2>2. Base(w, lag) /\ (mode = "file" => Len(Bytes(w)) <= MaxFile)
    BY DEF IInv, Good
  <2>3. w.disk = disk /\ w.raw = raw /\ w.st = st
    BY WorldIs
  <2> HIDE DEF w
  <2>4. disk \in Seq(Byte) /\ raw \in Nat /\ lag \in Nat /\ st \in [Ids -> Stream]
    BY <2>2, <2>3, BaseFacts
  <2>5. mode = "file" => Len(disk) <= MaxFile
    <3>1. Len(disk) <= Len(Bytes(w)) /\ Len(disk) \in Nat /\ Len(Bytes(w)) \in Nat
      BY <2>2, <2>3, <2>4, ViewFacts
    <3> QED BY <2>2, <3>1, StreamsAssumption
  <2>6. \A s \in Ids :
          /\ Len(st[s].buf) = IF st[s].read > 0 THEN st[s].read ELSE st[s].head
          /\ Len(st[s].buf) <= Capacity[s] /\ st[s].head <= Len(st[s].buf)
    BY StreamIs
  <2> QED BY <2>1, <2>4, <2>5, <2>6 DEF TypeOK
<1> QED BY <1>1, StreamsInvariant, PTL

\* What a stream has read ahead is what its file holds at position_, whatever the
\* other members do with the base they share, and position_ and the handle agree.
THEOREM BuffersStaySound == Spec => []BuffersAreSound
<1>1. IInv => BuffersAreSound
  <2> SUFFICES ASSUME IInv PROVE BuffersAreSound
    OBVIOUS
  <2> DEFINE w == World
  <2>1. Good(w, mode, lag) /\ mode \in {"archive", "file"} /\ Base(w, lag)
    BY DEF IInv, Good
  <2>2. w.disk = disk /\ w.raw = raw /\ w.st = st
    BY WorldIs
  <2> HIDE DEF w
  <2>3. PositionIsRaw
    BY <2>1, <2>2 DEF PositionIsRaw, Base
  <2>4. ASSUME NEW s \in Ids, st[s].read > 0
        PROVE  st[s].buf = IF s = 0 THEN Cut(disk, st[0].pos, st[0].read)
                           ELSE Cut(Archive, Offset[s] + st[s].pos,
                                    Least(st[s].read, MemberSize[s] - st[s].pos))
    <3>1. CASE s = 0
      <4>1. Reads(st[0], disk, Capacity[0])
        BY <2>1, <2>2, <2>4, <3>1 DEF Base, Writes
      <4> QED BY <3>1, <4>1 DEF Reads
    <3>2. CASE s # 0
      <4> DEFINE x == st[s]
                 p == x.pos
                 n == x.read
      <4>1. s \in Members
        BY <3>2, Ids0
      <4>2. Reads(x, FileOf(s), Capacity[s])
        <5>1. mode # "file"
          <6> SUFFICES ASSUME mode = "file" PROVE FALSE
            OBVIOUS
          <6>1. st[s] = Fresh
            BY <2>1, <2>2, <4>1 DEF Good
          <6> QED BY <2>4, <6>1 DEF Fresh
        <5> QED BY <2>1, <2>2, <4>1, <5>1 DEF Good
      <4>3. /\ x.buf = Cut(FileOf(s), p, n) /\ p \in Nat /\ n \in Nat /\ p <= MemberSize[s]
        <5>1. x \in Stream /\ x.pos + x.read <= Len(FileOf(s)) /\ x.buf = Cut(FileOf(s), x.pos, x.read)
          BY <4>2 DEF Reads
        <5>2. Len(FileOf(s)) = MemberSize[s] /\ MemberSize[s] \in Nat
          BY <4>1, FileOfIs
        <5> HIDE DEF x
        <5>3. x.pos \in Nat /\ x.read \in Nat
          BY <5>1 DEF Stream
        <5> QED BY <5>1, <5>2, <5>3
      <4>4. x.buf = Cut(Archive, Offset[s] + p, Least(n, MemberSize[s] - p))
        <5> HIDE DEF x, p, n
        <5> QED BY <4>1, <4>3, FileOfCut
      <4> QED BY <3>2, <4>4
    <3> QED BY <3>1, <3>2
  <2> QED BY <2>3, <2>4 DEF BuffersAreSound, BuffersMirrorFile
<1> QED BY <1>1, StreamsInvariant, PTL

\* Streams implements StoredFile: no buffer, no other member's call and no order of
\* calls shows in what a call returns, where a cursor stands or what a file holds.
THEOREM FilesAreStored == Spec => ImplementsFile
<1>1. Init => File!FileInit
  BY InitKeeps
<1>2. IInv /\ [Next]_vars => [File!FileNext]_File!fileVars
  BY NextKeeps, StutterKeeps
<1> QED BY <1>1, <1>2, StreamsInvariant, PTL DEF Spec, ImplementsFile, File!FileSpec
=============================================================================
