-------------------------- MODULE MessagePathProofs --------------------------
(***************************************************************************)
(* Theorems about where MessageReader stands in the stream, for every      *)
(* limit, every length of a fill and every stream: the bytes between the   *)
(* reader and the peer are a path through the grammar of messages, from    *)
(* the place where the reader is to the place where the peer is.           *)
(***************************************************************************)
EXTENDS MessageReaderProofs

USE ReaderAssumption

-----------------------------------------------------------------------------
(* Paths *)

\* What follows a head, and the last byte of a body or of a chunk.
AfterHead(m) ==
  IF m.f = "te" THEN "size"
  ELSE IF m.len > 0 THEN "data"
  ELSE IF m.f = "eof" THEN "shut" ELSE Over(m)
AfterData(m) == IF m.f = "te" THEN "cr" ELSE IF m.f = "eof" THEN "shut" ELSE Over(m)

\* A place in the stream, as the peer knows it when it is there.
Places ==
  [at: Lines \cup {"data", "cr", "lf", "shut"}, msg: Messages \cup {NoMessage},
   sent: Nat, left: Nat, col: Nat]

\* What is due at a place is what is missing of the message; lines are the only
\* places to be in the middle of, and only a chunked message has more than one.
Sound(s) ==
  /\ s.sent <= s.msg.len
  /\ s.msg.f = "none" => s.msg.len = 0
  /\ s.at \notin Lines => s.col = 0
  /\ s.at = "data" =>
       /\ s.left \in 1..(s.msg.len - s.sent)
       /\ s.msg.f # "te" => s.left = s.msg.len - s.sent
  /\ s.at \in {"size", "cr", "lf", "trailer"} => s.msg.f = "te"
  /\ s.at = "trailer" => s.sent = s.msg.len

\* Where the peer is.
Now == [at |-> at, msg |-> msg, sent |-> sent, left |-> left, col |-> col]

\* The places before and after a byte.
Stays(s, t) == t.msg = s.msg /\ t.sent = s.sent

PieceStep(s, b, t) ==
  /\ s.at \in Lines /\ Piece(b, s.at)
  /\ b.first <=> s.col = 0
  /\ t.at = s.at /\ t.col = s.col + 1 /\ Stays(s, t)
HeadStep(s, b, t) ==
  /\ s.at = "head" /\ b.k = "head" /\ b.last
  /\ b.first <=> s.col = 0
  /\ t.msg = b.m /\ t.sent = 0 /\ t.left = b.m.len /\ t.col = 0 /\ t.at = AfterHead(b.m)
SizeStep(s, b, t) ==
  /\ s.at = "size" /\ b.k = "size" /\ b.last
  /\ Stays(s, t) /\ t.left = b.n /\ t.col = 0
  /\ t.at = IF b.n = 0 THEN "trailer" ELSE "data"
DataStep(s, b, t) ==
  /\ s.at = "data" /\ b.k = "data" /\ b.n = s.sent + 1
  /\ t.msg = s.msg /\ t.sent = s.sent + 1 /\ t.left = s.left - 1 /\ t.col = 0
  /\ t.at = IF s.left > 1 THEN "data" ELSE AfterData(s.msg)
FooterStep(s, b, t) ==
  /\ s.at \in {"cr", "lf"} /\ b.k = s.at
  /\ t.at = IF s.at = "cr" THEN "lf" ELSE "size"
  /\ Stays(s, t) /\ t.col = 0
TrailerStep(s, b, t) ==
  /\ s.at = "trailer" /\ b.k = "trailer" /\ b.last
  /\ t.at = Over(s.msg) /\ Stays(s, t) /\ t.col = 0
JunkStep(s, b, t) ==
  /\ s.at \notin {"data", "shut"} /\ b.k = "junk"
  /\ t.at = s.at /\ Stays(s, t) /\ t.col = s.col

Leads(s, b, t) ==
  \/ PieceStep(s, b, t) \/ HeadStep(s, b, t) \/ SizeStep(s, b, t) \/ DataStep(s, b, t)
  \/ FooterStep(s, b, t) \/ TrailerStep(s, b, t) \/ JunkStep(s, b, t)

\* The bytes after place j up to place i are pieces of a line.
Pieces(q, j, i, k) == \A x \in (j + 1)..i : Piece(q[x], k)

\* From a place in a line: up to place i it is the same line, or that line ended on the
\* way, or it was spoilt.
LineFrom(g, q, j, i) ==
  \/ /\ Pieces(q, j, i, g[j].at)
     /\ g[i].at = g[j].at /\ Stays(g[j], g[i])
     /\ i > j => g[i].col > 0
  \/ \E x \in (j + 1)..i : q[x].k = "junk"
  \/ \E x \in (j + 1)..i : q[x].k = g[j].at /\ q[x].last /\ Pieces(q, j, x - 1, g[j].at)

\* From a place in a body: as long as something is due, every byte is the next one of it.
DataFrom(g, q, j, i) ==
  i <= j + g[j].left =>
    /\ q[i].k = "data" /\ q[i].n = g[j].sent + (i - j)
    /\ g[i].msg = g[j].msg /\ g[i].col = 0
    /\ g[i].sent = g[j].sent + (i - j) /\ g[i].left = g[j].left - (i - j)
    /\ g[i].at = IF i < j + g[j].left THEN "data" ELSE AfterData(g[j].msg)

\* The bytes of q lead through the places of g.  The last two conjuncts say of any two
\* places of a path what the second says of neighbours: the whole line, or the whole
\* chunk, leaves the buffer at once.
Path(g, q) ==
  /\ \A i \in 0..Len(q) : g[i] \in Places /\ Sound(g[i])
  /\ \A i \in 1..Len(q) : Leads(g[i - 1], q[i], g[i])
  /\ \A j \in 0..Len(q) : \A i \in j..Len(q) : g[j].at \in Lines => LineFrom(g, q, j, i)
  /\ \A j \in 0..Len(q) : \A i \in (j + 1)..Len(q) : g[j].at = "data" => DataFrom(g, q, j, i)

\* The reader takes the next byte for what it is.
Aligned(s) ==
  /\ s.col = 0
  /\ rd = "head" => s.at = "head"
  /\ rd # "head" => s.msg = head /\ s.sent = Len(body)
  /\ rd \in {"size", "data", "cr", "lf", "trailer"} => s.at = rd
  /\ rd = "data" => s.left = remaining /\ head.f = "te"
  /\ rd = "cl" => head.f = "cl" /\ remaining = head.len - Len(body)
  /\ rd = "eof" => head.f = "eof" /\ s.at = IF Len(body) < head.len THEN "data" ELSE "shut"
  /\ rd = "none" => head.f = "none"
  /\ rd = "done" => Len(body) = head.len
  /\ rd \in {"none", "done"} \/ (rd = "cl" /\ remaining = 0) => s.at = Over(head)
  /\ rd = "cl" /\ remaining > 0 => s.at = "data"

Gone == rd \in {"failed", "dropped"}

PathInv ==
  Gone \/ \E g \in [0..Len(net) -> Places] :
            Path(g, net) /\ g[Len(net)] = Now /\ Aligned(g[0])

\* The end was told of readers that have one, and an end of file is noticed only after
\* the close, when the peer does not move any more.
ToldInv ==
  /\ told => rd \in {"none", "eof", "done"} \/ (rd = "cl" /\ remaining = 0)
  /\ err \in {"FirstReadEOF", "UnexpectedEOF"} => closed

\* A byte out of place is the one that was put there.
SpoiltInv == \A i \in 1..Len(net) : net[i].k = "junk" => junked

StreamInv ==
  /\ ReadInv /\ Sound(Now) /\ PathInv /\ ToldInv /\ SpoiltInv
  /\ BodyInOrder /\ JunkIsFatal /\ EofMeansWhatItSays

-----------------------------------------------------------------------------
(* Making and following a path *)

\* What the peer knows of its place.
LEMMA NowMeans ==
  /\ Now.at = at /\ Now.msg = msg /\ Now.sent = sent /\ Now.left = left /\ Now.col = col
  BY DEF Now

\* Places count.
LEMMA PlaceCounts ==
  ASSUME NEW s \in Places
  PROVE  s.sent \in Nat /\ s.left \in Nat /\ s.col \in Nat
  BY DEF Places

\* A byte that leads from a path's last place to another makes the path longer.
LEMMA PathGrows ==
  ASSUME NEW q \in Seq(Bytes), NEW g \in [0..Len(q) -> Places], Path(g, q),
         NEW b \in Bytes, NEW t \in Places, Sound(t), Leads(g[Len(q)], b, t)
  PROVE  \E h \in [0..Len(Append(q, b)) -> Places] :
           Path(h, Append(q, b)) /\ h[Len(Append(q, b))] = t /\ h[0] = g[0]
<1> DEFINE L == Len(q)
           p == Append(q, b)
           h == [i \in 0..(L + 1) |-> IF i <= L THEN g[i] ELSE t]
<1>1. L \in Nat /\ Len(p) = L + 1 /\ p[L + 1] = b /\ \A i \in 1..L : p[i] = q[i]
  OBVIOUS
<1>2. /\ h \in [0..(L + 1) -> Places] /\ h[L + 1] = t /\ (\A i \in 0..L : h[i] = g[i])
      /\ g \in [0..L -> Places]
  BY <1>1
<1> HIDE DEF L, p, h
<1>3. \A i \in 0..(L + 1) : h[i] \in Places /\ Sound(h[i])
  <2>1. \A i \in 0..L : Sound(g[i])
    BY DEF Path, L
  <2> QED
    BY <1>1, <1>2, <2>1
<1>4. \A i \in 1..(L + 1) : Leads(h[i - 1], p[i], h[i])
  <2>1. \A i \in 1..L : Leads(g[i - 1], q[i], g[i])
    BY DEF Path, L
  <2>2. ASSUME NEW i \in 1..L PROVE Leads(h[i - 1], p[i], h[i])
    <3>1. i - 1 \in 0..L /\ i \in 0..L
      BY <1>1
    <3> QED
      BY <1>1, <1>2, <2>1, <3>1
  <2>3. Leads(h[L], p[L + 1], h[L + 1])
    BY <1>1, <1>2 DEF L
  <2>4. \A i \in 1..(L + 1) : i \in 1..L \/ i = L + 1
    BY <1>1
  <2>5. (L + 1) - 1 = L
    BY <1>1
  <2> QED
    BY <2>2, <2>3, <2>4, <2>5
<1>5. ASSUME NEW j \in 0..(L + 1), NEW i \in j..(L + 1), h[j].at \in Lines
      PROVE  LineFrom(h, p, j, i)
  <2>1. CASE i = j
    BY <1>1, <2>1 DEF LineFrom, Pieces, Stays
  <2>2. CASE i > j /\ i <= L
    <3>1. j \in 0..L /\ i \in 0..L /\ i \in j..L
      BY <1>1, <2>2
    <3>2. h[j] = g[j] /\ h[i] = g[i]
      BY <1>2, <3>1
    <3>3. LineFrom(g, q, j, i)
      BY <1>5, <3>1, <3>2 DEF Path, L
    <3>4. \A x \in (j + 1)..i : p[x] = q[x]
      BY <1>1, <3>1
    <3>5. \A x \in j..i : \A k : Pieces(q, j, x, k) => Pieces(p, j, x, k)
      BY <1>1, <3>1, <3>4 DEF Pieces
    <3>6. \A x \in (j + 1)..i : x - 1 \in j..i
      BY <1>1, <3>1
    <3>7. i \in j..i
      BY <1>1, <3>1
    <3> QED
      BY <3>2, <3>3, <3>4, <3>5, <3>6, <3>7 DEF LineFrom
  <2>3. CASE i = L + 1 /\ j <= L
    <3>1. j \in 0..L /\ L \in j..L
      BY <1>1, <2>3
    <3>2. h[j] = g[j] /\ h[i] = t /\ p[i] = b /\ \A x \in (j + 1)..L : p[x] = q[x]
      <4>1. h[j] = g[j] /\ h[i] = t /\ p[i] = b
        BY <1>1, <1>2, <2>3, <3>1
      <4>2. \A x \in (j + 1)..L : x \in 1..L
        BY <1>1, <3>1
      <4> QED
        BY <1>1, <4>1, <4>2
    <3>3. LineFrom(g, q, j, L)
      BY <1>5, <3>1, <3>2 DEF Path, L
    <3>4. CASE \E x \in (j + 1)..L : q[x].k = "junk"
      BY <1>1, <2>3, <3>1, <3>2, <3>4 DEF LineFrom
    <3>5. CASE \E x \in (j + 1)..L : q[x].k = g[j].at /\ q[x].last /\ Pieces(q, j, x - 1, g[j].at)
      <4>1. PICK x \in (j + 1)..L : q[x].k = g[j].at /\ q[x].last /\ Pieces(q, j, x - 1, g[j].at)
        BY <3>5
      <4>2. x \in (j + 1)..i /\ p[x] = q[x]
        BY <1>1, <2>3, <3>1, <3>2, <4>1
      <4>3. Pieces(p, j, x - 1, g[j].at)
        BY <1>1, <3>1, <3>2, <4>1 DEF Pieces
      <4> QED
        BY <3>2, <4>1, <4>2, <4>3 DEF LineFrom
    <3>6. CASE /\ Pieces(q, j, L, g[j].at)
               /\ g[L].at = g[j].at /\ Stays(g[j], g[L])
               /\ L > j => g[L].col > 0
      <4>1. g[L] \in Places /\ g[L].col \in Nat
        <5>1. g[L] \in Places
          BY <1>1, <1>2
        <5> QED
          BY <5>1, PlaceCounts
      <4>2. Pieces(p, j, L, g[j].at)
        BY <3>2, <3>6 DEF Pieces
      <4>3. i \in (j + 1)..i /\ i - 1 = L
        BY <1>1, <2>3, <3>1
      <4>4. g[L].at \in Lines /\ Leads(g[L], b, t)
        BY <1>5, <3>2, <3>6 DEF L
      <4>5. CASE PieceStep(g[L], b, t)
        <5>1. Pieces(p, j, i, g[j].at)
          BY <1>1, <2>3, <3>1, <3>2, <3>6, <4>2, <4>5 DEF Pieces, PieceStep
        <5> QED
          BY <3>2, <3>6, <4>1, <4>5, <5>1 DEF LineFrom, PieceStep, Stays
      <4>6. CASE JunkStep(g[L], b, t)
        BY <3>2, <4>3, <4>6 DEF LineFrom, JunkStep
      <4>7. CASE HeadStep(g[L], b, t) \/ SizeStep(g[L], b, t) \/ TrailerStep(g[L], b, t)
        <5>1. b.k = g[j].at /\ b.last
          BY <3>6, <4>7 DEF HeadStep, SizeStep, TrailerStep
        <5> QED
          BY <3>2, <4>2, <4>3, <5>1 DEF LineFrom
      <4> QED
        BY <4>4, <4>5, <4>6, <4>7 DEF Leads, DataStep, FooterStep, Lines
    <3> QED
      BY <3>3, <3>4, <3>5, <3>6 DEF LineFrom
  <2> QED
    BY <1>1, <2>1, <2>2, <2>3
<1>6. ASSUME NEW j \in 0..(L + 1), NEW i \in (j + 1)..(L + 1), h[j].at = "data"
      PROVE  DataFrom(h, p, j, i)
  <2>0. j \in 0..L /\ j \in Nat /\ i \in Nat /\ h[j] = g[j]
    <3>1. j \in 0..L /\ j \in Nat /\ i \in Nat
      BY <1>1
    <3> QED
      BY <1>2, <3>1
  <2>1. CASE i <= L
    <3>1. i \in (j + 1)..L /\ p[i] = q[i] /\ h[i] = g[i]
      BY <1>1, <1>2, <2>0, <2>1
    <3>2. DataFrom(g, q, j, i)
      BY <1>6, <2>0, <3>1 DEF Path, L
    <3> QED
      BY <2>0, <3>1, <3>2 DEF DataFrom
  <2>2. CASE i = L + 1
    <3>1. h[i] = t /\ p[i] = b /\ i - j = (L - j) + 1
      BY <1>1, <1>2, <2>0, <2>2
    <3>2. /\ g[j].sent \in Nat /\ g[j].left \in Nat
          /\ g[L].sent \in Nat /\ g[L].left \in Nat
      <4>1. g[j] \in Places /\ g[L] \in Places
        <5>1. \A x \in 0..L : g[x] \in Places
          BY <1>2
        <5>2. j \in 0..L /\ L \in 0..L
          BY <1>1, <2>0
        <5> QED
          BY <5>1, <5>2
      <4> QED
        BY <4>1, PlaceCounts
    <3> SUFFICES ASSUME i <= j + g[j].left
                 PROVE  DataFrom(h, p, j, i)
      BY <2>0 DEF DataFrom
    <3>3. /\ g[L].at = "data" /\ g[L].msg = g[j].msg
          /\ g[L].sent = g[j].sent + (L - j) /\ g[L].left = g[j].left - (L - j)
      <4>1. CASE j = L
        BY <1>1, <1>6, <2>0, <3>2, <4>1
      <4>2. CASE j < L
        <5>1. L \in (j + 1)..L
          BY <1>1, <2>0, <4>2
        <5>2. DataFrom(g, q, j, L)
          BY <1>6, <2>0, <5>1 DEF Path, L
        <5>3. L < j + g[j].left
          <6>1. \A x, y, z \in Nat : x + 1 <= y + z => x < y + z
            OBVIOUS
          <6>2. L + 1 <= j + g[j].left
            BY <2>2
          <6> QED
            BY <1>1, <2>0, <3>2, <6>1, <6>2
        <5>4. L <= j + g[j].left
          <6>1. \A x, y, z \in Nat : x < y + z => x <= y + z
            OBVIOUS
          <6> QED
            BY <1>1, <2>0, <3>2, <5>3, <6>1
        <5> QED
          BY <5>2, <5>3, <5>4 DEF DataFrom
      <4> QED
        BY <1>1, <2>0, <4>1, <4>2
    <3>4. DataStep(g[L], b, t)
      BY <3>3 DEF L, Leads, PieceStep, HeadStep, SizeStep, FooterStep, TrailerStep, JunkStep, Lines
    <3>5. /\ b.k = "data" /\ b.n = g[j].sent + (i - j)
          /\ t.msg = g[j].msg /\ t.col = 0
          /\ t.sent = g[j].sent + (i - j) /\ t.left = g[j].left - (i - j)
      <4>1. /\ b.k = "data" /\ b.n = g[L].sent + 1 /\ t.msg = g[j].msg /\ t.col = 0
            /\ t.sent = g[L].sent + 1 /\ t.left = g[L].left - 1
        BY <3>3, <3>4 DEF DataStep
      <4>2. \A x, y \in Nat : x + (L - j) + 1 = x + (i - j) /\ y - (L - j) - 1 = y - (i - j)
        <5>1. \A x, y, d \in Int : x + d + 1 = x + (d + 1) /\ y - d - 1 = y - (d + 1)
          OBVIOUS
        <5>2. PICK d \in Int : d = L - j
          BY <1>1, <2>0
        <5>3. i - j = d + 1
          BY <3>1, <5>2
        <5>4. \A x, y \in Nat : x + d + 1 = x + (d + 1) /\ y - d - 1 = y - (d + 1)
          BY <5>1
        <5> QED
          BY <5>2, <5>3, <5>4
      <4>3. /\ g[L].sent + 1 = g[j].sent + (L - j) + 1
            /\ g[L].left - 1 = g[j].left - (L - j) - 1
        BY <3>3
      <4> QED
        BY <3>2, <4>1, <4>2, <4>3
    <3>6. g[L].left > 1 <=> i < j + g[j].left
      <4>1. g[L].left = g[j].left - (L - j)
        BY <3>3
      <4>2. \A y \in Nat : y - (L - j) > 1 <=> i < j + y
        BY <1>1, <2>0, <2>2
      <4> QED
        BY <3>2, <4>1, <4>2
    <3>7. t.at = IF i < j + g[j].left THEN "data" ELSE AfterData(g[j].msg)
      BY <3>3, <3>4, <3>6 DEF DataStep
    <3> QED
      BY <2>0, <3>1, <3>5, <3>7 DEF DataFrom
  <2> QED
    BY <1>1, <2>0, <2>1, <2>2
<1>7. Path(h, p)
  BY <1>1, <1>3, <1>4, <1>5, <1>6 DEF Path
<1> QED
  BY <1>1, <1>2, <1>7 DEF p, L

\* The bytes of a stream but the first n.
LEMMA LastBytes ==
  ASSUME NEW q \in Seq(Bytes), NEW n \in 0..Len(q)
  PROVE  /\ Len(SubSeq(q, n + 1, Len(q))) = Len(q) - n
         /\ \A i \in 1..(Len(q) - n) : SubSeq(q, n + 1, Len(q))[i] = q[i + n]
<1>1. Len(q) \in Nat /\ n \in Nat /\ n <= Len(q)
  OBVIOUS
<1>2. PICK m : m = n + 1
  OBVIOUS
<1>3. m \in Int /\ Len(q) \in Int /\ \A i \in m..Len(q) : q[i] \in Bytes
  BY <1>1, <1>2
<1>4. /\ Len(SubSeq(q, m, Len(q))) = IF m <= Len(q) THEN Len(q) - m + 1 ELSE 0
      /\ \A i \in 1..(Len(q) - m + 1) : SubSeq(q, m, Len(q))[i] = q[m + i - 1]
  BY <1>3, SubSeqProperties
<1>5. Len(q) - m + 1 = Len(q) - n /\ (m <= Len(q) \/ Len(q) - n = 0)
  BY <1>1, <1>2
<1>6. \A i \in 1..(Len(q) - n) : m + i - 1 = i + n
  BY <1>1, <1>2
<1> QED
  BY <1>2, <1>4, <1>5, <1>6

\* The first n bytes of a stream.
LEMMA FirstBytes ==
  ASSUME NEW q \in Seq(Bytes), NEW n \in 1..Len(q)
  PROVE  /\ SubSeq(q, 1, n) \in Seq(Bytes) /\ Len(SubSeq(q, 1, n)) = n
         /\ \A i \in 1..n : SubSeq(q, 1, n)[i] = q[i]
<1>1. 1 \in Int /\ n \in Int /\ \A i \in 1..n : q[i] \in Bytes
  OBVIOUS
<1>2. /\ SubSeq(q, 1, n) \in Seq(Bytes)
      /\ Len(SubSeq(q, 1, n)) = IF 1 <= n THEN n - 1 + 1 ELSE 0
      /\ \A i \in 1..(n - 1 + 1) : SubSeq(q, 1, n)[i] = q[1 + i - 1]
  BY <1>1, SubSeqProperties
<1>3. 1 <= n /\ n - 1 + 1 = n /\ \A i \in 1..n : 1 + i - 1 = i
  OBVIOUS
<1> QED
  BY <1>2, <1>3

\* What is left of a path when its first bytes are taken is one.
LEMMA PathShrinks ==
  ASSUME NEW q \in Seq(Bytes), NEW g \in [0..Len(q) -> Places], Path(g, q), NEW n \in 0..Len(q),
         NEW p, p = SubSeq(q, n + 1, Len(q))
  PROVE  \E h \in [0..Len(p) -> Places] : Path(h, p) /\ h[Len(p)] = g[Len(q)] /\ h[0] = g[n]
<1> DEFINE L == Len(q)
           M == L - n
           h == [i \in 0..M |-> g[i + n]]
<1>1. L \in Nat /\ n \in Nat /\ n <= L /\ M \in Nat /\ M + n = L
  OBVIOUS
<1>2. Len(p) = M /\ \A i \in 1..M : p[i] = q[i + n]
  BY LastBytes
<1>3. \A i \in 0..M : i + n \in 0..L
  BY <1>1
<1>4. h \in [0..M -> Places] /\ \A i \in 0..M : h[i] = g[i + n]
  BY <1>3
<1> HIDE DEF L, M, h
<1>5. \A i \in 0..M : h[i] \in Places /\ Sound(h[i])
  BY <1>3, <1>4 DEF Path, L
<1>6. ASSUME NEW i \in 1..M PROVE Leads(h[i - 1], p[i], h[i])
  <2>1. i + n \in 1..L /\ (i + n) - 1 = (i - 1) + n /\ i \in 0..M /\ i - 1 \in 0..M
    BY <1>1
  <2>2. Leads(g[(i + n) - 1], q[i + n], g[i + n])
    BY <2>1 DEF Path, L
  <2> QED
    BY <1>2, <1>4, <2>1, <2>2
<1>7. ASSUME NEW j \in 0..M, NEW i \in j..M, h[j].at \in Lines
      PROVE  LineFrom(h, p, j, i)
  <2>1. j + n \in 0..L /\ i + n \in (j + n)..L /\ i \in 0..M /\ i \in Nat /\ j \in Nat
    <3>1. i \in Nat /\ j \in Nat /\ j <= i /\ i <= M
      BY <1>1
    <3>2. j + n \in 0..L /\ i \in 0..M
      BY <1>1, <3>1
    <3>3. i + n \in (j + n)..L
      BY <1>1, <3>1
    <3> QED
      BY <3>1, <3>2, <3>3
  <2>2. h[j] = g[j + n] /\ h[i] = g[i + n]
    BY <1>4, <2>1
  <2>3. LineFrom(g, q, j + n, i + n)
    BY <1>7, <2>1, <2>2 DEF Path, L
  <2>4. \A x \in (j + 1)..i : x + n \in (j + n + 1)..(i + n) /\ p[x] = q[x + n]
    <3>1. \A x \in (j + 1)..i : x + n \in (j + n + 1)..(i + n) /\ x \in 1..M
      BY <1>1, <2>1
    <3> QED
      BY <1>2, <3>1
  <2>5. \A y \in (j + n + 1)..(i + n) : y - n \in (j + 1)..i /\ p[y - n] = q[y]
    <3>1. \A y \in (j + n + 1)..(i + n) : y - n \in (j + 1)..i /\ (y - n) + n = y
      BY <1>1, <2>1
    <3> QED
      BY <2>4, <3>1
  <2>6. ASSUME NEW k, Pieces(q, j + n, i + n, k) PROVE Pieces(p, j, i, k)
    BY <2>4, <2>6 DEF Pieces
  <2>7. ASSUME NEW y \in (j + n + 1)..(i + n), NEW k, Pieces(q, j + n, y - 1, k)
        PROVE  Pieces(p, j, (y - n) - 1, k)
    <3> SUFFICES ASSUME NEW x \in (j + 1)..((y - n) - 1) PROVE Piece(p[x], k)
      BY DEF Pieces
    <3>1. x \in (j + 1)..i /\ x + n \in (j + n + 1)..(y - 1)
      BY <1>1, <2>1
    <3> QED
      BY <2>4, <2>7, <3>1 DEF Pieces
  <2>8. i > j => i + n > j + n
    BY <1>1, <2>1
  <2>9. CASE \E y \in (j + n + 1)..(i + n) : q[y].k = "junk"
    BY <2>5, <2>9 DEF LineFrom
  <2>10. CASE \E y \in (j + n + 1)..(i + n) :
                q[y].k = g[j + n].at /\ q[y].last /\ Pieces(q, j + n, y - 1, g[j + n].at)
    BY <2>2, <2>5, <2>7, <2>10 DEF LineFrom
  <2>11. CASE /\ Pieces(q, j + n, i + n, g[j + n].at)
              /\ g[i + n].at = g[j + n].at /\ Stays(g[j + n], g[i + n])
              /\ i + n > j + n => g[i + n].col > 0
    BY <2>2, <2>6, <2>8, <2>11 DEF LineFrom
  <2> QED
    BY <2>3, <2>9, <2>10, <2>11 DEF LineFrom
<1>8. ASSUME NEW j \in 0..M, NEW i \in (j + 1)..M, h[j].at = "data"
      PROVE  DataFrom(h, p, j, i)
  <2>1. j + n \in 0..L /\ i + n \in (j + n + 1)..L /\ i \in 1..M /\ i \in 0..M /\ i \in Nat /\ j \in Nat
    BY <1>1
  <2>2. h[j] = g[j + n] /\ h[i] = g[i + n] /\ p[i] = q[i + n]
    BY <1>2, <1>4, <2>1
  <2>3. DataFrom(g, q, j + n, i + n)
    BY <1>8, <2>1, <2>2 DEF Path, L
  <2>4. (i + n) - (j + n) = i - j
    BY <1>1, <2>1
  <2>5. g[j + n].left \in Nat
    <3>1. g[j + n] \in Places
      BY <2>1 DEF L
    <3> QED
      BY <3>1, PlaceCounts
  <2>6. \A x \in Nat : (i + n <= j + n + x <=> i <= j + x) /\ (i + n < j + n + x <=> i < j + x)
    BY <1>1, <2>1
  <2> QED
    BY <2>2, <2>3, <2>4, <2>5, <2>6 DEF DataFrom
<1>9. Path(h, p)
  BY <1>2, <1>5, <1>6, <1>7, <1>8 DEF Path
<1>10. h[M] = g[L] /\ h[0] = g[n]
  <2>1. M \in 0..M /\ 0 \in 0..M /\ M + n = L /\ 0 + n = n
    BY <1>1
  <2> QED
    BY <1>4, <2>1
<1> QED
  BY <1>2, <1>4, <1>9, <1>10 DEF L

\* A line that is complete at the start of a path was sent as one.
LEMMA WholeLine ==
  ASSUME NEW q \in Seq(Bytes), NEW g, Path(g, q), g[0].at \in Lines, NEW n \in 1..Len(q),
         q[n].k = g[0].at, q[n].last, \A i \in 1..(n - 1) : Piece(q[i], g[0].at)
  PROVE  /\ Stays(g[0], g[n - 1])
         /\ g[n - 1].at = g[0].at
         /\ \/ HeadStep(g[n - 1], q[n], g[n])
            \/ SizeStep(g[n - 1], q[n], g[n])
            \/ TrailerStep(g[n - 1], q[n], g[n])
<1>1. n - 1 \in 0..Len(q) /\ 0 \in 0..Len(q) /\ n \in Nat
  OBVIOUS
<1>2. LineFrom(g, q, 0, n - 1)
  BY <1>1 DEF Path
<1>3. \A x \in (0 + 1)..(n - 1) : q[x].k # "junk" /\ ~q[x].last
  BY DEF Piece, Lines
<1>4. g[n - 1].at = g[0].at /\ Stays(g[0], g[n - 1])
  BY <1>2, <1>3 DEF LineFrom
<1>5. Leads(g[n - 1], q[n], g[n])
  BY DEF Path
<1> QED
  BY <1>4, <1>5 DEF Leads, PieceStep, DataStep, FooterStep, JunkStep, Piece, Lines

\* The start of a path is a line, its pieces or spoilt.
LEMMA LineOrJunk ==
  ASSUME NEW q \in Seq(Bytes), NEW g, Path(g, q), g[0].at \in Lines, NEW f \in 0..Len(q)
  PROVE  \/ /\ \A i \in 1..f : Piece(q[i], g[0].at)
            /\ g[f].at = g[0].at /\ Stays(g[0], g[f])
            /\ f > 0 => g[f].col > 0
         \/ \E x \in 1..f : q[x].k = "junk"
         \/ \E n \in 1..f : /\ q[n].k = g[0].at /\ q[n].last
                            /\ \A i \in 1..(n - 1) : Piece(q[i], g[0].at)
<1>1. 0 \in 0..Len(q) /\ f \in 0..Len(q) /\ 0 + 1 = 1
  OBVIOUS
<1>2. LineFrom(g, q, 0, f)
  BY <1>1 DEF Path
<1> QED
  BY <1>1, <1>2 DEF LineFrom, Pieces

\* From the start of a body on, the bytes that are due are the body's, in order.
LEMMA DueIsData ==
  ASSUME NEW q \in Seq(Bytes), NEW g \in [0..Len(q) -> Places], Path(g, q), g[0].at = "data",
         NEW n \in 1..Len(q), n <= g[0].left
  PROVE  /\ \A i \in 1..n : q[i].k = "data" /\ q[i].n = g[0].sent + i
         /\ g[n].msg = g[0].msg /\ g[n].col = 0 /\ g[n].sent = g[0].sent + n
         /\ g[n].left = g[0].left - n
         /\ g[n].at = IF n < g[0].left THEN "data" ELSE AfterData(g[0].msg)
<1>1. g[0].left \in Nat
  <2>1. 0 \in 0..Len(q)
    OBVIOUS
  <2>2. g[0] \in Places
    BY <2>1
  <2> QED
    BY <2>2, PlaceCounts
<1>2. ASSUME NEW i \in 1..n
      PROVE  /\ q[i].k = "data" /\ q[i].n = g[0].sent + i
             /\ g[i].msg = g[0].msg /\ g[i].col = 0 /\ g[i].sent = g[0].sent + i
             /\ g[i].left = g[0].left - i
             /\ g[i].at = IF i < g[0].left THEN "data" ELSE AfterData(g[0].msg)
  <2>1. i \in (0 + 1)..Len(q) /\ 0 \in 0..Len(q) /\ i <= 0 + g[0].left /\ i - 0 = i /\ 0 + g[0].left = g[0].left
    BY <1>1
  <2>2. DataFrom(g, q, 0, i)
    BY <2>1 DEF Path
  <2> QED
    BY <2>1, <2>2 DEF DataFrom
<1>3. n \in 1..n
  OBVIOUS
<1> QED
  BY <1>2, <1>3

\* Nothing follows the end of the last message.
LEMMA ShutIsLast ==
  ASSUME NEW q \in Seq(Bytes), NEW g, Path(g, q), NEW i \in 0..Len(q), g[i].at = "shut"
  PROVE  i = Len(q)
<1> SUFFICES ASSUME i < Len(q) PROVE FALSE
  OBVIOUS
<1>1. i + 1 \in 1..Len(q) /\ (i + 1) - 1 = i
  OBVIOUS
<1>2. Leads(g[i], q[i + 1], g[i + 1])
  BY <1>1 DEF Path
<1> QED
  BY <1>2 DEF Leads, PieceStep, HeadStep, SizeStep, DataStep, FooterStep, TrailerStep, JunkStep, Lines

-----------------------------------------------------------------------------
(* The peer *)

\* What Sound says of the peer.
LEMMA SoundMeans ==
  Sound(Now) <=>
    /\ sent <= msg.len
    /\ msg.f = "none" => msg.len = 0
    /\ at \notin Lines => col = 0
    /\ at = "data" => /\ left \in 1..(msg.len - sent)
                      /\ msg.f # "te" => left = msg.len - sent
    /\ at \in {"size", "cr", "lf", "trailer"} => msg.f = "te"
    /\ at = "trailer" => sent = msg.len
  BY NowMeans DEF Sound

\* The peer is at one of the places.
LEMMA NowIsPlace == TypeOK => Now \in Places
  BY DEF TypeOK, Now, Places

\* What the peer sends leads it from where it is to where it is then, and there what is
\* due is again what is missing of the message.
LEMMA PeerLeads ==
  ASSUME ReadInv, Sound(Now), Peer
  PROVE  /\ \E b \in Bytes : /\ net' = Append(net, b)
                             /\ Leads(Now, b, Now')
                             /\ junked' <=> junked \/ b.k = "junk"
         /\ Sound(Now)'
         /\ ~closed /\ UNCHANGED <<closed, filled, reader>>
<1>0. /\ TypeOK /\ MaxBody \in Nat
      /\ sent \in Nat /\ left \in Nat /\ col \in Nat /\ msg.len \in Nat
      /\ msg \in Messages \cup {NoMessage}
  <2>1. msg \in Messages \cup {NoMessage} /\ msg.len \in 0..MaxBody
    BY MessageLength DEF ReadInv, TypeOK
  <2> QED
    BY <2>1 DEF ReadInv, TypeOK
<1>1. /\ sent <= msg.len
      /\ msg.f = "none" => msg.len = 0
      /\ at \notin Lines => col = 0
      /\ at = "data" => /\ left \in 1..(msg.len - sent)
                        /\ msg.f # "te" => left = msg.len - sent
      /\ at \in {"size", "cr", "lf", "trailer"} => msg.f = "te"
      /\ at = "trailer" => sent = msg.len
  BY SoundMeans
<1>2. /\ Now.at = at /\ Now.msg = msg /\ Now.sent = sent /\ Now.left = left /\ Now.col = col
      /\ Now'.at = at' /\ Now'.msg = msg' /\ Now'.sent = sent' /\ Now'.left = left' /\ Now'.col = col'
  BY DEF Now
<1>3. Sound(Now)' <=>
    /\ sent' <= msg'.len
    /\ msg'.f = "none" => msg'.len = 0
    /\ at' \notin Lines => col' = 0
    /\ at' = "data" => /\ left' \in 1..(msg'.len - sent')
                       /\ msg'.f # "te" => left' = msg'.len - sent'
    /\ at' \in {"size", "cr", "lf", "trailer"} => msg'.f = "te"
    /\ at' = "trailer" => sent' = msg'.len
  BY <1>2 DEF Sound
<1>4. CASE SendPiece
  <2> DEFINE b == Byte(at, col = 0, FALSE, 0, NoMessage)
  <2>1. b \in Bytes /\ b.k = at /\ b.first = (col = 0) /\ b.last = FALSE
    BY <1>4 DEF SendPiece, Byte, Bytes, Lines
  <2>2. /\ net' = Append(net, b) /\ at \in Lines /\ ~closed /\ UNCHANGED <<closed, filled, reader>>
        /\ at' = at /\ msg' = msg /\ sent' = sent /\ left' = left /\ col' = col + 1 /\ junked' = junked
    BY <1>4 DEF SendPiece, Sends
  <2> HIDE DEF b
  <2>3. PieceStep(Now, b, Now')
    BY <1>2, <2>1, <2>2 DEF PieceStep, Piece, Stays
  <2>4. Sound(Now)'
    BY <1>1, <1>3, <2>2
  <2>5. b.k # "junk"
    BY <2>1, <2>2 DEF Lines
  <2> QED
    BY <2>1, <2>2, <2>3, <2>4, <2>5 DEF Leads
<1>5. CASE SendHead
  <2>1. PICK m \in Messages :
          /\ m.f = "none" => m.len = 0
          /\ Sends(Byte("head", col = 0, TRUE, 0, m))
          /\ msg' = m /\ left' = m.len
          /\ at' = IF m.f = "te" THEN "size"
                   ELSE IF m.len > 0 THEN "data"
                   ELSE IF m.f = "eof" THEN "shut" ELSE Over(m)
    BY <1>5 DEF SendHead
  <2> DEFINE b == Byte("head", col = 0, TRUE, 0, m)
  <2>2. b \in Bytes /\ b.k = "head" /\ b.first = (col = 0) /\ b.last = TRUE /\ b.m = m
    BY DEF Byte, Bytes, Lines
  <2>3. /\ net' = Append(net, b) /\ at = "head" /\ ~closed /\ UNCHANGED <<closed, filled, reader>>
        /\ sent' = 0 /\ col' = 0 /\ junked' = junked
    BY <1>5, <2>1 DEF SendHead, Sends
  <2> HIDE DEF b
  <2>4. HeadStep(Now, b, Now')
    BY <1>2, <2>1, <2>2, <2>3 DEF HeadStep, AfterHead
  <2>5. Sound(Now)'
    <3>1. m.len \in Nat
      BY MessageLength
    <3>2. at' = IF m.f = "te" THEN "size" ELSE IF m.len > 0 THEN "data"
                ELSE IF m.f = "eof" \/ ~m.keep THEN "shut" ELSE "head"
      BY <2>1 DEF Over
    <3> QED
      BY <1>3, <2>1, <2>3, <3>1, <3>2
  <2> QED
    BY <2>2, <2>3, <2>4, <2>5 DEF Leads
<1>6. CASE SendSize
  <2>1. PICK n \in 0..(msg.len - sent) :
          /\ n = 0 => sent = msg.len
          /\ Sends(Byte("size", col = 0, TRUE, n, NoMessage))
          /\ left' = n
          /\ at' = IF n = 0 THEN "trailer" ELSE "data"
    BY <1>6 DEF SendSize
  <2> DEFINE b == Byte("size", col = 0, TRUE, n, NoMessage)
  <2>2. n \in 0..MaxBody
    <3>1. msg.len \in 0..MaxBody
      BY <1>0, MessageLength
    <3> QED
      BY <1>0, <3>1
  <2>3. b \in Bytes /\ b.k = "size" /\ b.last = TRUE /\ b.n = n
    BY <2>2 DEF Byte, Bytes, Lines
  <2>4. /\ net' = Append(net, b) /\ at = "size" /\ ~closed /\ UNCHANGED <<closed, filled, reader>>
        /\ msg' = msg /\ sent' = sent /\ col' = 0 /\ junked' = junked
    BY <1>6, <2>1 DEF SendSize, Sends
  <2> HIDE DEF b
  <2>5. SizeStep(Now, b, Now')
    BY <1>2, <2>1, <2>3, <2>4 DEF SizeStep, Stays
  <2>6. Sound(Now)'
    BY <1>0, <1>1, <1>3, <2>1, <2>2, <2>4
  <2> QED
    BY <2>3, <2>4, <2>5, <2>6 DEF Leads
<1>7. CASE SendData
  <2> DEFINE b == Byte("data", FALSE, FALSE, sent + 1, NoMessage)
  <2>1. at = "data" /\ left \in 1..(msg.len - sent) /\ (msg.f # "te" => left = msg.len - sent) /\ col = 0
    BY <1>1, <1>7 DEF SendData, Lines
  <2>2. sent + 1 \in 0..MaxBody
    <3>1. msg.len \in 0..MaxBody
      BY <1>0, MessageLength
    <3> QED
      BY <1>0, <2>1, <3>1
  <2>3. b \in Bytes /\ b.k = "data" /\ b.n = sent + 1
    BY <2>2 DEF Byte, Bytes, Lines
  <2>4. /\ net' = Append(net, b) /\ ~closed /\ UNCHANGED <<closed, filled, reader>>
        /\ sent' = sent + 1 /\ left' = left - 1 /\ msg' = msg /\ col' = col /\ junked' = junked
        /\ at' = IF left > 1 THEN "data" ELSE AfterData(msg)
    BY <1>7 DEF SendData, Sends, AfterData
  <2> HIDE DEF b
  <2>5. DataStep(Now, b, Now')
    BY <1>2, <2>1, <2>3, <2>4 DEF DataStep
  <2>6. Sound(Now)'
    <3>1. at' = IF left > 1 THEN "data" ELSE IF msg.f = "te" THEN "cr"
                ELSE IF msg.f = "eof" \/ ~msg.keep THEN "shut" ELSE "head"
      BY <2>4 DEF AfterData, Over
    <3>2. left > 1 => /\ left - 1 \in 1..(msg.len - (sent + 1))
                      /\ msg.f # "te" => left - 1 = msg.len - (sent + 1)
      BY <1>0, <2>1
    <3>3. sent + 1 <= msg.len
      BY <1>0, <2>1
    <3> QED
      BY <1>1, <1>3, <2>1, <2>4, <3>1, <3>2, <3>3
  <2> QED
    BY <2>3, <2>4, <2>5, <2>6 DEF Leads
<1>8. CASE SendFooter
  <2> DEFINE b == Byte(at, FALSE, FALSE, 0, NoMessage)
  <2>1. b \in Bytes /\ b.k = at
    BY <1>8 DEF SendFooter, Byte, Bytes, Lines
  <2>2. /\ net' = Append(net, b) /\ at \in {"cr", "lf"} /\ ~closed /\ UNCHANGED <<closed, filled, reader>>
        /\ at' = IF at = "cr" THEN "lf" ELSE "size"
        /\ msg' = msg /\ sent' = sent /\ left' = left /\ col' = col /\ junked' = junked
    BY <1>8 DEF SendFooter, Sends
  <2> HIDE DEF b
  <2>3. col = 0 /\ msg.f = "te"
    BY <1>1, <2>2 DEF Lines
  <2>4. FooterStep(Now, b, Now')
    BY <1>2, <2>1, <2>2, <2>3 DEF FooterStep, Stays
  <2>5. Sound(Now)'
    BY <1>1, <1>3, <2>2, <2>3
  <2> QED
    BY <2>1, <2>2, <2>4, <2>5 DEF Leads
<1>9. CASE SendTrailer
  <2> DEFINE b == Byte("trailer", col = 0, TRUE, 0, NoMessage)
  <2>1. b \in Bytes /\ b.k = "trailer" /\ b.last = TRUE
    BY DEF Byte, Bytes, Lines
  <2>2. /\ net' = Append(net, b) /\ at = "trailer" /\ ~closed /\ UNCHANGED <<closed, filled, reader>>
        /\ at' = Over(msg) /\ msg' = msg /\ sent' = sent /\ left' = left /\ col' = 0 /\ junked' = junked
    BY <1>9 DEF SendTrailer, Sends
  <2> HIDE DEF b
  <2>3. TrailerStep(Now, b, Now')
    BY <1>2, <2>1, <2>2 DEF TrailerStep, Stays
  <2>4. Sound(Now)'
    BY <1>1, <1>3, <2>2 DEF Over
  <2> QED
    BY <2>1, <2>2, <2>3, <2>4 DEF Leads
<1>10. CASE SendJunk
  <2> DEFINE b == Byte("junk", FALSE, FALSE, 0, NoMessage)
  <2>1. b \in Bytes /\ b.k = "junk"
    BY DEF Byte, Bytes, Lines
  <2>2. /\ net' = Append(net, b) /\ at \notin {"data", "shut"} /\ ~closed
        /\ UNCHANGED <<closed, filled, reader>>
        /\ at' = at /\ msg' = msg /\ sent' = sent /\ left' = left /\ col' = col /\ junked' = TRUE
    BY <1>10 DEF SendJunk, Sends
  <2> HIDE DEF b
  <2>3. JunkStep(Now, b, Now')
    BY <1>2, <2>1, <2>2 DEF JunkStep, Stays
  <2>4. Sound(Now)'
    BY <1>1, <1>3, <2>2
  <2> QED
    BY <2>1, <2>2, <2>3, <2>4 DEF Leads
<1> QED
  BY <1>4, <1>5, <1>6, <1>7, <1>8, <1>9, <1>10 DEF Peer

-----------------------------------------------------------------------------
(* Steps that take nothing from the stream *)

\* A new connection is at the first byte of a head.
LEMMA InitStream == Init => StreamInv
<1> SUFFICES ASSUME Init PROVE StreamInv
  OBVIOUS
<1>1. /\ at = "head" /\ msg = NoMessage /\ sent = 0 /\ left = 0 /\ col = 0 /\ junked = FALSE
      /\ net = <<>> /\ Len(net) = 0 /\ rd = "head" /\ body = <<>> /\ Len(body) = 0
      /\ told = FALSE /\ err = "none"
  BY DEF Init
<1>2. ReadInv
  BY InitReads
<1>3. Sound(Now)
  BY <1>1, SoundMeans DEF NoMessage, Lines
<1>4. PathInv
  <2> DEFINE g == [i \in 0..0 |-> Now]
  <2>1. Now \in Places
    BY <1>2, NowIsPlace DEF ReadInv
  <2>2. g \in [0..0 -> Places] /\ g[0] = Now
    BY <2>1
  <2> HIDE DEF g
  <2>3. \A i \in 0..0 : i = 0
    OBVIOUS
  <2>4. \A j \in 0..0 : \A i \in j..0 : LineFrom(g, net, j, i)
    BY <2>3 DEF LineFrom, Pieces, Stays
  <2>5. Path(g, net)
    BY <1>1, <1>3, <2>1, <2>2, <2>3, <2>4 DEF Path
  <2>6. Aligned(g[0])
    BY <1>1, <2>2, NowMeans DEF Aligned
  <2> QED
    BY <1>1, <2>2, <2>5, <2>6 DEF PathInv
<1> QED
  BY <1>1, <1>2, <1>3, <1>4
     DEF StreamInv, ToldInv, SpoiltInv, BodyInOrder, JunkIsFatal, EofMeansWhatItSays

\* What the peer sends is behind what the reader has to read.
LEMMA PeerStream ==
  ASSUME StreamInv, ReadInv', Peer
  PROVE  StreamInv'
<1>1. /\ Sound(Now)' /\ ~closed /\ UNCHANGED <<closed, filled, reader>>
      /\ \E b \in Bytes : /\ net' = Append(net, b)
                          /\ Leads(Now, b, Now')
                          /\ junked' <=> junked \/ b.k = "junk"
  BY PeerLeads DEF StreamInv
<1>2. PICK b \in Bytes : /\ net' = Append(net, b)
                         /\ Leads(Now, b, Now')
                         /\ junked' <=> junked \/ b.k = "junk"
  BY <1>1
<1>3. net \in Seq(Bytes) /\ Len(net) \in Nat
  BY DEF StreamInv, ReadInv, TypeOK
<1>4. Len(net') = Len(net) + 1 /\ net'[Len(net) + 1] = b /\ \A i \in 1..Len(net) : net'[i] = net[i]
  BY <1>2, <1>3
<1>5. /\ rd' = rd /\ remaining' = remaining /\ head' = head /\ body' = body /\ told' = told
      /\ err' = err /\ closed' = closed
  BY <1>1 DEF reader
<1>6. PathInv'
  <2>1. CASE Gone
    BY <1>5, <2>1 DEF PathInv, Gone
  <2>2. CASE ~Gone
    <3>1. PICK g \in [0..Len(net) -> Places] : Path(g, net) /\ g[Len(net)] = Now /\ Aligned(g[0])
      BY <2>2 DEF StreamInv, PathInv
    <3>2. Now' \in Places /\ Sound(Now')
      <4>1. TypeOK'
        BY DEF ReadInv
      <4>2. (Now \in Places)'
        BY <4>1, NowIsPlace, PTL
      <4> QED
        BY <1>1, <4>2
    <3>3. Leads(g[Len(net)], b, Now')
      BY <1>2, <3>1
    <3>4. PICK h \in [0..Len(Append(net, b)) -> Places] :
            Path(h, Append(net, b)) /\ h[Len(Append(net, b))] = Now' /\ h[0] = g[0]
      BY <1>3, <3>1, <3>2, <3>3, PathGrows
    <3>5. Aligned(g[0])'
      BY <1>5, <3>1 DEF Aligned
    <3>6. h \in [0..Len(net') -> Places] /\ Path(h, net') /\ h[Len(net')] = Now' /\ Aligned(h[0])'
      BY <1>2, <3>4, <3>5
    <3> QED
      BY <3>6 DEF PathInv
  <2> QED
    BY <2>1, <2>2
<1>7. SpoiltInv'
  BY <1>2, <1>3, <1>4 DEF SpoiltInv, StreamInv
<1>8. JunkIsFatal'
  <2>1. ASSUME NEW i \in 1..Len(net), net[i].k = "junk" PROVE \E x \in 1..Len(net') : net'[x].k = "junk"
    BY <1>3, <1>4, <2>1
  <2>2. b.k = "junk" => \E x \in 1..Len(net') : net'[x].k = "junk"
    BY <1>3, <1>4
  <2> QED
    BY <1>2, <1>5, <2>1, <2>2 DEF StreamInv, JunkIsFatal
<1>9. ToldInv' /\ BodyInOrder' /\ EofMeansWhatItSays'
  BY <1>1, <1>5 DEF StreamInv, ToldInv, BodyInOrder, EofMeansWhatItSays
<1> QED
  BY <1>1, <1>6, <1>7, <1>8, <1>9 DEF StreamInv

\* A step that leaves the stream and the answers of read() alone.
LEMMA SameStream ==
  ASSUME StreamInv, UNCHANGED <<peer, net, remaining, head, body>>
  PROVE  /\ Sound(Now)' /\ SpoiltInv' /\ BodyInOrder'
         /\ Now' = Now
         /\ junked' = junked
         /\ rd' = rd => PathInv'
<1>1. /\ at' = at /\ msg' = msg /\ sent' = sent /\ left' = left /\ col' = col /\ junked' = junked
      /\ net' = net /\ remaining' = remaining /\ head' = head /\ body' = body
  BY DEF peer
<1>2. Now' = Now
  BY <1>1 DEF Now
<1>3. Sound(Now)'
  BY <1>2 DEF StreamInv
<1>4. rd' = rd => PathInv'
  <2> SUFFICES ASSUME rd' = rd PROVE PathInv'
    OBVIOUS
  <2>1. CASE Gone
    BY <2>1 DEF PathInv, Gone
  <2>2. CASE ~Gone
    <3>1. PICK g \in [0..Len(net) -> Places] : Path(g, net) /\ g[Len(net)] = Now /\ Aligned(g[0])
      BY <2>2 DEF StreamInv, PathInv
    <3>2. Aligned(g[0])'
      BY <1>1, <3>1 DEF Aligned
    <3>3. g \in [0..Len(net') -> Places] /\ Path(g, net') /\ g[Len(net')] = Now'
      BY <1>1, <1>2, <3>1
    <3> QED
      BY <3>2, <3>3 DEF PathInv
  <2> QED
    BY <2>1, <2>2
<1> QED
  BY <1>1, <1>2, <1>3, <1>4 DEF StreamInv, SpoiltInv, BodyInOrder

\* Close, and a read that brings bytes
LEMMA QuietStream ==
  ASSUME StreamInv, ReadInv', Close \/ Fill \/ UNCHANGED vars
  PROVE  StreamInv'
<1>1. UNCHANGED <<peer, net, remaining, head, body>> /\ rd' = rd /\ told' = told /\ err' = err
  BY DEF Close, Fill, vars, reader
<1>2. closed => closed'
  BY DEF Close, Fill, vars
<1>3. Sound(Now)' /\ SpoiltInv' /\ BodyInOrder' /\ junked' = junked /\ PathInv'
  BY <1>1, SameStream
<1>4. at' = at /\ col' = col /\ net' = net /\ remaining' = remaining
  BY <1>1 DEF peer
<1> QED
  BY <1>1, <1>2, <1>3, <1>4 DEF StreamInv, ToldInv, JunkIsFatal, EofMeansWhatItSays

\* The end is told to who has it.
LEMMA ToldStream ==
  ASSUME StreamInv, ReadInv', EofBodyEnds \/ ReadNone
  PROVE  StreamInv'
<1>1. UNCHANGED <<peer, net, remaining, head, body>> /\ rd' = rd /\ closed' = closed /\ err' = err
  BY DEF EofBodyEnds, ReadNone
<1>2. rd \in {"none", "eof"} \/ (rd = "cl" /\ remaining = 0)
  BY DEF EofBodyEnds, ReadNone
<1>3. Sound(Now)' /\ SpoiltInv' /\ BodyInOrder' /\ junked' = junked /\ PathInv'
  BY <1>1, SameStream
<1>4. at' = at /\ col' = col /\ net' = net /\ remaining' = remaining
  BY <1>1 DEF peer
<1> QED
  BY <1>1, <1>2, <1>3, <1>4 DEF StreamInv, ToldInv, JunkIsFatal, EofMeansWhatItSays

-----------------------------------------------------------------------------
(* Errors *)

\* A reader that waits for bytes, or for the end of a line, has not told the end.
LEMMA HungryIsNotTold ==
  ASSUME StreamInv, Hungry \/ rd \in Lines
  PROVE  ~told /\ rd \notin {"none", "done", "failed", "dropped"}
<1>1. told => rd \in {"none", "eof", "done"} \/ (rd = "cl" /\ remaining = 0)
  BY DEF StreamInv, ToldInv
<1>2. rd \in Lines \/ rd \in {"data", "cr", "lf"} \/ (rd = "cl" /\ remaining > 0) \/ (rd = "eof" /\ ~told)
  BY DEF Hungry, HungryForBody
<1>3. remaining \in Nat
  BY DEF StreamInv, ReadInv, TypeOK
<1> QED
  BY <1>1, <1>2, <1>3 DEF Lines

\* An error that says what is so, and takes nothing.
LEMMA FailStream ==
  ASSUME StreamInv, ReadInv', NEW e, Fails(e), ~told, rd \in Readers,
         UNCHANGED <<peer, closed, net, remaining, head, body, told>>,
         e = "Invalid" => junked,
         e = "FirstReadEOF" => closed /\ at \in {"head", "shut"} /\ col = 0,
         e = "UnexpectedEOF" => closed /\ (at \notin {"head", "shut"} \/ col > 0)
  PROVE  StreamInv'
<1>1. rd' = rd \/ rd' \in {"failed", "dropped"}
  BY DEF Fails
<1>2. Sound(Now)' /\ SpoiltInv' /\ BodyInOrder' /\ junked' = junked /\ (rd' = rd => PathInv')
  BY SameStream
<1>3. PathInv'
  BY <1>1, <1>2 DEF PathInv, Gone
<1>4. at' = at /\ col' = col /\ net' = net /\ closed' = closed /\ told' = told /\ err' = e
  BY DEF peer, Fails
<1>5. ToldInv'
  BY <1>4 DEF ToldInv
<1>6. JunkIsFatal'
  BY <1>1, <1>2, <1>4 DEF StreamInv, JunkIsFatal
<1>7. EofMeansWhatItSays'
  BY <1>4 DEF EofMeansWhatItSays
<1> QED
  BY <1>2, <1>3, <1>5, <1>6, <1>7 DEF StreamInv

\* Where a reader that is not gone stands.
LEMMA PathHas ==
  ASSUME StreamInv, ~Gone
  PROVE  \E g \in [0..Len(net) -> Places] :
            Path(g, net) /\ g[Len(net)] = Now /\ Aligned(g[0])
  BY DEF StreamInv, PathInv

\* At the end of the input, a reader that wants more either stands between two messages
\* or has a message that was cut.
LEMMA EndIsCut ==
  ASSUME StreamInv, Hungry, EndOfFile, rd # "eof"
  PROVE  IF CleanEOF THEN at \in {"head", "shut"} /\ col = 0
                     ELSE at \notin {"head", "shut"} \/ col > 0
<1>1. ~Gone
  BY HungryIsNotTold DEF Gone
<1>2. PICK g \in [0..Len(net) -> Places] : Path(g, net) /\ g[Len(net)] = Now /\ Aligned(g[0])
  BY <1>1, PathHas
<1>3. net \in Seq(Bytes) /\ Len(net) \in Nat /\ filled = Len(net) /\ filled \in 0..Len(net)
  BY DEF StreamInv, ReadInv, TypeOK, EndOfFile
<1>4. /\ Now.at = at /\ Now.col = col
      /\ g[filled].at = at /\ g[filled].col = col
  BY <1>2, <1>3, NowMeans
<1>5. CASE filled = 0
  <2>1. g[0].at = at /\ col = 0
    BY <1>2, <1>4, <1>5 DEF Aligned
  <2>2. rd \in Lines \/ rd \in {"data", "cr", "lf"} \/ (rd = "cl" /\ remaining > 0)
    BY DEF Hungry, HungryForBody
  <2>3. /\ rd = "head" => at = "head"
        /\ rd \in {"size", "data", "cr", "lf", "trailer"} => at = rd
        /\ rd = "cl" /\ remaining > 0 => at = "data"
    BY <1>2, <2>1 DEF Aligned
  <2> QED
    BY <1>5, <2>1, <2>2, <2>3 DEF CleanEOF, Lines
<1>6. CASE filled > 0
  <2>1. rd \in Lines /\ Partial(rd)
    BY <1>6 DEF Hungry, HungryForBody, HungryForLine
  <2>2. g[0].at = rd
    BY <1>2, <2>1 DEF Aligned, Lines
  <2>3. \A i \in 1..filled : net[i].k # "junk" /\ ~net[i].last
    BY <2>1 DEF Partial, Piece, Lines
  <2>4. g[filled].col > 0
    BY <1>2, <1>3, <1>6, <2>1, <2>2, <2>3, LineOrJunk
  <2> QED
    BY <1>4, <1>6, <2>4 DEF CleanEOF
<1> QED
  BY <1>3, <1>5, <1>6

\* What is not the line that it should be was spoilt.
LEMMA RefusedIsJunk ==
  ASSUME StreamInv, rd \in Lines, Invalid(rd)
  PROVE  junked
<1>1. ~Gone
  BY DEF Gone, Lines
<1>2. PICK g \in [0..Len(net) -> Places] : Path(g, net) /\ g[Len(net)] = Now /\ Aligned(g[0])
  BY <1>1, PathHas
<1>3. net \in Seq(Bytes) /\ Len(net) \in Nat /\ filled \in 0..Len(net)
  BY DEF StreamInv, ReadInv, TypeOK
<1>4. g[0].at = rd
  BY <1>2 DEF Aligned, Lines
<1>5. ~ \A i \in 1..filled : Piece(net[i], rd)
  BY DEF Invalid, Partial
<1>6. ~ \E n \in 1..filled : net[n].k = rd /\ net[n].last /\ \A i \in 1..(n - 1) : Piece(net[i], rd)
  BY DEF Invalid, Complete
<1>7. \E x \in 1..filled : net[x].k = "junk"
  BY <1>2, <1>3, <1>4, <1>5, <1>6, LineOrJunk
<1> QED
  BY <1>3, <1>7 DEF StreamInv, SpoiltInv

\* Every error says what is so.
LEMMA ErrorStream ==
  ASSUME StreamInv, ReadInv', ReadError \/ ReadEOF \/ RejectLine
  PROVE  StreamInv'
<1>0. rd \in Readers
  BY DEF StreamInv, ReadInv, TypeOK
<1>1. CASE ReadError
  <2>1. ~told
    BY <1>1, HungryIsNotTold DEF ReadError
  <2>2. Fails("Io") /\ UNCHANGED <<peer, closed, net, remaining, head, body, told>>
    BY <1>1 DEF ReadError
  <2> QED
    BY <1>0, <2>1, <2>2, FailStream
<1>2. CASE ReadEOF
  <2>1. Hungry /\ EndOfFile /\ rd # "eof"
    BY <1>2 DEF ReadEOF
  <2>2. ~told /\ closed
    BY <2>1, HungryIsNotTold DEF EndOfFile
  <2>3. PICK e : e = (IF CleanEOF THEN "FirstReadEOF" ELSE "UnexpectedEOF")
    OBVIOUS
  <2>4. Fails(e) /\ UNCHANGED <<peer, closed, net, remaining, head, body, told>>
    BY <1>2, <2>3 DEF ReadEOF
  <2>5. /\ e = "Invalid" => junked
        /\ e = "FirstReadEOF" => closed /\ at \in {"head", "shut"} /\ col = 0
        /\ e = "UnexpectedEOF" => closed /\ (at \notin {"head", "shut"} \/ col > 0)
    BY <2>1, <2>2, <2>3, EndIsCut
  <2> QED
    BY <1>0, <2>2, <2>4, <2>5, FailStream
<1>3. CASE RejectLine
  <2>1. rd \in Lines /\ UNCHANGED <<peer, closed, net, remaining, head, body, told>>
    BY <1>3 DEF RejectLine
  <2>2. ~told
    BY <2>1, HungryIsNotTold
  <2>3. CASE Invalid(rd) /\ Fails("Invalid")
    <3>1. junked
      BY <2>1, <2>3, RefusedIsJunk
    <3> QED
      BY <1>0, <2>1, <2>2, <2>3, <3>1, FailStream
  <2>4. CASE Fails("TooLong")
    BY <1>0, <2>1, <2>2, <2>4, FailStream
  <2> QED
    BY <1>3, <2>3, <2>4 DEF RejectLine
<1> QED
  BY <1>1, <1>2, <1>3

-----------------------------------------------------------------------------
(* Taking bytes *)

\* Bytes that leave the stream leave the rest of a path.
LEMMA TakingLeaves ==
  ASSUME StreamInv, NEW n \in 1..filled, Consume(n), UNCHANGED <<peer, closed>>
  PROVE  /\ Sound(Now)' /\ SpoiltInv' /\ junked' = junked /\ Now' = Now
         /\ at' = at /\ col' = col /\ closed' = closed
         /\ (\A i \in 1..n : net[i].k # "junk") /\ (\E i \in 1..Len(net) : net[i].k = "junk")
              => \E i \in 1..Len(net') : net'[i].k = "junk"
<1>0. /\ at' = at /\ msg' = msg /\ sent' = sent /\ left' = left /\ col' = col /\ junked' = junked
      /\ closed' = closed
  BY DEF peer
<1>1. Now' = Now
  BY <1>0 DEF Now
<1>2. Sound(Now)'
  BY <1>1 DEF StreamInv
<1>3. net \in Seq(Bytes) /\ Len(net) \in Nat /\ filled \in 0..Len(net) /\ n \in 1..Len(net)
  BY DEF StreamInv, ReadInv, TypeOK
<1>4. /\ Len(net') = Len(net) - n
      /\ \A i \in 1..(Len(net) - n) : net'[i] = net[i + n]
  <2>1. net' = SubSeq(net, n + 1, Len(net)) /\ n \in 0..Len(net)
    BY <1>3 DEF Consume
  <2> QED
    BY <1>3, <2>1, LastBytes
<1>5. SpoiltInv'
  <2>1. \A i \in 1..(Len(net) - n) : i + n \in 1..Len(net)
    BY <1>3
  <2> QED
    BY <1>0, <1>4, <2>1 DEF StreamInv, SpoiltInv
<1>6. ASSUME \A i \in 1..n : net[i].k # "junk", NEW i \in 1..Len(net), net[i].k = "junk"
      PROVE  \E x \in 1..Len(net') : net'[x].k = "junk"
  <2>1. i \notin 1..n
    BY <1>6
  <2>2. i - n \in 1..(Len(net) - n) /\ (i - n) + n = i
    BY <1>3, <2>1
  <2> QED
    BY <1>4, <1>6, <2>2
<1> QED
  BY <1>0, <1>1, <1>2, <1>5, <1>6

\* A reader that takes bytes that are not spoilt, and that is then where they led to.
LEMMA TakeStream ==
  ASSUME StreamInv, ReadInv', ~Gone, NEW n \in 1..filled, Consume(n), UNCHANGED <<peer, closed, err>>,
         NEW g \in [0..Len(net) -> Places], Path(g, net), g[Len(net)] = Now,
         Aligned(g[n])', \A i \in 1..n : net[i].k # "junk",
         told' => rd' \in {"none", "eof", "done"} \/ (rd' = "cl" /\ remaining' = 0),
         BodyInOrder'
  PROVE  StreamInv'
<1>1. /\ Sound(Now)' /\ SpoiltInv' /\ junked' = junked /\ Now' = Now
      /\ at' = at /\ col' = col /\ closed' = closed /\ err' = err
      /\ (\A i \in 1..n : net[i].k # "junk") /\ (\E i \in 1..Len(net) : net[i].k = "junk")
           => \E i \in 1..Len(net') : net'[i].k = "junk"
  BY TakingLeaves
<1>2. net \in Seq(Bytes) /\ n \in 0..Len(net)
  BY DEF StreamInv, ReadInv, TypeOK
<1>3. net' = SubSeq(net, n + 1, Len(net))
  BY DEF Consume
<1>4. PICK h \in [0..Len(net') -> Places] :
        Path(h, net') /\ h[Len(net')] = g[Len(net)] /\ h[0] = g[n]
  <2>1. \E h \in [0..Len(SubSeq(net, n + 1, Len(net))) -> Places] :
           /\ Path(h, SubSeq(net, n + 1, Len(net)))
           /\ h[Len(SubSeq(net, n + 1, Len(net)))] = g[Len(net)] /\ h[0] = g[n]
    BY <1>2, PathShrinks
  <2> QED
    BY <1>3, <2>1
<1>5. PathInv'
  <2>1. Aligned(h[0])'
    BY <1>4
  <2>2. h[Len(net')] = Now'
    BY <1>1, <1>4
  <2> QED
    BY <1>4, <2>1, <2>2 DEF PathInv
<1>6. ToldInv'
  BY <1>1 DEF StreamInv, ToldInv
<1>7. JunkIsFatal'
  BY <1>1 DEF StreamInv, JunkIsFatal, Gone
<1>8. EofMeansWhatItSays'
  BY <1>1 DEF StreamInv, EofMeansWhatItSays
<1> QED
  BY <1>1, <1>5, <1>6, <1>7, <1>8 DEF StreamInv

\* Where the reader of a line that is complete gets to.
LEMMA LineIsTaken ==
  ASSUME StreamInv, rd \in Lines, NEW n \in 1..filled, Complete(rd, n),
         NEW g \in [0..Len(net) -> Places], Path(g, net), Aligned(g[0])
  PROVE  /\ \A i \in 1..n : net[i].k # "junk"
         /\ g[n] \in Places /\ Sound(g[0]) /\ Sound(g[n])
         /\ g[0].at = rd /\ Stays(g[0], g[n - 1]) /\ g[n - 1].at = rd
         /\ rd = "head" => HeadStep(g[n - 1], net[n], g[n])
         /\ rd = "size" => SizeStep(g[n - 1], net[n], g[n])
         /\ rd = "trailer" => TrailerStep(g[n - 1], net[n], g[n])
         /\ rd # "head" => g[0].msg = head /\ g[0].sent = Len(body)
<1>1. net \in Seq(Bytes) /\ n \in 1..Len(net) /\ n \in 0..Len(net) /\ 0 \in 0..Len(net)
  BY DEF StreamInv, ReadInv, TypeOK
<1>2. g[0].at = rd /\ (rd # "head" => g[0].msg = head /\ g[0].sent = Len(body))
  BY DEF Aligned, Lines
<1>3. net[n].k = rd /\ net[n].last /\ \A i \in 1..(n - 1) : Piece(net[i], rd)
  BY DEF Complete
<1>4. /\ Stays(g[0], g[n - 1]) /\ g[n - 1].at = rd
      /\ \/ HeadStep(g[n - 1], net[n], g[n])
         \/ SizeStep(g[n - 1], net[n], g[n])
         \/ TrailerStep(g[n - 1], net[n], g[n])
  BY <1>1, <1>2, <1>3, WholeLine
<1>5. /\ rd = "head" => HeadStep(g[n - 1], net[n], g[n])
      /\ rd = "size" => SizeStep(g[n - 1], net[n], g[n])
      /\ rd = "trailer" => TrailerStep(g[n - 1], net[n], g[n])
  BY <1>4 DEF HeadStep, SizeStep, TrailerStep
<1>6. ASSUME NEW i \in 1..n PROVE net[i].k # "junk"
  <2>1. i \in 1..(n - 1) \/ i = n
    BY <1>1
  <2> QED
    BY <1>3, <2>1 DEF Piece, Lines
<1>7. g[n] \in Places /\ Sound(g[0]) /\ Sound(g[n])
  BY <1>1 DEF Path
<1> QED
  BY <1>2, <1>4, <1>5, <1>6, <1>7

\* A head announces one of the four framings.
LEMMA MessageFraming ==
  ASSUME NEW m \in Messages \cup {NoMessage}
  PROVE  m.f \in {"none", "cl", "te", "eof"}
<1>1. Framings \subseteq {"none", "cl", "te", "eof"}
  OBVIOUS
<1>2. CASE m \in Messages
  BY <1>1, <1>2 DEF Messages
<1>3. CASE m = NoMessage
  BY <1>3 DEF NoMessage
<1> QED
  BY <1>2, <1>3

\* What a byte in the buffer says of a message.
LEMMA BufferedMessage ==
  ASSUME TypeOK, NEW n \in 1..filled
  PROVE  /\ net[n].m \in Messages \cup {NoMessage}
         /\ net[n].m.f \in {"none", "cl", "te", "eof"}
         /\ net[n].m.len \in 0..MaxBody /\ net[n].m.len \in Nat
<1>1. net \in Seq(Bytes) /\ filled \in 0..Len(net)
  BY DEF TypeOK
<1>2. n \in 1..Len(net)
  BY <1>1
<1>3. net[n] \in Bytes
  BY <1>1, <1>2
<1>4. net[n].m \in Messages \cup {NoMessage}
  BY <1>3 DEF Bytes
<1>5. net[n].m.f \in {"none", "cl", "te", "eof"} /\ net[n].m.len \in 0..MaxBody
  BY <1>4, MessageFraming, MessageLength
<1> QED
  BY <1>4, <1>5

\* A head leaves the reader at the start of the body that it announces.
LEMMA HeadStream ==
  ASSUME StreamInv, ReadInv', ReadHead
  PROVE  StreamInv'
<1>1. PICK n \in 1..filled :
        /\ Complete("head", n)
        /\ Consume(n)
        /\ head' = net[n].m
        /\ rd' = IF net[n].m.f = "te" THEN "size" ELSE net[n].m.f
        /\ remaining' = IF net[n].m.f = "cl" THEN net[n].m.len ELSE 0
  BY DEF ReadHead
<1>2. rd = "head" /\ ~Gone /\ body' = <<>> /\ Len(body') = 0 /\ told' = FALSE /\ UNCHANGED <<peer, closed, err>>
  BY DEF ReadHead, Gone
<1>3. PICK g \in [0..Len(net) -> Places] : Path(g, net) /\ g[Len(net)] = Now /\ Aligned(g[0])
  BY <1>2, PathHas
<1>4. /\ \A i \in 1..n : net[i].k # "junk"
      /\ Sound(g[n]) /\ HeadStep(g[n - 1], net[n], g[n])
  BY <1>1, <1>2, <1>3, LineIsTaken DEF Lines
<1>6. net[n].m.f \in {"none", "cl", "te", "eof"} /\ net[n].m.len \in Nat
  BY BufferedMessage DEF StreamInv, ReadInv
<1>7. /\ g[n].msg = head' /\ g[n].sent = 0 /\ g[n].left = head'.len /\ g[n].col = 0
      /\ g[n].at = AfterHead(head')
      /\ head'.f = "none" => head'.len = 0
  BY <1>1, <1>4 DEF HeadStep, Sound
<1>8. Aligned(g[n])'
  <2>1. /\ rd' = IF head'.f = "te" THEN "size" ELSE head'.f
        /\ remaining' = IF head'.f = "cl" THEN head'.len ELSE 0
        /\ head'.f \in {"none", "cl", "te", "eof"} /\ head'.len \in Nat
    BY <1>1, <1>6
  <2>2. g[n].at = IF head'.f = "te" THEN "size"
                  ELSE IF head'.len > 0 THEN "data"
                  ELSE IF head'.f = "eof" THEN "shut" ELSE Over(head')
    BY <1>7 DEF AfterHead
  <2>3. CASE head'.f = "te"
    BY <1>2, <1>7, <2>1, <2>2, <2>3 DEF Aligned
  <2>4. CASE head'.f = "cl"
    BY <1>2, <1>7, <2>1, <2>2, <2>4 DEF Aligned
  <2>5. CASE head'.f = "eof"
    BY <1>2, <1>7, <2>1, <2>2, <2>5 DEF Aligned
  <2>6. CASE head'.f = "none"
    BY <1>2, <1>7, <2>1, <2>2, <2>6 DEF Aligned
  <2> QED
    BY <2>1, <2>3, <2>4, <2>5, <2>6
<1>9. BodyInOrder'
  BY <1>2 DEF BodyInOrder
<1> QED
  BY <1>1, <1>2, <1>3, <1>4, <1>8, <1>9, TakeStream

\* The line of a chunk leaves the reader at its first byte, or at the trailers.
LEMMA SizeStream ==
  ASSUME StreamInv, ReadInv', ReadSize
  PROVE  StreamInv'
<1>1. PICK n \in 1..filled :
        /\ Complete("size", n)
        /\ Consume(n)
        /\ remaining' = net[n].n
        /\ rd' = IF net[n].n = 0 THEN "trailer" ELSE "data"
  BY DEF ReadSize
<1>2. rd = "size" /\ ~Gone /\ UNCHANGED <<peer, closed, head, body, told, err>>
  BY DEF ReadSize, Gone
<1>3. PICK g \in [0..Len(net) -> Places] : Path(g, net) /\ g[Len(net)] = Now /\ Aligned(g[0])
  BY <1>2, PathHas
<1>4. /\ \A i \in 1..n : net[i].k # "junk"
      /\ Sound(g[0]) /\ SizeStep(g[n - 1], net[n], g[n])
      /\ g[0].at = "size" /\ Stays(g[0], g[n - 1]) /\ g[0].msg = head /\ g[0].sent = Len(body)
  BY <1>1, <1>2, <1>3, LineIsTaken DEF Lines
<1>5. /\ g[n].msg = head /\ g[n].sent = Len(body) /\ g[n].left = net[n].n /\ g[n].col = 0
      /\ g[n].at = IF net[n].n = 0 THEN "trailer" ELSE "data"
  BY <1>4 DEF SizeStep, Stays
<1>6. head.f = "te"
  BY <1>4 DEF Sound
<1>7. Aligned(g[n])'
  BY <1>1, <1>2, <1>5, <1>6 DEF Aligned
<1>8. ~told
  BY <1>2, HungryIsNotTold DEF Lines
<1>9. BodyInOrder'
  BY <1>2 DEF StreamInv, BodyInOrder
<1> QED
  BY <1>1, <1>2, <1>3, <1>4, <1>7, <1>8, <1>9, TakeStream

\* The trailers end a message of which everything was answered.
LEMMA TrailersStream ==
  ASSUME StreamInv, ReadInv', ReadTrailers
  PROVE  StreamInv'
<1>1. PICK n \in 1..filled : Complete("trailer", n) /\ Consume(n)
  BY DEF ReadTrailers
<1>2. /\ rd = "trailer" /\ ~Gone /\ rd' = "done" /\ told' = TRUE
      /\ UNCHANGED <<peer, closed, remaining, head, body, err>>
  BY DEF ReadTrailers, Gone
<1>3. PICK g \in [0..Len(net) -> Places] : Path(g, net) /\ g[Len(net)] = Now /\ Aligned(g[0])
  BY <1>2, PathHas
<1>4. /\ \A i \in 1..n : net[i].k # "junk"
      /\ Sound(g[0]) /\ TrailerStep(g[n - 1], net[n], g[n])
      /\ g[0].at = "trailer" /\ Stays(g[0], g[n - 1]) /\ g[0].msg = head /\ g[0].sent = Len(body)
  BY <1>1, <1>2, <1>3, LineIsTaken DEF Lines
<1>5. /\ g[n].msg = head /\ g[n].sent = Len(body) /\ g[n].col = 0 /\ g[n].at = Over(head)
  BY <1>4 DEF TrailerStep, Stays
<1>6. Len(body) = head.len
  BY <1>4 DEF Sound
<1>7. Over(head)' = Over(head)
  BY <1>2 DEF Over
<1>8. Aligned(g[n])'
  BY <1>2, <1>5, <1>6, <1>7 DEF Aligned
<1>9. BodyInOrder'
  BY <1>2 DEF StreamInv, BodyInOrder
<1> QED
  BY <1>1, <1>2, <1>3, <1>4, <1>8, <1>9, TakeStream

\* The CRLF after a chunk is taken byte by byte; what is there instead was spoilt.
LEMMA FooterStream ==
  ASSUME StreamInv, ReadInv', ReadFooter
  PROVE  StreamInv'
<1>1. rd \in {"cr", "lf"} /\ ~Gone /\ Consume(1)
      /\ UNCHANGED <<peer, closed, remaining, head, body, told>>
  BY DEF ReadFooter, Gone
<1>2. PICK g \in [0..Len(net) -> Places] : Path(g, net) /\ g[Len(net)] = Now /\ Aligned(g[0])
  BY <1>1, PathHas
<1>3. 1 \in 1..filled /\ 1 \in 1..Len(net) /\ 1 - 1 = 0 /\ \A i \in 1..1 : i = 1
  BY DEF ReadFooter, StreamInv, ReadInv, TypeOK
<1>4. g[0].at = rd /\ g[0].msg = head /\ g[0].sent = Len(body)
  BY <1>1, <1>2 DEF Aligned
<1>5. FooterStep(g[0], net[1], g[1]) \/ JunkStep(g[0], net[1], g[1])
  <2>1. Leads(g[0], net[1], g[1])
    BY <1>2, <1>3 DEF Path
  <2> QED
    BY <1>1, <1>4, <2>1 DEF Leads, PieceStep, HeadStep, SizeStep, DataStep, TrailerStep, Lines
<1>6. BodyInOrder'
  BY <1>1 DEF StreamInv, BodyInOrder
<1>7. ~told
  BY <1>1 DEF StreamInv, ToldInv
<1>8. CASE FooterByte(net[1])
  <2>1. net[1].k = rd
    BY <1>8 DEF FooterByte
  <2>2. FooterStep(g[0], net[1], g[1])
    BY <1>1, <1>5, <2>1 DEF JunkStep
  <2>3. /\ g[1].at = (IF rd = "cr" THEN "lf" ELSE "size")
        /\ g[1].msg = head /\ g[1].sent = Len(body) /\ g[1].col = 0
    BY <1>4, <2>2 DEF FooterStep, Stays
  <2>4. rd' = (IF rd = "cr" THEN "lf" ELSE "size") /\ err' = err
    BY <1>8 DEF ReadFooter
  <2>5. Aligned(g[1])'
    BY <1>1, <2>3, <2>4 DEF Aligned
  <2>6. \A i \in 1..1 : net[i].k # "junk"
    BY <1>1, <1>3, <2>1
  <2> QED
    BY <1>1, <1>2, <1>3, <1>6, <1>7, <2>4, <2>5, <2>6, TakeStream
<1>9. CASE ~FooterByte(net[1])
  <2>1. net[1].k # rd
    BY <1>9 DEF FooterByte
  <2>2. net[1].k = "junk"
    BY <1>4, <1>5, <2>1 DEF FooterStep, JunkStep
  <2>3. junked
    BY <1>3, <2>2 DEF StreamInv, SpoiltInv
  <2>4. rd' = "failed" /\ err' = "Invalid"
    BY <1>1, <1>9 DEF ReadFooter, Fails
  <2>5. Sound(Now)' /\ SpoiltInv' /\ junked' = junked
    BY <1>1, <1>3, TakingLeaves
  <2>6. PathInv' /\ ToldInv' /\ JunkIsFatal' /\ EofMeansWhatItSays'
    BY <1>1, <1>7, <2>3, <2>4, <2>5 DEF PathInv, Gone, ToldInv, JunkIsFatal, EofMeansWhatItSays
  <2> QED
    BY <1>6, <2>5, <2>6 DEF StreamInv
<1> QED
  BY <1>8, <1>9

\* Bytes of the body that are due: what read() answers of them are the next ones.
LEMMA DataIsNext ==
  ASSUME StreamInv, NEW n \in 1..filled, Answers(n),
         NEW g \in [0..Len(net) -> Places], Path(g, net),
         g[0].at = "data", n <= g[0].left, g[0].sent = Len(body)
  PROVE  /\ BodyInOrder' /\ Len(body') = Len(body) + n
         /\ \A i \in 1..n : net[i].k # "junk"
         /\ g[n].msg = g[0].msg /\ g[n].col = 0 /\ g[n].sent = Len(body')
         /\ g[n].left = g[0].left - n
         /\ g[n].at = IF n < g[0].left THEN "data" ELSE AfterData(g[0].msg)
<1>1. net \in Seq(Bytes) /\ n \in 1..Len(net) /\ body \in Seq(Bytes) /\ Len(body) \in Nat /\ n \in Nat
  BY DEF StreamInv, ReadInv, TypeOK
<1>2. /\ \A i \in 1..n : net[i].k = "data" /\ net[i].n = Len(body) + i
      /\ g[n].msg = g[0].msg /\ g[n].col = 0 /\ g[n].sent = Len(body) + n
      /\ g[n].left = g[0].left - n
      /\ g[n].at = IF n < g[0].left THEN "data" ELSE AfterData(g[0].msg)
  <2>1. /\ \A i \in 1..n : net[i].k = "data" /\ net[i].n = g[0].sent + i
        /\ g[n].msg = g[0].msg /\ g[n].col = 0 /\ g[n].sent = g[0].sent + n
        /\ g[n].left = g[0].left - n
        /\ g[n].at = IF n < g[0].left THEN "data" ELSE AfterData(g[0].msg)
    <3>1. net \in Seq(Bytes) /\ n \in 1..Len(net)
      BY <1>1
    <3>2. Path(g, net) /\ g[0].at = "data" /\ n <= g[0].left
      OBVIOUS
    <3>3. g \in [0..Len(net) -> Places]
      OBVIOUS
    <3> QED
      BY ONLY <3>1, <3>2, <3>3, DueIsData, ZenonT(60)
  <2> QED
    BY <2>1
<1>3. body' = body \o SubSeq(net, 1, n)
  BY DEF Answers
<1>4. SubSeq(net, 1, n) \in Seq(Bytes) /\ Len(SubSeq(net, 1, n)) = n
      /\ \A i \in 1..n : SubSeq(net, 1, n)[i] = net[i]
  BY <1>1, FirstBytes
<1>5. /\ Len(body') = Len(body) + n
      /\ \A i \in 1..(Len(body) + n) :
           body'[i] = IF i <= Len(body) THEN body[i] ELSE SubSeq(net, 1, n)[i - Len(body)]
  <2>1. PICK z \in Seq(Bytes) : z = SubSeq(net, 1, n)
    BY <1>4
  <2>2. /\ Len(body \o z) = Len(body) + Len(z)
        /\ \A i \in 1..(Len(body) + Len(z)) :
             (body \o z)[i] = IF i <= Len(body) THEN body[i] ELSE z[i - Len(body)]
    BY <1>1, ConcatProperties
  <2>3. body' = body \o z /\ Len(z) = n
    BY <1>3, <1>4, <2>1
  <2> QED
    BY <2>1, <2>2, <2>3
<1>6. ASSUME NEW i \in 1..Len(body') PROVE body'[i].k = "data" /\ body'[i].n = i
  <2>1. CASE i <= Len(body)
    <3>1. i \in 1..Len(body) /\ i \in 1..(Len(body) + n)
      BY <1>1, <1>5, <2>1
    <3>2. body'[i] = body[i]
      BY <1>5, <2>1, <3>1
    <3> QED
      BY <3>1, <3>2 DEF StreamInv, BodyInOrder
  <2>2. CASE i > Len(body)
    <3>1. i - Len(body) \in 1..n /\ Len(body) + (i - Len(body)) = i /\ ~(i <= Len(body))
          /\ i \in 1..(Len(body) + n)
      BY <1>1, <1>5, <2>2
    <3>2. body'[i] = net[i - Len(body)]
      BY <1>4, <1>5, <3>1
    <3> QED
      BY <1>2, <3>1, <3>2
  <2> QED
    BY <1>1, <1>5, <2>1, <2>2
<1>7. BodyInOrder'
  BY <1>6 DEF BodyInOrder
<1> QED
  BY <1>2, <1>5, <1>7

\* The bytes of a chunk, at most those that its line announced.
LEMMA ChunkStream ==
  ASSUME StreamInv, ReadInv', ReadChunk
  PROVE  StreamInv'
<1>1. PICK max \in 1..MaxRead :
        LET n == IF max < Available THEN max ELSE Available IN
        /\ Answers(n)
        /\ remaining' = remaining - n
        /\ rd' = IF n < remaining THEN "data" ELSE AfterChunk
  BY DEF ReadChunk
<1>2. PICK n : n = IF max < Available THEN max ELSE Available
  OBVIOUS
<1>3. /\ Answers(n) /\ remaining' = remaining - n
      /\ rd' = IF n < remaining THEN "data" ELSE "cr"
  BY <1>1, <1>2 DEF AfterChunk
<1>4. /\ rd = "data" /\ ~Gone /\ Available > 0
      /\ UNCHANGED <<peer, closed, head, told, err>>
  BY DEF ReadChunk, Gone
<1>5. n \in 1..filled /\ n <= remaining
  <2>1. Available \in 1..filled /\ Available <= remaining /\ filled \in Nat /\ remaining \in Nat
    BY <1>4, AvailableIsBuffered DEF StreamInv, ReadInv, TypeOK
  <2>2. max \in Nat /\ max >= 1
    BY <1>1
  <2> QED
    BY <1>2, <2>1, <2>2
<1>6. PICK g \in [0..Len(net) -> Places] : Path(g, net) /\ g[Len(net)] = Now /\ Aligned(g[0])
  BY <1>4, PathHas
<1>7. g[0].at = "data" /\ g[0].left = remaining /\ head.f = "te" /\ g[0].msg = head
      /\ g[0].sent = Len(body)
  BY <1>4, <1>6 DEF Aligned
<1>8. /\ BodyInOrder' /\ Len(body') = Len(body) + n
      /\ \A i \in 1..n : net[i].k # "junk"
      /\ g[n].msg = head /\ g[n].col = 0 /\ g[n].sent = Len(body')
      /\ g[n].left = remaining - n
      /\ g[n].at = IF n < remaining THEN "data" ELSE AfterData(head)
  BY <1>3, <1>5, <1>6, <1>7, DataIsNext
<1>9. AfterData(head) = "cr"
  BY <1>7 DEF AfterData
<1>10. Aligned(g[n])'
  BY <1>3, <1>4, <1>7, <1>8, <1>9 DEF Aligned
<1>11. ~told /\ Consume(n)
  BY <1>3, <1>4 DEF StreamInv, ToldInv, Answers
<1> QED
  BY <1>4, <1>5, <1>6, <1>8, <1>10, <1>11, TakeStream

\* What is left of a body that the close ends: no byte follows it.
LEMMA EofIsLast ==
  ASSUME NEW q \in Seq(Bytes), NEW g \in [0..Len(q) -> Places], Path(g, q),
         g[0].at = "data", g[0].msg.f = "eof"
  PROVE  Len(q) <= g[0].left
<1>1. 0 \in 0..Len(q) /\ Len(q) \in Nat
  OBVIOUS
<1>2. g[0] \in Places
  BY <1>1
<1>3. g[0].left \in Nat
  BY <1>2, PlaceCounts
<1>4. Sound(g[0])
  BY <1>1 DEF Path
<1>5. g[0].left >= 1
  <2>1. g[0].left \in 1..(g[0].msg.len - g[0].sent)
    BY <1>4 DEF Sound
  <2> QED
    BY <1>3, <2>1
<1> SUFFICES ASSUME Len(q) > g[0].left PROVE FALSE
  BY <1>1, <1>3
<1>6. PICK n : n = g[0].left
  OBVIOUS
<1>7. n \in 1..Len(q) /\ n \in 0..Len(q) /\ n <= g[0].left /\ ~(n < g[0].left) /\ n # Len(q)
  BY <1>1, <1>3, <1>5, <1>6
<1>8. g[n].at = IF n < g[0].left THEN "data" ELSE AfterData(g[0].msg)
  <2>1. Path(g, q) /\ g[0].at = "data" /\ q \in Seq(Bytes) /\ g \in [0..Len(q) -> Places]
    OBVIOUS
  <2> QED
    BY ONLY <1>7, <2>1, DueIsData, ZenonT(60)
<1>9. g[n].at = "shut"
  BY <1>7, <1>8 DEF AfterData
<1>10. n = Len(q)
  BY <1>7, <1>9, ShutIsLast
<1> QED
  BY <1>7, <1>10

\* A body that ends where its length says, or the connection.
LEMMA BodyStream ==
  ASSUME StreamInv, ReadInv', ReadBody
  PROVE  StreamInv'
<1>1. PICK max \in 1..MaxRead :
        LET n == IF max < Available THEN max ELSE Available IN
        /\ Answers(n)
        /\ remaining' = IF rd = "eof" THEN 0 ELSE remaining - n
  BY DEF ReadBody
<1>2. PICK n : n = IF max < Available THEN max ELSE Available
  OBVIOUS
<1>3. Answers(n) /\ remaining' = IF rd = "eof" THEN 0 ELSE remaining - n
  BY <1>1, <1>2
<1>4. /\ rd \in {"cl", "eof"} /\ ~Gone /\ Available > 0
      /\ UNCHANGED <<peer, closed, rd, head, told, err>>
  BY DEF ReadBody, Gone
<1>5. n \in 1..filled /\ (rd = "cl" => n <= remaining) /\ remaining \in Nat /\ n \in Nat /\ n >= 1
  <2>1. /\ Available \in 1..filled /\ (rd # "eof" => Available <= remaining)
        /\ filled \in Nat /\ remaining \in Nat
    BY <1>4, AvailableIsBuffered DEF StreamInv, ReadInv, TypeOK
  <2>2. max \in Nat /\ max >= 1
    BY <1>1
  <2> QED
    BY <1>2, <2>1, <2>2
<1>6. PICK g \in [0..Len(net) -> Places] : Path(g, net) /\ g[Len(net)] = Now /\ Aligned(g[0])
  BY <1>4, PathHas
<1>7. g[0].msg = head /\ g[0].sent = Len(body) /\ g[0].sent <= head.len
  <2>1. 0 \in 0..Len(net)
    BY DEF StreamInv, ReadInv, TypeOK
  <2>2. Sound(g[0])
    BY <1>6, <2>1 DEF Path
  <2> QED
    BY <1>4, <1>6, <2>2 DEF Aligned, Sound
<1>8. net \in Seq(Bytes) /\ n \in 1..Len(net) /\ 0 \in 0..Len(net) /\ Len(net) \in Nat
      /\ Len(body) \in Nat /\ head.len \in Nat
  <2>1. head.len \in 0..MaxBody
    <3>1. head \in Messages \cup {NoMessage}
      BY DEF StreamInv, ReadInv, TypeOK
    <3> QED
      BY <3>1, MessageLength
  <2>2. MaxBody \in Nat
    OBVIOUS
  <2>3. head.len \in Nat
    BY <2>1, <2>2
  <2>4. net \in Seq(Bytes) /\ body \in Seq(Bytes) /\ filled \in 0..Len(net)
    BY DEF StreamInv, ReadInv, TypeOK
  <2>5. Len(net) \in Nat /\ Len(body) \in Nat
    BY <2>4
  <2> QED
    BY <1>5, <2>3, <2>4, <2>5
<1>9. g[0].at = "data"
  <2>1. CASE rd = "cl"
    <3>1. remaining > 0
      BY <1>5, <2>1
    <3> QED
      BY <1>6, <2>1, <3>1 DEF Aligned
  <2>2. CASE rd = "eof"
    <3>1. g[0].at = IF Len(body) < head.len THEN "data" ELSE "shut"
      BY <1>6, <2>2 DEF Aligned
    <3>2. g[0].at # "shut"
      <4>1. g[0].at = "shut" => 0 = Len(net)
        BY <1>6, <1>8, ShutIsLast
      <4> QED
        BY <1>8, <4>1
    <3> QED
      BY <3>1, <3>2
  <2> QED
    BY <1>4, <2>1, <2>2
<1>10. /\ head.f = rd
       /\ rd = "cl" => remaining = head.len - Len(body)
  BY <1>4, <1>6 DEF Aligned
<1>11. g[0].left = head.len - Len(body)
  <2>1. Sound(g[0])
    BY <1>6, <1>8 DEF Path
  <2> QED
    BY <1>4, <1>7, <1>9, <1>10, <2>1 DEF Sound
<1>12. n <= g[0].left
  <2>1. CASE rd = "cl"
    BY <1>5, <1>10, <1>11, <2>1
  <2>2. CASE rd = "eof"
    <3>1. Len(net) <= g[0].left
      BY <1>6, <1>7, <1>8, <1>9, <1>10, <2>2, EofIsLast
    <3> QED
      BY <1>8, <1>11, <3>1
  <2> QED
    BY <1>4, <2>1, <2>2
<1>13. /\ BodyInOrder' /\ Len(body') = Len(body) + n
       /\ \A i \in 1..n : net[i].k # "junk"
       /\ g[n].msg = g[0].msg /\ g[n].col = 0 /\ g[n].sent = Len(body')
       /\ g[n].left = g[0].left - n
       /\ g[n].at = IF n < g[0].left THEN "data" ELSE AfterData(g[0].msg)
  BY <1>3, <1>5, <1>6, <1>7, <1>9, <1>12, DataIsNext
<1>14. /\ g[n].msg = head /\ g[n].col = 0 /\ g[n].sent = Len(body')
       /\ n < g[0].left <=> Len(body') < head.len
       /\ AfterData(head) = IF rd = "eof" THEN "shut" ELSE Over(head)
       /\ rd' = rd /\ head' = head
       /\ rd = "cl" => remaining' = head.len - Len(body')
  <2>1. n < g[0].left <=> Len(body') < head.len
    BY <1>5, <1>8, <1>11, <1>13
  <2>2. AfterData(head) = IF rd = "eof" THEN "shut" ELSE Over(head)
    BY <1>4, <1>10 DEF AfterData
  <2>3. rd = "cl" => remaining' = head.len - Len(body')
    <3> SUFFICES ASSUME rd = "cl" PROVE remaining' = head.len - Len(body')
      OBVIOUS
    <3>1. remaining' = (head.len - Len(body)) - n /\ Len(body') = Len(body) + n
      BY <1>3, <1>10, <1>13
    <3>2. \A x, y, z \in Nat : (x - y) - z = x - (y + z)
      OBVIOUS
    <3> QED
      BY <1>5, <1>8, <3>1, <3>2
  <2> QED
    BY <1>4, <1>7, <1>13, <2>1, <2>2, <2>3
<1>15. g[n].at = IF Len(body') < head.len THEN "data" ELSE IF rd = "eof" THEN "shut" ELSE Over(head)
  BY <1>7, <1>13, <1>14
<1>16. Aligned(g[n])'
  <2>1. CASE rd = "cl"
    <3>1. head.len \in Nat /\ Len(body') \in Nat /\ remaining' = head.len - Len(body')
      BY <1>5, <1>8, <1>13, <1>14, <2>1
    <3>2. /\ remaining' = 0 => g[n].at = Over(head)
          /\ remaining' > 0 => g[n].at = "data"
      BY <1>15, <2>1, <3>1
    <3>3. Over(head)' = Over(head)
      BY <1>14 DEF Over
    <3> QED
      BY <1>10, <1>14, <2>1, <3>1, <3>2, <3>3 DEF Aligned
  <2>2. CASE rd = "eof"
    BY <1>10, <1>14, <1>15, <2>2 DEF Aligned
  <2> QED
    BY <1>4, <2>1, <2>2
<1>17. told' => rd' \in {"none", "eof", "done"} \/ (rd' = "cl" /\ remaining' = 0)
  <2>1. told => rd = "eof"
    BY <1>4, <1>5 DEF StreamInv, ToldInv
  <2> QED
    BY <1>4, <2>1
<1>18. Consume(n) /\ UNCHANGED <<peer, closed, err>>
  BY <1>3, <1>4 DEF Answers
<1> QED
  BY <1>4, <1>5, <1>6, <1>13, <1>16, <1>17, <1>18, TakeStream

-----------------------------------------------------------------------------
(* The connection for the next message *)

\* A connection is handed back where the next message starts.
LEMMA RecycleStream ==
  ASSUME StreamInv, ReadInv', Recycle
  PROVE  StreamInv'
<1>1. /\ told /\ told' = FALSE /\ rd' = IF Recyclable THEN "head" ELSE "dropped"
      /\ UNCHANGED <<peer, closed, net, filled, remaining, head, body, err>>
  BY DEF Recycle
<1>2. Sound(Now)' /\ SpoiltInv' /\ BodyInOrder' /\ Now' = Now /\ junked' = junked
  BY <1>1, SameStream
<1>3. rd \in {"none", "eof", "done"} \/ (rd = "cl" /\ remaining = 0)
  BY <1>1 DEF StreamInv, ToldInv
<1>4. PathInv'
  <2>1. CASE ~Recyclable
    BY <1>1, <2>1 DEF PathInv, Gone
  <2>2. CASE Recyclable
    <3>1. ~Gone
      BY <1>3 DEF Gone
    <3>2. PICK g \in [0..Len(net) -> Places] : Path(g, net) /\ g[Len(net)] = Now /\ Aligned(g[0])
      BY <3>1, PathHas
    <3>3. g[0].at = Over(head) /\ g[0].col = 0 /\ head.keep
      BY <1>3, <2>2, <3>2 DEF Aligned, Recyclable
    <3>4. g[0].at = "head"
      BY <3>3 DEF Over
    <3>5. Aligned(g[0])'
      BY <1>1, <2>2, <3>3, <3>4 DEF Aligned
    <3>6. g \in [0..Len(net') -> Places] /\ Path(g, net') /\ g[Len(net')] = Now'
      BY <1>1, <1>2, <3>2
    <3> QED
      BY <3>5, <3>6 DEF PathInv
  <2> QED
    BY <2>1, <2>2
<1>5. ToldInv'
  BY <1>1 DEF StreamInv, ToldInv
<1>6. at' = at /\ col' = col /\ net' = net /\ err' = err
  BY <1>1 DEF peer
<1>7. JunkIsFatal'
  BY <1>1, <1>2, <1>3, <1>6 DEF StreamInv, JunkIsFatal
<1>8. EofMeansWhatItSays'
  BY <1>6 DEF StreamInv, EofMeansWhatItSays
<1> QED
  BY <1>2, <1>4, <1>5, <1>7, <1>8 DEF StreamInv

-----------------------------------------------------------------------------
(* The theorems *)

\* Every step keeps the path.
LEMMA NextStream == StreamInv /\ [Next]_vars => StreamInv'
<1> SUFFICES ASSUME StreamInv, [Next]_vars PROVE StreamInv'
  OBVIOUS
<1>1. ReadInv'
  BY NextReads DEF StreamInv
<1>2. CASE Peer
  BY <1>1, <1>2, PeerStream
<1>3. CASE Close \/ Fill \/ UNCHANGED vars
  BY <1>1, <1>3, QuietStream
<1>4. CASE EofBodyEnds \/ ReadNone
  BY <1>1, <1>4, ToldStream
<1>5. CASE ReadError \/ ReadEOF \/ RejectLine
  BY <1>1, <1>5, ErrorStream
<1>6. CASE ReadHead
  BY <1>1, <1>6, HeadStream
<1>7. CASE ReadSize
  BY <1>1, <1>7, SizeStream
<1>8. CASE ReadTrailers
  BY <1>1, <1>8, TrailersStream
<1>9. CASE ReadFooter
  BY <1>1, <1>9, FooterStream
<1>10. CASE ReadChunk
  BY <1>1, <1>10, ChunkStream
<1>11. CASE ReadBody
  BY <1>1, <1>11, BodyStream
<1>12. CASE Recycle
  BY <1>1, <1>12, RecycleStream
<1> QED
  BY <1>2, <1>3, <1>4, <1>5, <1>6, <1>7, <1>8, <1>9, <1>10, <1>11, <1>12
     DEF Next, Reader, Terminated

\* Between the reader and the peer is always a path through the grammar of messages.
THEOREM StreamInvariance == Spec => []StreamInv
  BY InitStream, NextStream, PTL DEF Spec

\* The first byte of the path of a reader of heads is the first of a head.
LEMMA HeadComesNext ==
  ASSUME StreamInv
  PROVE  NextHeadIsNext
<1> SUFFICES ASSUME rd = "head", ~junked PROVE Boundary
  BY DEF NextHeadIsNext
<1>1. ~Gone
  BY DEF Gone
<1>2. PICK g \in [0..Len(net) -> Places] : Path(g, net) /\ g[Len(net)] = Now /\ Aligned(g[0])
  BY <1>1, PathHas
<1>3. net \in Seq(Bytes) /\ Len(net) \in Nat
  BY DEF StreamInv, ReadInv, TypeOK
<1>4. g[0].at = "head" /\ g[0].col = 0
  BY <1>2 DEF Aligned
<1>5. CASE net = <<>>
  <2>1. Len(net) = 0
    BY <1>5
  <2>2. Now.at = "head" /\ Now.col = 0
    BY <1>2, <1>4, <2>1
  <2> QED
    BY <1>5, <2>2, NowMeans DEF Boundary
<1>6. CASE net # <<>>
  <2>1. 1 \in 1..Len(net) /\ 1 - 1 = 0
    BY <1>3, <1>6
  <2>2. Leads(g[0], net[1], g[1])
    BY <1>2, <2>1 DEF Path
  <2>3. net[1].k # "junk"
    BY <2>1 DEF StreamInv, SpoiltInv
  <2>4. PieceStep(g[0], net[1], g[1]) \/ HeadStep(g[0], net[1], g[1])
    BY <1>4, <2>2, <2>3 DEF Leads, SizeStep, DataStep, FooterStep, TrailerStep, JunkStep
  <2> QED
    BY <1>4, <1>6, <2>4 DEF Boundary, PieceStep, HeadStep, Piece
<1> QED
  BY <1>5, <1>6

\* A connection that is handed back for the next message stands at the first byte of a
\* head, wherever the transport cut the stream and whatever is left in the buffer.
THEOREM HeadsAreNext == Spec => []NextHeadIsNext
<1>1. StreamInv => NextHeadIsNext
  BY HeadComesNext
<1> QED
  BY <1>1, StreamInvariance, PTL

\* read() answers the bytes of the body, in order and without any of the framing.
THEOREM BodiesInOrder == Spec => []BodyInOrder
<1>1. StreamInv => BodyInOrder
  BY DEF StreamInv
<1> QED
  BY <1>1, StreamInvariance, PTL

\* A byte that breaks the framing ends the reader, and nothing else is refused.
THEOREM JunkEndsTheReader == Spec => []JunkIsFatal
<1>1. StreamInv => JunkIsFatal
  BY DEF StreamInv
<1> QED
  BY <1>1, StreamInvariance, PTL

\* The two errors of an end of file tell a stream between messages from a cut one.
THEOREM EofIsTold == Spec => []EofMeansWhatItSays
<1>1. StreamInv => EofMeansWhatItSays
  BY DEF StreamInv
<1> QED
  BY <1>1, StreamInvariance, PTL

-----------------------------------------------------------------------------
(* The messages that the caller is given *)

\* Nothing comes after the end of a body that the close ends, and a chunked reader has
\* a chunked message.
EndInv ==
  /\ told /\ rd = "eof" => closed /\ Len(net) = 0
  /\ rd \in {"size", "data", "cr", "lf", "trailer", "done"} => head.f = "te"

\* What the caller sees of the reader.
Seen == IF rd = "head" THEN "head" ELSE IF rd \in {"failed", "dropped"} THEN "gone"
        ELSE IF told THEN "end" ELSE "body"

\* A new connection has told no end.
LEMMA InitEnds == Init => EndInv
  BY DEF Init, EndInv

\* The end of file is the end of what the peer sends, and every turn of a chunked reader
\* is one of the same message.
LEMMA NextEnds == StreamInv /\ EndInv /\ [Next]_vars => EndInv'
<1> SUFFICES ASSUME StreamInv, EndInv, [Next]_vars PROVE EndInv'
  OBVIOUS
<1>0. Len(net) \in Nat /\ filled \in 0..Len(net) /\ net \in Seq(Bytes)
  BY DEF StreamInv, ReadInv, TypeOK
<1>1. CASE Peer
  <2>1. ~closed /\ told' = told /\ rd' = rd /\ head' = head
    BY <1>1, PeerLeads DEF StreamInv, reader
  <2> QED
    BY <2>1 DEF EndInv
<1>2. CASE Close \/ Fill \/ UNCHANGED vars
  <2>1. net' = net /\ told' = told /\ rd' = rd /\ head' = head /\ (closed => closed')
    BY <1>2 DEF Close, Fill, vars, reader
  <2> QED
    BY <2>1 DEF EndInv
<1>3. CASE EofBodyEnds
  <2>1. closed /\ filled = Len(net) /\ filled = 0
    BY <1>3 DEF EofBodyEnds, EndOfFile, Hungry, HungryForBody, Lines
  <2>2. closed' = closed /\ net' = net /\ rd' = rd /\ rd = "eof"
    BY <1>3 DEF EofBodyEnds
  <2> QED
    BY <2>1, <2>2 DEF EndInv
<1>4. CASE ReadNone
  BY <1>4 DEF ReadNone, EndInv
<1>5. CASE ReadError \/ ReadEOF \/ RejectLine
  <2>1. net' = net /\ told' = told /\ head' = head /\ closed' = closed
    BY <1>5 DEF ReadError, ReadEOF, RejectLine
  <2>2. rd' = rd \/ rd' \in {"failed", "dropped"}
    BY <1>5 DEF ReadError, ReadEOF, RejectLine, Fails
  <2> QED
    BY <2>1, <2>2 DEF EndInv
<1>6. CASE ReadHead
  <2>1. PICK n \in 1..filled :
          head' = net[n].m /\ rd' = IF net[n].m.f = "te" THEN "size" ELSE net[n].m.f
    BY <1>6 DEF ReadHead
  <2>3. net[n].m.f \in {"none", "cl", "te", "eof"}
    BY BufferedMessage DEF StreamInv, ReadInv
  <2>4. told' = FALSE
    BY <1>6 DEF ReadHead
  <2> QED
    BY <2>1, <2>3, <2>4 DEF EndInv
<1>7. CASE ReadSize \/ ReadTrailers \/ ReadFooter \/ ReadChunk
  <2>1. rd \in {"size", "trailer", "cr", "lf", "data"} /\ head' = head
    BY <1>7 DEF ReadSize, ReadTrailers, ReadFooter, ReadChunk
  <2>2. rd' # "eof"
    BY <1>7, <2>1 DEF ReadSize, ReadTrailers, ReadFooter, ReadChunk, Fails, AfterChunk
  <2> QED
    BY <2>1, <2>2 DEF EndInv
<1>8. CASE ReadBody
  <2>1. rd \in {"cl", "eof"} /\ rd' = rd /\ told' = told /\ Available > 0
    BY <1>8 DEF ReadBody
  <2>2. ~(told /\ rd = "eof")
    <3>1. rd = "eof" => filled > 0
      BY <2>1 DEF Available
    <3>2. told /\ rd = "eof" => Len(net) = 0
      BY DEF EndInv
    <3> QED
      BY <1>0, <3>1, <3>2
  <2> QED
    BY <2>1, <2>2 DEF EndInv
<1>9. CASE Recycle
  BY <1>9 DEF Recycle, EndInv
<1> QED
  BY <1>1, <1>2, <1>3, <1>4, <1>5, <1>6, <1>7, <1>8, <1>9 DEF Next, Reader, Terminated

\* No more is answered of a body than there is of it.
LEMMA NoMoreThanAll ==
  StreamInv => (~Gone /\ rd # "head" => Len(body) <= head.len /\ Len(body) \in Nat)
<1> SUFFICES ASSUME StreamInv, ~Gone, rd # "head" PROVE Len(body) <= head.len /\ Len(body) \in Nat
  OBVIOUS
<1>1. PICK g \in [0..Len(net) -> Places] : Path(g, net) /\ g[Len(net)] = Now /\ Aligned(g[0])
  BY PathHas
<1>2. 0 \in 0..Len(net) /\ body \in Seq(Bytes)
  BY DEF StreamInv, ReadInv, TypeOK
<1>3. Sound(g[0])
  BY <1>1, <1>2 DEF Path
<1> QED
  BY <1>1, <1>2, <1>3 DEF Aligned, Sound

\* A reader that may tell the end has answered everything, unless the close is the end.
LEMMA ToldIsAll ==
  StreamInv => (rd \in {"none", "done"} \/ (rd = "cl" /\ remaining = 0)
                  => Len(body) = head.len /\ (rd # "done" => head.f # "eof"))
<1> SUFFICES ASSUME StreamInv, rd \in {"none", "done"} \/ (rd = "cl" /\ remaining = 0)
             PROVE  Len(body) = head.len /\ (rd # "done" => head.f # "eof")
  OBVIOUS
<1>1. ~Gone
  BY DEF Gone
<1>2. PICK g \in [0..Len(net) -> Places] : Path(g, net) /\ g[Len(net)] = Now /\ Aligned(g[0])
  BY <1>1, PathHas
<1>3. 0 \in 0..Len(net) /\ Len(body) \in Nat
  BY DEF StreamInv, ReadInv, TypeOK
<1>4. Sound(g[0])
  BY <1>2, <1>3 DEF Path
<1>5. CASE rd = "none"
  <2>1. head.f = "none" /\ g[0].msg = head /\ g[0].sent = Len(body)
    BY <1>2, <1>5 DEF Aligned
  <2>2. head.len = 0 /\ Len(body) <= head.len
    BY <1>4, <2>1 DEF Sound
  <2> QED
    BY <1>3, <2>1, <2>2
<1>6. CASE rd = "done"
  BY <1>2, <1>6 DEF Aligned
<1>7. CASE rd = "cl" /\ remaining = 0
  <2>1. head.f = "cl" /\ remaining = head.len - Len(body)
    BY <1>2, <1>7 DEF Aligned
  <2>2. head.len \in Nat
    <3>1. head.len \in 0..MaxBody
      BY MessageLength DEF StreamInv, ReadInv, TypeOK
    <3> QED
      BY <3>1
  <2> QED
    BY <1>3, <1>7, <2>1, <2>2
<1> QED
  BY <1>5, <1>6, <1>7

\* The reader of a new connection is one that waits for a head.
LEMMA StreamInit == Init => Stream!Init
  BY DEF Init, Stream!Init, NoMessage

\* The caller sees nothing of what the peer sends and the buffer holds.
LEMMA SeenSame ==
  ASSUME Seen' = Seen, head' = head, body' = body
  PROVE  UNCHANGED Stream!vars
  BY DEF Stream!vars, Seen

\* Every step is a step of the stream of messages, or hidden in the reader.
LEMMA StreamNext ==
  StreamInv /\ StreamInv' /\ EndInv /\ EndInv' /\ [Next]_vars => [Stream!Next]_(Stream!vars)
<1> SUFFICES ASSUME StreamInv, StreamInv', EndInv, EndInv', [Next]_vars
             PROVE  Stream!Next \/ UNCHANGED Stream!vars
  OBVIOUS
<1>0. told \in BOOLEAN /\ told' \in BOOLEAN
  BY DEF StreamInv, ReadInv, TypeOK
<1>1. CASE Peer \/ Close \/ Fill \/ UNCHANGED vars
  <2>1. UNCHANGED reader
    <3>1. CASE Peer
      BY <3>1, PeerLeads DEF StreamInv
    <3> QED
      BY <1>1, <3>1 DEF Close, Fill, vars
  <2>2. rd' = rd /\ told' = told /\ head' = head /\ body' = body
    BY <2>1 DEF reader
  <2>3. Seen' = Seen
    BY <2>2 DEF Seen
  <2> QED
    BY <2>2, <2>3, SeenSame
<1>2. ASSUME Seen # "gone", Seen' = "gone", head' = head, body' = body PROVE Stream!Next
  <2>1. Stream!Disappear
    BY <1>2 DEF Stream!Disappear, Seen
  <2> QED
    BY <2>1 DEF Stream!Next
<1>3. CASE ReadError \/ ReadEOF \/ RejectLine
  <2>1. head' = head /\ body' = body /\ told' = told /\ (Hungry \/ rd \in Lines)
    BY <1>3 DEF ReadError, ReadEOF, RejectLine
  <2>2. Seen # "gone"
    BY <2>1, HungryIsNotTold DEF Seen
  <2>3. rd' = rd \/ rd' \in {"failed", "dropped"}
    BY <1>3 DEF ReadError, ReadEOF, RejectLine, Fails
  <2>4. Seen' = Seen \/ Seen' = "gone"
    BY <2>1, <2>3 DEF Seen
  <2> QED
    BY <1>2, <2>1, <2>2, <2>4, SeenSame
<1>4. ASSUME Seen = "body", Seen' = "end", head' = head, body' = body,
             head.f # "eof" => Len(body) = head.len
      PROVE  Stream!Next
  <2>1. Stream!GetEnd
    BY <1>4 DEF Stream!GetEnd, Seen
  <2> QED
    BY <2>1 DEF Stream!Next
<1>5. CASE EofBodyEnds
  <2>1. rd = "eof" /\ ~told /\ rd' = rd /\ told' /\ head' = head /\ body' = body
    BY <1>5 DEF EofBodyEnds, Hungry, HungryForBody, Lines
  <2>2. head.f = "eof"
    <3>1. ~Gone
      BY <2>1 DEF Gone
    <3>2. \E g \in [0..Len(net) -> Places] : Aligned(g[0])
      BY <3>1, PathHas
    <3> QED
      BY <2>1, <3>2 DEF Aligned
  <2>3. Seen = "body" /\ Seen' = "end"
    BY <2>1 DEF Seen
  <2> QED
    BY <1>4, <2>1, <2>2, <2>3
<1>6. CASE ReadNone
  <2>1. /\ rd = "none" \/ (rd = "cl" /\ remaining = 0)
        /\ ~told /\ rd' = rd /\ told' /\ head' = head /\ body' = body
    BY <1>6 DEF ReadNone
  <2>2. Len(body) = head.len
    BY <2>1, ToldIsAll
  <2>3. Seen = "body" /\ Seen' = "end"
    BY <2>1 DEF Seen
  <2> QED
    BY <1>4, <2>1, <2>2, <2>3
<1>7. CASE ReadTrailers
  <2>1. rd = "trailer" /\ rd' = "done" /\ told' /\ head' = head /\ body' = body
    BY <1>7 DEF ReadTrailers
  <2>2. ~told
    BY <2>1, HungryIsNotTold DEF Lines
  <2>3. (rd \in {"none", "done"} \/ (rd = "cl" /\ remaining = 0)
           => Len(body) = head.len /\ (rd # "done" => head.f # "eof"))'
    BY ToldIsAll, PTL
  <2>4. Len(body) = head.len
    BY <2>1, <2>3
  <2>5. Seen = "body" /\ Seen' = "end"
    BY <2>1, <2>2 DEF Seen
  <2> QED
    BY <1>4, <2>1, <2>4, <2>5
<1>8. CASE ReadHead
  <2>1. rd = "head" /\ told' = FALSE /\ body' = <<>> /\ Len(body') = 0
    BY <1>8 DEF ReadHead
  <2>2. PICK n \in 1..filled :
          head' = net[n].m /\ rd' = IF net[n].m.f = "te" THEN "size" ELSE net[n].m.f
    BY <1>8 DEF ReadHead
  <2>4. net[n].m.f \in {"none", "cl", "te", "eof"} /\ net[n].m.len \in 0..MaxBody
    BY BufferedMessage DEF StreamInv, ReadInv
  <2>5. rd' \in {"size", "none", "cl", "eof"} /\ head'.len \in 0..MaxBody
    BY <2>2, <2>4
  <2>6. Stream!GetHead
    BY <2>1, <2>5 DEF Stream!GetHead
  <2> QED
    BY <2>6 DEF Stream!Next
<1>9. CASE ReadBody \/ ReadChunk
  <2>1. PICK n : Answers(n) /\ n \in 1..filled
    <3>1. PICK max \in 1..MaxRead : Answers(IF max < Available THEN max ELSE Available)
      BY <1>9 DEF ReadBody, ReadChunk
    <3>2. PICK n : n = IF max < Available THEN max ELSE Available
      OBVIOUS
    <3>3. Available > 0 /\ TypeOK
      BY <1>9 DEF ReadBody, ReadChunk, StreamInv, ReadInv
    <3>4. n \in 1..filled
      <4>1. Answers(n)
        BY <3>1, <3>2
      <4> QED
        BY <3>2, <3>3, <4>1, AnswerTakes
    <3> QED
      BY <3>1, <3>2, <3>4
  <2>2. Len(body') = Len(body) + n /\ Len(body) \in Nat /\ n \in Nat /\ n >= 1
    <3>1. body \in Seq(Bytes) /\ net \in Seq(Bytes) /\ n \in 1..Len(net) /\ n \in Nat /\ n >= 1
      BY <2>1 DEF StreamInv, ReadInv, TypeOK
    <3>2. SubSeq(net, 1, n) \in Seq(Bytes) /\ Len(SubSeq(net, 1, n)) = n
      BY <3>1, FirstBytes
    <3> QED
      BY <2>1, <3>1, <3>2 DEF Answers
  <2>3. /\ head' = head /\ told' = told
        /\ rd \in {"cl", "eof", "data"} /\ rd' \in {"cl", "eof", "data", "cr"}
    BY <1>9 DEF ReadBody, ReadChunk, AfterChunk
  <2>4. ~told
    <3>1. CASE rd = "data"
      BY <3>1 DEF StreamInv, ToldInv
    <3>2. CASE rd = "cl"
      <4>1. remaining > 0
        <5>1. Available > 0
          BY <1>9 DEF ReadBody, ReadChunk
        <5>2. Available <= remaining
          BY <3>2, <5>1, AvailableIsBuffered DEF StreamInv, ReadInv
        <5>3. Available \in 1..filled /\ remaining \in Nat /\ filled \in Nat
          BY <5>1, AvailableIsBuffered DEF StreamInv, ReadInv, TypeOK
        <5> QED
          BY <5>1, <5>2, <5>3
      <4> QED
        BY <3>2, <4>1 DEF StreamInv, ToldInv
    <3>3. CASE rd = "eof"
      <4>1. Len(net) > 0
        BY <2>1 DEF StreamInv, ReadInv, TypeOK
      <4> QED
        BY <3>3, <4>1 DEF EndInv
    <3> QED
      BY <2>3, <3>1, <3>2, <3>3
  <2>5. (~Gone /\ rd # "head" => Len(body) <= head.len /\ Len(body) \in Nat)'
    BY NoMoreThanAll, PTL
  <2>6. Len(body') <= head.len
    BY <2>3, <2>5 DEF Gone
  <2>7. head.len \in Nat
    <3>1. head.len \in 0..MaxBody
      BY MessageLength DEF StreamInv, ReadInv, TypeOK
    <3> QED
      BY <3>1
  <2>8. Len(body') \in (Len(body) + 1)..head.len
    BY <2>2, <2>6, <2>7
  <2>9. Stream!GetBytes
    BY <2>3, <2>4, <2>8 DEF Stream!GetBytes
  <2> QED
    BY <2>9 DEF Stream!Next
<1>10. CASE ReadFooter \/ ReadSize
  <2>1. rd \in {"cr", "lf", "size"} /\ head' = head /\ body' = body /\ told' = told
    BY <1>10 DEF ReadFooter, ReadSize
  <2>2. rd' \in {"lf", "size", "trailer", "data", "failed"}
    BY <1>10 DEF ReadFooter, ReadSize, Fails
  <2>3. Seen # "gone" /\ (Seen' = Seen \/ Seen' = "gone")
    BY <2>1, <2>2 DEF Seen
  <2> QED
    BY <1>2, <2>1, <2>3, SeenSame
<1>11. CASE Recycle
  <2>1. /\ told /\ told' = FALSE /\ rd' = IF Recyclable THEN "head" ELSE "dropped"
        /\ head' = head /\ body' = body
    BY <1>11 DEF Recycle
  <2>2. rd \in {"none", "eof", "done"} \/ (rd = "cl" /\ remaining = 0)
    BY <2>1 DEF StreamInv, ToldInv
  <2>3. Seen = "end"
    BY <2>1, <2>2 DEF Seen
  <2>4. CASE Recyclable
    <3>1. rd # "eof" /\ rd' = "head"
      BY <2>1, <2>4 DEF Recyclable
    <3>2. head.f # "eof"
      <4>1. rd = "done" => head.f = "te"
        BY DEF EndInv
      <4> QED
        BY <2>2, <3>1, <4>1, ToldIsAll
    <3>3. Stream!StartOver
      BY <2>1, <2>3, <3>1, <3>2 DEF Stream!StartOver, Seen
    <3> QED
      BY <3>3 DEF Stream!Next
  <2>5. CASE ~Recyclable
    <3>1. Seen' = "gone"
      BY <2>1, <2>5 DEF Seen
    <3> QED
      BY <1>2, <2>1, <2>3, <3>1
  <2> QED
    BY <2>4, <2>5
<1> QED
  BY <1>1, <1>3, <1>5, <1>6, <1>7, <1>8, <1>9, <1>10, <1>11 DEF Next, Reader, Terminated

\* However the stream is cut, the caller is given what MessageStream promises: heads, the
\* bytes of each body and its end, which comes after the last byte unless only the close
\* tells it.
THEOREM Refinement == Spec => ImplementsMessageStream
<1>1. Init => Stream!Init
  BY StreamInit
<1>2. Spec => []EndInv
  <2>1. Init => EndInv
    BY InitEnds
  <2>2. StreamInv /\ EndInv /\ [Next]_vars => EndInv'
    BY NextEnds
  <2> QED
    BY <2>1, <2>2, StreamInvariance, PTL DEF Spec
<1>3. StreamInv /\ StreamInv' /\ EndInv /\ EndInv' /\ [Next]_vars => [Stream!Next]_(Stream!vars)
  BY StreamNext
<1> QED
  BY <1>1, <1>2, <1>3, StreamInvariance, PTL DEF Spec, ImplementsMessageStream, Stream!Spec
=============================================================================
