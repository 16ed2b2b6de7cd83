-------------------------- MODULE RequestBodySafety -------------------------
(***************************************************************************)
(* Safety of the request body store, proved for every body, every way the  *)
(* server cuts it into brigades and buckets, every size of a chunk and     *)
(* every set of configurations.                                            *)
(*                                                                         *)
(* The units of a body are numbered, so what lies anywhere on the way from *)
(* the client to the handler is a run of numbers, Span(a, b).  The         *)
(* inductive invariant says where each run begins and ends: the brigade    *)
(* goes on where the store ends, the connection where the brigade ends,    *)
(* and the handler has everything up to the cursor of the store.           *)
(***************************************************************************)
EXTENDS RequestBody, SequenceTheorems, TLAPS

\* The units after the first a, up to the first b.
Span(a, b) == [i \in 1..(b - a) |-> a + i]

\* What the server has delivered.
Taken == Len(body) - Len(net)

Bucket(a, b) == IF a < b THEN <<Span(a, b)>> ELSE <<>>
Ending(e) == IF e THEN <<Eos>> ELSE <<>>
Buckets(a, b, c, e) == Bucket(a, b) \o Bucket(b, c) \o Ending(e)

Active == {"reading", "phase2", "handler"}

\* The units in the store, and the unit the filter forwards next.
Content(t) == IF t.storage = "memory" THEN t.chunks ELSE t.file
Cursor(t) == IF t.storage = "memory" THEN (t.position - 1) * ChunkSize(t) + t.offset
             ELSE t.readAt
ChunkEnd(t) == Minimum(t.position * ChunkSize(t), Len(t.chunks))

-----------------------------------------------------------------------------
(* The parts of the invariant.                                             *)

\* The brigade goes on where the store ends and the connection goes on where
\* the brigade ends.
BrigadeShape ==
    /\ body = Span(0, Len(body))
    /\ pc # "reading" => brigade = <<>>
    /\ pc = "start" => net = body
    /\ pc = "reading" =>
         /\ net = Span(Taken, Len(body))
         /\ \E cut \in tx.bodyLen..Taken, e \in BOOLEAN :
              /\ brigade = Buckets(tx.bodyLen, cut, Taken, e)
              /\ e \/ tx.seenEos => Taken = Len(body)
              /\ tx.seenEos => tx.bodyLen = Taken /\ ~e

\* The file exists only for a body on disk; a body in memory has chunks and
\* keeps to its limit.
StoreShape(t) ==
    /\ t.storage = "memory" =>
         /\ ~t.fd /\ t.file = Null /\ ~t.filename /\ t.chunks # Freed
         /\ t.spill /\ ~cfg.buffering => Len(InChunks(t)) <= cfg.memLimit
    /\ t.fd => t.file # Null

\* The store while the body is read.
ReadingShape(t) ==
    /\ ~t.joined /\ ~t.isRead /\ t.ifStatus = "none" /\ ~t.streamChanged
    /\ t.storage = "memory" => t.chunks # Null /\ t.length = Len(t.chunks)
    /\ t.storage = "disk" => t.filename
    /\ t.processor = "URLENCODED" => ~t.error
    /\ t.seenEos => t.finished
    /\ IF cfg.stream THEN t.stream = Null => t.bodyLen = 0 ELSE t.stream = Null

\* What is known of the store once the body is being read or has been read.
StoredShape(t) ==
    /\ ~t.streamChanged => t.stream \in {Null, Span(0, t.bodyLen)}
    /\ t.streamChanged => t.stream = <<0>>
    /\ ~t.crashed
    /\ ~lost => Content(t) = Span(0, t.bodyLen)
    /\ t.processor = "URLENCODED" => t.noFiles = t.bodyLen
    /\ Rejecting(cfg) =>
         /\ t.bodyLen <= cfg.bodyLimit
         /\ t.processor = "URLENCODED" /\ t.bodyLen > 0 =>
              t.bodyLen < cfg.noFilesLimit
         /\ t.finished => t.seenEos

\* The body has been read and is to be forwarded.
ForwardShape(t) ==
    /\ t.isRead
    /\ t.storage = "memory" => t.chunks # Null
    /\ t.seenEos => t.bodyLen = Len(body) /\ net = <<>>
    /\ t.finished
    /\ ~t.started => t.position = 1 /\ t.offset = 0 /\ t.readAt = 0
    /\ t.ifStatus = "wants" =>
         /\ ~lost => net = Span(t.bodyLen, Len(body)) /\ t.bodyLen <= Len(body)
         /\ ~lost /\ ~Rewritten => Len(got) = Cursor(t)
         /\ t.storage = "memory" =>
              /\ t.started => HasChunk(t, t.position)
              /\ HasChunk(t, t.position) => Cursor(t) <= ChunkEnd(t)
         /\ t.storage = "disk" /\ t.started => t.fd /\ t.readAt <= Len(t.file)

StageShape ==
    /\ pc = "start" => /\ tx.storage = "memory" /\ tx.chunks = Null /\ ~tx.joined
                       /\ tx.stream = Null /\ ~tx.streamChanged /\ ~tx.error
                       /\ ~tx.isRead /\ tx.ifStatus = "none" /\ ~tx.crashed
                       /\ tx.bodyLen = 0 /\ tx.noFiles = 0 /\ ~tx.started
                       /\ ~tx.finished /\ ~tx.seenEos /\ ~lost
                       /\ tx.position = 1 /\ tx.offset = 0 /\ tx.readAt = 0
    /\ pc = "reading" => /\ ReadingShape(tx) /\ StoredShape(tx)
                         /\ ~tx.started /\ tx.position = 1 /\ tx.offset = 0 /\ tx.readAt = 0
    /\ pc \in {"phase2", "handler"} =>
         \/ tx.ifStatus = "none" /\ ~tx.isRead
         \/ tx.ifStatus # "none" /\ StoredShape(tx) /\ ForwardShape(tx)
    /\ pc \notin {"done", "crashed"} /\ tx.storage = "disk" => tx.filename
    /\ pc = "phase2" /\ tx.ifStatus # "none" => ~tx.started /\ tx.ifStatus = "wants"

\* What the handler has is a beginning of the body; the rest is still in the
\* connection when the filter is not (or no longer) forwarding.
GotShape ==
    /\ pc \in {"start", "reading", "phase2"} => got = <<>> /\ ~gotEos
    /\ ~lost /\ ~Rewritten =>
         /\ got = Span(0, Len(got)) /\ Len(got) <= Len(body)
         /\ gotEos => Len(got) = Len(body)
         /\ pc \in {"phase2", "handler"} /\ tx.ifStatus # "wants" =>
              net = Span(Len(got), Len(body))
    /\ Rejecting(cfg) /\ lost =>
         /\ got = <<>> /\ pc # "reading"
         /\ pc \in {"phase2", "handler"} => net = <<>> /\ tx.ifStatus = "none"

Inv == TypeOK /\ BrigadeShape /\ StoreShape(tx) /\ StageShape /\ GotShape
       /\ TemporaryFileGone
-----------------------------------------------------------------------------
(* Runs of units.                                                          *)

\* A run is a sequence of units, as long as its ends say.
LEMMA SpanType ==
    ASSUME NEW a \in Nat, NEW b \in Nat, a <= b
    PROVE  /\ Span(a, b) \in Seq(Nat)
           /\ Len(Span(a, b)) = b - a
           /\ \A i \in 1..(b - a) : Span(a, b)[i] = a + i
BY DEF Span

\* A sequence of the right length with the right units is a run.
LEMMA IsSpan ==
    ASSUME NEW a \in Nat, NEW b \in Nat, a <= b, NEW s \in Seq(Nat),
           Len(s) = b - a, \A i \in 1..(b - a) : s[i] = a + i
    PROVE  s = Span(a, b)
<1>1. /\ Span(a, b) \in Seq(Nat)
      /\ Len(Span(a, b)) = b - a
      /\ \A i \in 1..(b - a) : Span(a, b)[i] = a + i
  BY SpanType
<1>2. QED
  BY <1>1, SeqEqual

LEMMA SpanEmpty ==
    ASSUME NEW a \in Nat
    PROVE  Span(a, a) = <<>>
BY SpanType

\* Adjacent runs make one run.
LEMMA SpanConcat ==
    ASSUME NEW a \in Nat, NEW b \in Nat, NEW c \in Nat, a <= b, b <= c
    PROVE  Span(a, b) \o Span(b, c) = Span(a, c)
<1> DEFINE s == Span(a, b)
           t == Span(b, c)
<1>1. s \in Seq(Nat) /\ Len(s) = b - a /\ \A i \in 1..(b - a) : s[i] = a + i
  BY SpanType
<1>2. t \in Seq(Nat) /\ Len(t) = c - b /\ \A i \in 1..(c - b) : t[i] = b + i
  BY SpanType
<1> HIDE DEF s, t
<1>3. s \o t \in Seq(Nat) /\ Len(s \o t) = c - a
  <2>1. s \o t \in Seq(Nat) /\ Len(s \o t) = Len(s) + Len(t)
    BY <1>1, <1>2, ConcatProperties
  <2>2. QED
    BY <2>1, <1>1, <1>2
<1>4. \A i \in 1..(c - a) : (s \o t)[i] = a + i
  <2> TAKE i \in 1..(c - a)
  <2>1. (s \o t)[i] = IF i <= Len(s) THEN s[i] ELSE t[i - Len(s)]
    BY <1>1, <1>2, ConcatProperties, SMTT(30)
  <2>2. QED
    BY <2>1, <1>1, <1>2
<1>5. a <= c
  OBVIOUS
<1>6. s \o t = Span(a, c)
  BY <1>3, <1>4, <1>5, IsSpan, Zenon
<1>7. QED
  BY <1>6 DEF s, t

\* A piece of a run is a run.
LEMMA SpanSub ==
    ASSUME NEW a \in Nat, NEW b \in Nat, a <= b, NEW i \in Nat, NEW j \in Nat,
           1 <= i, i <= j + 1, j <= b - a
    PROVE  SubSeq(Span(a, b), i, j) = Span(a + i - 1, a + j)
<1> DEFINE r == Span(a, b)
           s == SubSeq(r, i, j)
           p == a + i - 1
           q == a + j
<1>1. r \in Seq(Nat) /\ Len(r) = b - a /\ \A k \in 1..(b - a) : r[k] = a + k
  BY SpanType
<1> HIDE DEF r
<1>2. \A k \in i..j : r[k] \in Nat
  BY <1>1
<1>3. /\ s \in Seq(Nat)
      /\ Len(s) = IF i <= j THEN j - i + 1 ELSE 0
      /\ \A k \in 1..(j - i + 1) : s[k] = r[i + k - 1]
  BY <1>2, SubSeqProperties
<1> HIDE DEF s
<1>4. p \in Nat /\ q \in Nat /\ p <= q /\ Len(s) = q - p
  BY <1>3
<1>5. \A k \in 1..(q - p) : s[k] = p + k
  BY <1>1, <1>3
<1> HIDE DEF p, q
<1>6. s = Span(p, q)
  BY <1>3, <1>4, <1>5, IsSpan, Zenon
<1>7. QED
  BY <1>6 DEF r, s, p, q

LEMMA SpanMiddle ==
    ASSUME NEW a \in Nat, NEW b \in Nat, NEW c \in Nat, a <= b, b <= c
    PROVE  SubSeq(Span(0, c), a + 1, b) = Span(a, b)
<1> DEFINE r == Span(0, c)
           s == SubSeq(r, a + 1, b)
<1>1. r \in Seq(Nat) /\ Len(r) = c /\ \A k \in 1..c : r[k] = k
  BY DEF Span
<1> HIDE DEF r
<1>2. \A k \in (a + 1)..b : r[k] \in Nat
  BY <1>1
<1>3. /\ s \in Seq(Nat) /\ Len(s) = b - a
      /\ \A k \in 1..(b - a) : s[k] = r[a + k]
  BY <1>2, SubSeqProperties
<1> HIDE DEF s
<1>4. \A k \in 1..(b - a) : s[k] = a + k
  BY <1>1, <1>3
<1>5. s = Span(a, b)
  BY <1>3, <1>4, IsSpan, Zenon
<1>6. QED
  BY <1>5 DEF r, s

LEMMA SpanPrefix ==
    ASSUME NEW a \in Nat, NEW b \in Nat, a <= b, NEW m \in Nat, m <= b - a
    PROVE  SubSeq(Span(a, b), 1, m) = Span(a, a + m)
<1> DEFINE r == Span(a, b)
           s == SubSeq(r, 1, m)
           q == a + m
<1>1. r \in Seq(Nat) /\ Len(r) = b - a /\ \A k \in 1..(b - a) : r[k] = a + k
  BY SpanType
<1> HIDE DEF r
<1>2. \A k \in 1..m : r[k] \in Nat
  BY <1>1
<1>3. s \in Seq(Nat) /\ Len(s) = m /\ \A k \in 1..m : s[k] = r[k]
  BY <1>2, SubSeqProperties
<1> HIDE DEF s
<1>4. q \in Nat /\ a <= q /\ Len(s) = q - a
  BY <1>3
<1>5. \A k \in 1..(q - a) : s[k] = a + k
  BY <1>1, <1>3, SMTT(30)
<1> HIDE DEF q
<1>6. s = Span(a, q)
  BY <1>3, <1>4, <1>5, IsSpan, Zenon
<1>7. QED
  BY <1>6 DEF r, s, q

LEMMA SpanFirst ==
    ASSUME NEW a \in Nat, NEW b \in Nat, a <= b, NEW n \in Nat
    PROVE  First(n, Span(a, b)) = Span(a, Minimum(a + n, b))
<1>1. Len(Span(a, b)) = b - a
  BY SpanType
<1> DEFINE m == IF n < b - a THEN n ELSE b - a
<1>2. m \in Nat /\ m <= b - a
  OBVIOUS
<1>3. a + m = Minimum(a + n, b)
  BY DEF Minimum
<1>4. First(n, Span(a, b)) = SubSeq(Span(a, b), 1, m)
  BY <1>1 DEF First
<1> HIDE DEF m
<1>5. SubSeq(Span(a, b), 1, m) = Span(a, a + m)
  BY <1>2, SpanPrefix, Zenon
<1>6. QED
  BY <1>3, <1>4, <1>5, Zenon

LEMMA SpanRest ==
    ASSUME NEW a \in Nat, NEW b \in Nat, a <= b, NEW n \in 0..(b - a)
    PROVE  Rest(n, Span(a, b)) = Span(a + n, b)
<1>1. Len(Span(a, b)) = b - a
  BY SpanType
<1>2. /\ n + 1 \in Nat /\ b - a \in Nat
      /\ 1 <= n + 1 /\ n + 1 <= (b - a) + 1 /\ b - a <= b - a
  OBVIOUS
<1>3. SubSeq(Span(a, b), n + 1, b - a) = Span(a + (n + 1) - 1, a + (b - a))
  BY <1>2, SpanSub, ZenonT(60)
<1>4. a + (n + 1) - 1 = a + n /\ a + (b - a) = b
  OBVIOUS
<1>5. QED
  BY <1>1, <1>3, <1>4, Zenon DEF Rest

\* What is taken off the front of a sequence, and what is left, are sequences.
LEMMA FirstType ==
    ASSUME NEW S, NEW s \in Seq(S), NEW n \in Nat
    PROVE  First(n, s) \in Seq(S) /\ Len(First(n, s)) = Minimum(n, Len(s))
<1> DEFINE m == IF n < Len(s) THEN n ELSE Len(s)
<1>1. m \in Nat /\ m <= Len(s)
  BY LenProperties
<1>2. \A i \in 1..m : s[i] \in S
  BY <1>1, ElementOfSeq
<1>3. SubSeq(s, 1, m) \in Seq(S) /\ Len(SubSeq(s, 1, m)) = m
  BY <1>1, <1>2, SubSeqProperties
<1>4. QED
  BY <1>3 DEF First, Minimum

LEMMA RestType ==
    ASSUME NEW S, NEW s \in Seq(S), NEW n \in Nat
    PROVE  /\ Rest(n, s) \in Seq(S)
           /\ Len(Rest(n, s)) = IF n <= Len(s) THEN Len(s) - n ELSE 0
<1>1. \A i \in (n + 1)..Len(s) : s[i] \in S
  BY LenProperties, ElementOfSeq
<1>2. QED
  BY <1>1, SubSeqProperties, LenProperties DEF Rest

LEMMA DataFacts ==
    /\ <<>> \in Data
    /\ \A s, u \in Data : s \o u \in Data /\ Len(s \o u) = Len(s) + Len(u)
    /\ \A s \in Data : Len(s) \in Nat
    /\ \A s \in Data : s \o <<>> = s /\ <<>> \o s = s
    /\ {Null, Freed, Eos} \cap Data = {}
<1>1. \A s, u \in Data : s \o u \in Data /\ Len(s \o u) = Len(s) + Len(u)
  BY ConcatProperties DEF Data
<1>2. \A s \in Data : s \o <<>> = s /\ <<>> \o s = s
  BY ConcatEmptySeq DEF Data
<1>3. <<>> \in Data /\ \A s \in Data : Len(s) \in Nat
  BY EmptySeq, LenProperties DEF Data
<1>4. QED
  BY <1>1, <1>2, <1>3, SentinelsAssumption DEF Data

LEMMA ConcatPair ==
    ASSUME NEW S, NEW x \in S, NEW y \in S
    PROVE  <<x>> \o <<y>> = <<x, y>>
<1> DEFINE s == <<x>>
           t == <<y>>
           p == <<x, y>>
<1>1. s \in Seq(S) /\ Len(s) = 1 /\ s[1] = x
  OBVIOUS
<1>2. t \in Seq(S) /\ Len(t) = 1 /\ t[1] = y
  OBVIOUS
<1>3. p \in Seq(S) /\ Len(p) = 2 /\ p[1] = x /\ p[2] = y
  OBVIOUS
<1> HIDE DEF s, t, p
<1>4. s \o t \in Seq(S) /\ Len(s \o t) = 2 /\ (s \o t)[1] = x /\ (s \o t)[2] = y
  BY <1>1, <1>2, ConcatProperties
<1>5. \A i \in 1..Len(s \o t) : (s \o t)[i] = p[i]
  BY <1>3, <1>4
<1>6. s \o t = p
  BY <1>3, <1>4, <1>5, SeqEqual
<1>7. QED
  BY <1>6 DEF s, t, p

LEMMA ConcatTriple ==
    ASSUME NEW S, NEW x \in S, NEW y \in S, NEW z \in S
    PROVE  <<x, y>> \o <<z>> = <<x, y, z>>
<1> DEFINE s == <<x, y>>
           t == <<z>>
           p == <<x, y, z>>
<1>1. s \in Seq(S) /\ Len(s) = 2 /\ s[1] = x /\ s[2] = y
  OBVIOUS
<1>2. t \in Seq(S) /\ Len(t) = 1 /\ t[1] = z
  OBVIOUS
<1>3. p \in Seq(S) /\ Len(p) = 3 /\ p[1] = x /\ p[2] = y /\ p[3] = z
  OBVIOUS
<1> HIDE DEF s, t, p
<1>4. /\ s \o t \in Seq(S) /\ Len(s \o t) = 3 /\ (s \o t)[1] = x
      /\ (s \o t)[2] = y /\ (s \o t)[3] = z
  <2>1. /\ s \o t \in Seq(S) /\ Len(s \o t) = Len(s) + Len(t)
        /\ \A i \in 1..Len(s) + Len(t) :
             (s \o t)[i] = IF i <= Len(s) THEN s[i] ELSE t[i - Len(s)]
    BY <1>1, <1>2, ConcatProperties, Zenon
  <2>2. QED
    BY <1>1, <1>2, <2>1
<1>5. \A i \in 1..Len(s \o t) : (s \o t)[i] = p[i]
  BY <1>3, <1>4
<1>6. s \o t = p
  BY <1>3, <1>4, <1>5, SeqEqual
<1>7. QED
  BY <1>6 DEF s, t, p

\* A brigade of at most two buckets and an end, spelt out.
LEMMA BucketsAre ==
    ASSUME NEW a \in Nat, NEW b \in Nat, NEW c \in Nat, a <= b, b <= c,
           NEW e \in BOOLEAN
    PROVE  /\ a < b /\ b < c => Buckets(a, b, c, e) =
                IF e THEN <<Span(a, b), Span(b, c), Eos>> ELSE <<Span(a, b), Span(b, c)>>
           /\ a < b /\ b = c => Buckets(a, b, c, e) =
                IF e THEN <<Span(a, b), Eos>> ELSE <<Span(a, b)>>
           /\ a = b /\ b < c => Buckets(a, b, c, e) =
                IF e THEN <<Span(b, c), Eos>> ELSE <<Span(b, c)>>
           /\ a = b /\ b = c => Buckets(a, b, c, e) = IF e THEN <<Eos>> ELSE <<>>
<1> DEFINE x == Span(a, b)
           y == Span(b, c)
           z == Eos
           S == {x, y, z}
<1>0. x \in S /\ y \in S /\ z \in S
  OBVIOUS
<1> HIDE DEF x, y, z, S
<1>1. /\ <<>> \o <<>> = <<>> /\ <<>> \o <<z>> = <<z>>
      /\ <<>> \o <<y>> = <<y>> /\ <<y>> \o <<>> = <<y>>
      /\ <<x>> \o <<>> = <<x>> /\ <<x, y>> \o <<>> = <<x, y>>
  BY <1>0, ConcatEmptySeq
<1>2. <<x>> \o <<y>> = <<x, y>> /\ <<y>> \o <<z>> = <<y, z>> /\ <<x>> \o <<z>> = <<x, z>>
  BY <1>0, ConcatPair, Zenon
<1>3. <<x, y>> \o <<z>> = <<x, y, z>>
  BY <1>0, ConcatTriple, Zenon
<1>4. ~(b < b) /\ ~(a < a) /\ ~(c < c)
  OBVIOUS
<1>5. Buckets(a, b, c, e) = (IF a < b THEN <<x>> ELSE <<>>) \o (IF b < c THEN <<y>> ELSE <<>>)
                              \o (IF e THEN <<z>> ELSE <<>>)
  BY DEF Buckets, Bucket, Ending, x, y, z
<1>6. a < b /\ b < c => Buckets(a, b, c, e) = IF e THEN <<x, y, z>> ELSE <<x, y>>
  BY <1>1, <1>2, <1>3, <1>5, Zenon
<1>7. a < b /\ b = c => Buckets(a, b, c, e) = IF e THEN <<x, z>> ELSE <<x>>
  BY <1>1, <1>2, <1>4, <1>5, Zenon
<1>8. a = b /\ b < c => Buckets(a, b, c, e) = IF e THEN <<y, z>> ELSE <<y>>
  BY <1>1, <1>2, <1>4, <1>5, Zenon
<1>9. a = b /\ b = c => Buckets(a, b, c, e) = IF e THEN <<z>> ELSE <<>>
  BY <1>1, <1>4, <1>5, Zenon
<1>10. QED
  BY <1>6, <1>7, <1>8, <1>9 DEF x, y, z

\* What a brigade is when it is empty, and its first bucket and the rest when
\* it is not.
BucketsShape(a, b, c, e) ==
    /\ Buckets(a, b, c, e) \in Seq(Data \cup {Eos})
    /\ Buckets(a, b, c, e) = <<>> => a = c /\ ~e
    /\ a = c /\ ~e => Buckets(a, b, c, e) = <<>>
    /\ a < b => /\ Head(Buckets(a, b, c, e)) = Span(a, b)
                /\ Tail(Buckets(a, b, c, e)) = Buckets(b, b, c, e)
    /\ a = b /\ b < c => /\ Head(Buckets(a, b, c, e)) = Span(b, c)
                         /\ Tail(Buckets(a, b, c, e)) = Buckets(c, c, c, e)
    /\ a = c /\ e => /\ Head(Buckets(a, b, c, e)) = Eos
                     /\ Tail(Buckets(a, b, c, e)) = <<>>

LEMMA BucketsFacts ==
    ASSUME NEW a \in Nat, NEW b \in Nat, NEW c \in Nat, a <= b, b <= c,
           NEW e \in BOOLEAN
    PROVE  BucketsShape(a, b, c, e)
<1> DEFINE S == Data \cup {Eos}
           X == Span(a, b)
           Y == Span(b, c)
<1>1. X \in S /\ Y \in S /\ Eos \in S
  BY SpanType DEF Data
<1> HIDE DEF S
<1>2. ASSUME NEW x \in S, NEW y \in S, NEW z \in S
      PROVE  /\ <<>> \in Seq(S) /\ <<x>> \in Seq(S) /\ <<x, y>> \in Seq(S)
             /\ <<x, y, z>> \in Seq(S)
             /\ <<x>> # <<>> /\ <<x, y>> # <<>> /\ <<x, y, z>> # <<>>
             /\ Head(<<x>>) = x /\ Head(<<x, y>>) = x /\ Head(<<x, y, z>>) = x
             /\ Tail(<<x>>) = <<>> /\ Tail(<<x, y>>) = <<y>>
             /\ Tail(<<x, y, z>>) = <<y, z>>
  OBVIOUS
<1>a. /\ <<>> \in Seq(S) /\ <<X>> \in Seq(S) /\ <<Y>> \in Seq(S)
      /\ <<X, Y>> \in Seq(S) /\ <<X, Eos>> \in Seq(S) /\ <<Y, Eos>> \in Seq(S)
      /\ <<X, Y, Eos>> \in Seq(S)
      /\ <<X>> # <<>> /\ <<Y>> # <<>> /\ <<X, Y>> # <<>>
      /\ <<X, Eos>> # <<>> /\ <<Y, Eos>> # <<>> /\ <<X, Y, Eos>> # <<>>
      /\ Head(<<X>>) = X /\ Head(<<Y>>) = Y /\ Head(<<X, Y>>) = X
      /\ Head(<<X, Eos>>) = X /\ Head(<<Y, Eos>>) = Y /\ Head(<<X, Y, Eos>>) = X
      /\ Tail(<<X>>) = <<>> /\ Tail(<<Y>>) = <<>> /\ Tail(<<X, Y>>) = <<Y>>
      /\ Tail(<<X, Eos>>) = <<Eos>> /\ Tail(<<Y, Eos>>) = <<Eos>>
      /\ Tail(<<X, Y, Eos>>) = <<Y, Eos>>
  <2> HIDE DEF X, Y
  <2>1. QED
    BY <1>1
<1>3. Buckets(c, c, c, e) = IF e THEN <<Eos>> ELSE <<>>
  BY BucketsAre
<1>4. CASE a < b /\ b < c
  <2>1. Buckets(a, b, c, e) = IF e THEN <<X, Y, Eos>> ELSE <<X, Y>>
    BY <1>4, BucketsAre
  <2>2. Buckets(b, b, c, e) = IF e THEN <<Y, Eos>> ELSE <<Y>>
    BY <1>4, BucketsAre
  <2>3. a # c /\ a # b
    BY <1>4
  <2> HIDE DEF X, Y
  <2>4. /\ Buckets(a, b, c, e) \in Seq(S) /\ Buckets(a, b, c, e) # <<>>
        /\ Head(Buckets(a, b, c, e)) = X /\ Tail(Buckets(a, b, c, e)) = Buckets(b, b, c, e)
    <3>1. CASE e
      BY <1>a, <2>1, <2>2, <3>1, Zenon
    <3>2. CASE ~e
      BY <1>a, <2>1, <2>2, <3>2, Zenon
    <3>3. QED
      BY <3>1, <3>2, Zenon
  <2>5. QED
    BY <2>3, <2>4, Zenon DEF S, X, BucketsShape
<1>5. CASE a < b /\ b = c
  <2>1. Buckets(a, b, c, e) = IF e THEN <<X, Eos>> ELSE <<X>>
    BY <1>5, BucketsAre
  <2>2. Buckets(b, b, c, e) = IF e THEN <<Eos>> ELSE <<>>
    BY <1>5, BucketsAre
  <2>3. a # c /\ a # b
    BY <1>5
  <2> HIDE DEF X, Y
  <2>4. /\ Buckets(a, b, c, e) \in Seq(S) /\ Buckets(a, b, c, e) # <<>>
        /\ Head(Buckets(a, b, c, e)) = X /\ Tail(Buckets(a, b, c, e)) = Buckets(b, b, c, e)
    <3>1. CASE e
      BY <1>a, <2>1, <2>2, <3>1, Zenon
    <3>2. CASE ~e
      BY <1>a, <2>1, <2>2, <3>2, Zenon
    <3>3. QED
      BY <3>1, <3>2, Zenon
  <2>5. QED
    BY <2>3, <2>4, Zenon DEF S, X, BucketsShape
<1>6. CASE a = b /\ b < c
  <2>1. Buckets(a, b, c, e) = IF e THEN <<Y, Eos>> ELSE <<Y>>
    BY <1>6, BucketsAre
  <2>2. a # c /\ ~(a < b)
    BY <1>6
  <2> HIDE DEF X, Y
  <2>3. /\ Buckets(a, b, c, e) \in Seq(S) /\ Buckets(a, b, c, e) # <<>>
        /\ Head(Buckets(a, b, c, e)) = Y /\ Tail(Buckets(a, b, c, e)) = Buckets(c, c, c, e)
    <3>1. CASE e
      BY <1>a, <1>3, <2>1, <3>1, Zenon
    <3>2. CASE ~e
      BY <1>a, <1>3, <2>1, <3>2, Zenon
    <3>3. QED
      BY <3>1, <3>2, Zenon
  <2>4. QED
    BY <2>2, <2>3, Zenon DEF S, Y, BucketsShape
<1>7. CASE a = b /\ b = c
  <2>1. Buckets(a, b, c, e) = IF e THEN <<Eos>> ELSE <<>>
    BY <1>3, <1>7
  <2>2. ~(a < b) /\ ~(b < c)
    BY <1>7
  <2>3. /\ Buckets(a, b, c, e) \in Seq(S)
        /\ e => /\ Buckets(a, b, c, e) # <<>>
                /\ Head(Buckets(a, b, c, e)) = Eos /\ Tail(Buckets(a, b, c, e)) = <<>>
        /\ ~e => Buckets(a, b, c, e) = <<>>
    BY <1>1, <1>2, <2>1, Zenon
  <2>4. QED
    BY <1>7, <2>2, <2>3, Zenon DEF S, BucketsShape
<1>8. QED
  BY <1>4, <1>5, <1>6, <1>7

LEMMA BucketsEmpty ==
    ASSUME NEW a \in Nat, NEW b \in Nat, NEW c \in Nat, a <= b, b <= c,
           NEW e \in BOOLEAN
    PROVE  Buckets(a, b, c, e) = <<>> => a = c /\ ~e
<1>1. BucketsShape(a, b, c, e)
  BY BucketsFacts
<1>2. QED
  BY <1>1 DEF BucketsShape

-----------------------------------------------------------------------------
(* The store.  Each lemma says what a handler of msc_reqbody.c makes of     *)
(* the transaction: the fields it leaves alone and what it promises.       *)

\* The fields that storing data leaves alone.
SameTransaction(t, u) ==
    /\ u.contentLength = t.contentLength /\ u.spill = t.spill
    /\ u.processor = t.processor /\ u.joined = t.joined /\ u.bodyLen = t.bodyLen
    /\ u.isRead = t.isRead /\ u.seenEos = t.seenEos /\ u.ifStatus = t.ifStatus
    /\ u.started = t.started /\ u.position = t.position /\ u.offset = t.offset
    /\ u.readAt = t.readAt /\ u.stream = t.stream
    /\ u.streamChanged = t.streamChanged /\ u.finished = t.finished
    /\ u.crashed = t.crashed

LEMMA StartInitFacts ==
    ASSUME NEW t \in Transactions, NEW r \in StartInit(t)
    PROVE  /\ r.tx \in Transactions /\ SameTransaction(t, r.tx)
           /\ r.tx.storage = t.storage /\ r.tx.length = t.length
           /\ r.tx.error = t.error /\ r.tx.noFiles = t.noFiles
           /\ r.rc \in {1, -1}
           /\ t.storage = "memory" =>
                /\ r.rc = 1 /\ r.tx.chunks = <<>>
                /\ r.tx.file = t.file /\ r.tx.fd = t.fd /\ r.tx.filename = t.filename
           /\ t.storage = "disk" =>
                /\ r.tx.chunks = t.chunks /\ r.tx.filename
                /\ r.rc = 1 => r.tx.fd /\ r.tx.file = <<>>
                /\ r.rc = -1 => r.tx.fd = t.fd /\ r.tx.file = t.file
<1>1. CASE t.storage = "memory" /\ r = Result([t EXCEPT !.chunks = <<>>], 1)
  BY <1>1, DataFacts, ZenonT(60) DEF Result, Transactions, SameTransaction
<1>2. CASE t.storage = "disk"
           /\ r = Result([t EXCEPT !.filename = TRUE, !.fd = TRUE, !.file = <<>>], 1)
  <2>1. r.tx = [t EXCEPT !.filename = TRUE, !.fd = TRUE, !.file = <<>>] /\ r.rc = 1
    BY <1>2 DEF Result
  <2>2. r.tx \in Transactions
    BY <2>1, DataFacts, ZenonT(60) DEF Transactions
  <2>3. /\ SameTransaction(t, r.tx)
        /\ r.tx.storage = t.storage /\ r.tx.length = t.length
        /\ r.tx.error = t.error /\ r.tx.noFiles = t.noFiles
        /\ r.tx.chunks = t.chunks /\ r.tx.filename
    BY <2>1 DEF Transactions, SameTransaction
  <2>4. r.tx.fd /\ r.tx.file = <<>>
    BY <2>1 DEF Transactions
  <2>5. QED
    BY <1>2, <2>1, <2>2, <2>3, <2>4
<1>3. CASE t.storage = "disk" /\ r = Result([t EXCEPT !.filename = TRUE], -1)
  <2>1. r.tx = [t EXCEPT !.filename = TRUE] /\ r.rc = -1
    BY <1>3 DEF Result
  <2>2. r.tx \in Transactions
    BY <2>1, ZenonT(60) DEF Transactions
  <2>3. /\ SameTransaction(t, r.tx)
        /\ r.tx.storage = t.storage /\ r.tx.length = t.length
        /\ r.tx.error = t.error /\ r.tx.noFiles = t.noFiles
        /\ r.tx.chunks = t.chunks /\ r.tx.filename
    BY <2>1 DEF Transactions, SameTransaction
  <2>4. r.tx.fd = t.fd /\ r.tx.file = t.file
    BY <2>1 DEF Transactions
  <2>5. QED
    BY <1>3, <2>1, <2>2, <2>3, <2>4
<1>4. t.storage \in {"memory", "disk"}
  BY DEF Transactions
<1>5. QED
  BY <1>1, <1>2, <1>3, <1>4 DEF StartInit

\* A write appends a beginning of the data, all of it if it succeeds.
LEMMA StoreDiskFacts ==
    ASSUME NEW t \in Transactions, NEW data \in Data, t.fd => t.file # Null,
           NEW r \in StoreDisk(t, data)
    PROVE  /\ r.tx \in Transactions /\ SameTransaction(t, r.tx)
           /\ r.tx.storage = t.storage /\ r.tx.length = t.length
           /\ r.tx.error = t.error /\ r.tx.noFiles = t.noFiles
           /\ r.tx.chunks = t.chunks
           /\ r.tx.fd = t.fd /\ r.tx.filename = t.filename
           /\ t.fd => r.tx.file \in Data
           /\ r.rc \in {1, -1}
           /\ r.rc = 1 => t.fd /\ r.tx.file = t.file \o data
<1>1. CASE t.fd /\ r = Result([t EXCEPT !.file = @ \o data], 1)
  <2>1. t.file \o data \in Data
    BY <1>1, DataFacts DEF Transactions
  <2>2. QED
    BY <1>1, <2>1, ZenonT(60) DEF Result, Transactions, SameTransaction
<1>2. ASSUME NEW n \in 0..(Len(data) - 1),
             r = Result([t EXCEPT !.file = IF t.fd THEN @ \o First(n, data) ELSE @], -1)
      PROVE  /\ r.tx = [t EXCEPT !.file = IF t.fd THEN @ \o First(n, data) ELSE @]
             /\ r.rc = -1
             /\ t.fd => t.file \o First(n, data) \in Data
  <2>1. First(n, data) \in Data
    BY FirstType, LenProperties DEF Data
  <2>2. t.fd => t.file \o First(n, data) \in Data
    BY <2>1, DataFacts DEF Transactions
  <2>3. QED
    BY <1>2, <2>2 DEF Result
<1>3. CASE \E n \in 0..(Len(data) - 1) :
              r = Result([t EXCEPT !.file = IF t.fd THEN @ \o First(n, data) ELSE @], -1)
  <2>1. PICK n \in 0..(Len(data) - 1) :
              r = Result([t EXCEPT !.file = IF t.fd THEN @ \o First(n, data) ELSE @], -1)
    BY <1>3
  <2> DEFINE new == IF t.fd THEN t.file \o First(n, data) ELSE t.file
  <2>2. r.tx = [t EXCEPT !.file = new] /\ r.rc = -1
    BY <1>2, <2>1
  <2>3. new \in Data \cup {Null} /\ (t.fd => new \in Data)
    BY <1>2, <2>1 DEF Transactions
  <2> HIDE DEF new
  <2>4. QED
    BY <2>2, <2>3, SMTT(30) DEF Transactions, SameTransaction
<1>4. QED
  BY <1>1, <1>3 DEF StoreDisk

LEMMA ChunksUpdate ==
    ASSUME NEW t \in Transactions, NEW new \in Data \cup {Null, Freed}
    PROVE  [t EXCEPT !.chunks = new] \in Transactions
BY DEF Transactions

\* The chunks go to the file, all of them if the switch succeeds.
LEMMA SpillChunksFacts ==
    ASSUME NEW t \in Transactions, t.chunks \in Data, t.fd, t.file = <<>>,
           NEW r \in SpillChunks(t)
    PROVE  /\ r.tx \in Transactions /\ SameTransaction(t, r.tx)
           /\ r.tx.storage = t.storage
           /\ r.tx.error = t.error /\ r.tx.noFiles = t.noFiles
           /\ r.tx.fd /\ r.tx.filename = t.filename
           /\ r.tx.file \in Data
           /\ r.rc \in {1, -1}
           /\ r.rc = 1 => r.tx.file = t.chunks
<1>1. InChunks(t) = t.chunks
  BY DataFacts DEF InChunks
<1>2. PICK d \in StoreDisk(t, t.chunks) :
         r = IF d.rc > 0 THEN Result([d.tx EXCEPT !.chunks = Null], 1)
             ELSE Result([d.tx EXCEPT !.chunks =
                            IF Len(d.tx.file) >= ChunkCapacity THEN Freed ELSE @], -1)
  BY <1>1 DEF SpillChunks
<1>3. /\ d.tx \in Transactions /\ SameTransaction(t, d.tx)
      /\ d.tx.storage = t.storage
      /\ d.tx.error = t.error /\ d.tx.noFiles = t.noFiles
      /\ d.tx.fd = t.fd /\ d.tx.filename = t.filename
      /\ d.tx.file \in Data
      /\ d.rc \in {1, -1}
      /\ d.rc = 1 => d.tx.file = t.file \o t.chunks
  <2>1. t.fd => t.file # Null
    BY DataFacts
  <2>2. QED
    BY <2>1, StoreDiskFacts, ZenonT(60)
<1>4. PICK new \in Data \cup {Null, Freed} : r.tx = [d.tx EXCEPT !.chunks = new]
  BY <1>2, <1>3 DEF Result, Transactions
<1>5. r.rc = d.rc
  BY <1>2, <1>3 DEF Result
<1>6. r.tx \in Transactions
  BY <1>3, <1>4, ChunksUpdate
<1>7. /\ SameTransaction(d.tx, r.tx)
      /\ r.tx.storage = d.tx.storage
      /\ r.tx.error = d.tx.error /\ r.tx.noFiles = d.tx.noFiles
      /\ r.tx.fd = d.tx.fd /\ r.tx.filename = d.tx.filename
      /\ r.tx.file = d.tx.file
  BY <1>3, <1>4, ZenonT(60) DEF Transactions, SameTransaction
<1>8. QED
  BY <1>3, <1>5, <1>6, <1>7, DataFacts DEF SameTransaction

\* What a store of data in memory or on disk promises: the data is appended,
\* or the call fails.
Appends(t, data, u, rc) ==
    /\ u \in Transactions /\ SameTransaction(t, u)
    /\ u.error = t.error /\ u.noFiles = t.noFiles
    /\ rc \in {1, -1}
    /\ StoreShape(u)
    /\ u.storage = "memory" => u.chunks \in Data /\ u.length = Len(u.chunks)
    /\ u.storage = "disk" => u.filename
    /\ rc = 1 => Content(u) = Content(t) \o data

LEMMA StoreDiskAppends ==
    ASSUME NEW t \in Transactions, NEW data \in Data, t.storage = "disk",
           t.fd => t.file # Null, t.filename, NEW r \in StoreDisk(t, data)
    PROVE  Appends(t, data, r.tx, r.rc)
<1>1. /\ r.tx \in Transactions /\ SameTransaction(t, r.tx)
      /\ r.tx.storage = t.storage
      /\ r.tx.error = t.error /\ r.tx.noFiles = t.noFiles
      /\ r.tx.fd = t.fd /\ r.tx.filename = t.filename
      /\ t.fd => r.tx.file \in Data
      /\ r.rc \in {1, -1}
      /\ r.rc = 1 => t.fd /\ r.tx.file = t.file \o data
  <2>1. /\ r.tx \in Transactions /\ SameTransaction(t, r.tx)
        /\ r.tx.storage = t.storage /\ r.tx.length = t.length
        /\ r.tx.error = t.error /\ r.tx.noFiles = t.noFiles
        /\ r.tx.chunks = t.chunks
        /\ r.tx.fd = t.fd /\ r.tx.filename = t.filename
        /\ t.fd => r.tx.file \in Data
        /\ r.rc \in {1, -1}
        /\ r.rc = 1 => t.fd /\ r.tx.file = t.file \o data
    BY StoreDiskFacts, Zenon
  <2>2. QED
    BY <2>1
<1>2. StoreShape(r.tx)
  BY <1>1, DataFacts DEF StoreShape
<1>3. QED
  BY <1>1, <1>2 DEF Appends, Content

LEMMA StoreMemoryAppends ==
    ASSUME TypeOK, NEW t \in Transactions, NEW data \in Data, t.storage = "memory",
           t.chunks \in Data, t.length = Len(t.chunks), StoreShape(t),
           NEW r \in StoreMemory(t, cfg, data)
    PROVE  Appends(t, data, r.tx, r.rc)
<1>1. CASE ~(t.spill /\ ~cfg.buffering /\ t.length + Len(data) > cfg.memLimit)
  <2> DEFINE new == t.chunks \o data
  <2>1. r.tx = [t EXCEPT !.chunks = new, !.length = @ + Len(data)] /\ r.rc = 1
    <3>1. InChunks(t) = t.chunks
      BY DataFacts DEF InChunks
    <3>2. r = Result([t EXCEPT !.chunks = new, !.length = @ + Len(data)], 1)
      BY <1>1, <3>1 DEF StoreMemory
    <3>3. QED
      BY <3>2 DEF Result
  <2>2. new \in Data /\ Len(new) = t.length + Len(data) /\ t.length + Len(data) \in Nat
    BY DataFacts
  <2> HIDE DEF new
  <2>3. r.tx \in Transactions
    BY <2>1, <2>2, ZenonT(60) DEF Transactions
  <2>4. /\ SameTransaction(t, r.tx) /\ r.tx.error = t.error /\ r.tx.noFiles = t.noFiles
        /\ r.tx.storage = "memory" /\ r.tx.chunks = new /\ r.tx.length = Len(new)
        /\ r.tx.fd = t.fd /\ r.tx.file = t.file /\ r.tx.filename = t.filename
    BY <2>1, <2>2 DEF Transactions, SameTransaction
  <2>5. StoreShape(r.tx)
    <3>1. InChunks(r.tx) = new
      BY <2>2, <2>4, DataFacts DEF InChunks
    <3>2. t.spill /\ ~cfg.buffering => Len(new) <= cfg.memLimit
      BY <1>1, <2>2, ConfigsAssumption DEF TypeOK
    <3>3. QED
      BY <2>2, <2>4, <3>1, <3>2, DataFacts DEF StoreShape, SameTransaction
  <2>6. QED
    BY <2>1, <2>2, <2>3, <2>4, <2>5 DEF Appends, Content, new
<1>2. CASE t.spill /\ ~cfg.buffering /\ t.length + Len(data) > cfg.memLimit
  <2> DEFINE d == [t EXCEPT !.storage = "disk"]
  <2>1. PICK s \in StartInit(d) :
           r \in IF s.rc < 0 THEN {s}
                 ELSE UNION {IF q.rc < 0 THEN {q} ELSE StoreDisk(q.tx, data)
                                : q \in SpillChunks(s.tx)}
    BY <1>2 DEF StoreMemory
  <2>2. /\ d \in Transactions /\ SameTransaction(t, d) /\ d.storage = "disk"
        /\ d.error = t.error /\ d.noFiles = t.noFiles /\ d.chunks = t.chunks
        /\ d.fd = t.fd /\ d.file = t.file
    BY DEF Transactions, SameTransaction
  <2> HIDE DEF d
  <2>3. /\ s.tx \in Transactions /\ SameTransaction(d, s.tx)
        /\ s.tx.storage = "disk"
        /\ s.tx.error = d.error /\ s.tx.noFiles = d.noFiles
        /\ s.rc \in {1, -1}
        /\ s.tx.chunks = d.chunks /\ s.tx.filename
        /\ s.rc = 1 => s.tx.fd /\ s.tx.file = <<>>
        /\ s.rc = -1 => s.tx.fd = d.fd /\ s.tx.file = d.file
    BY <2>2, StartInitFacts
  <2>4. SameTransaction(t, s.tx) /\ s.tx.error = t.error /\ s.tx.noFiles = t.noFiles
    BY <2>2, <2>3 DEF SameTransaction
  <2>5. CASE s.rc = -1
    <3>1. r = s
      BY <2>1, <2>5
    <3>2. StoreShape(s.tx)
      BY <2>2, <2>3, <2>5 DEF StoreShape
    <3>3. QED
      BY <3>1, <3>2, <2>3, <2>4, <2>5 DEF Appends
  <2>6. CASE s.rc = 1
    <3>1. PICK q \in SpillChunks(s.tx) :
             r \in IF q.rc < 0 THEN {q} ELSE StoreDisk(q.tx, data)
      BY <2>1, <2>6
    <3>2. /\ q.tx \in Transactions /\ SameTransaction(s.tx, q.tx)
          /\ q.tx.storage = "disk"
          /\ q.tx.error = s.tx.error /\ q.tx.noFiles = s.tx.noFiles
          /\ q.tx.fd /\ q.tx.filename = s.tx.filename
          /\ q.tx.file \in Data
          /\ q.rc \in {1, -1}
          /\ q.rc = 1 => q.tx.file = t.chunks
      BY <2>2, <2>3, <2>6, SpillChunksFacts, ZenonT(60)
    <3>3. /\ SameTransaction(t, q.tx) /\ q.tx.filename
          /\ q.tx.error = t.error /\ q.tx.noFiles = t.noFiles
      BY <2>3, <2>4, <3>2 DEF SameTransaction
    <3>4. CASE q.rc = -1
      <4>1. r = q
        BY <3>1, <3>4
      <4>2. StoreShape(q.tx)
        BY <3>2, DataFacts DEF StoreShape
      <4>3. QED
        BY <3>2, <3>3, <3>4, <4>1, <4>2 DEF Appends
    <3>5. CASE q.rc = 1
      <4>1. r \in StoreDisk(q.tx, data)
        BY <3>1, <3>5
      <4>2. Appends(q.tx, data, r.tx, r.rc)
        BY <3>2, <3>3, <4>1, StoreDiskAppends, DataFacts
      <4>3. Content(q.tx) = Content(t)
        BY <3>2, <3>5 DEF Content
      <4>4. QED
        BY <3>3, <4>2, <4>3 DEF Appends, SameTransaction
    <3>6. QED
      BY <3>2, <3>4, <3>5
  <2>7. QED
    BY <2>3, <2>5, <2>6
<1>3. QED
  BY <1>1, <1>2

Processed(t, n, p) ==
    \E k \in Nat, e \in BOOLEAN :
       /\ p = [t EXCEPT !.noFiles = @ + k, !.error = e]
       /\ t.processor = "URLENCODED" /\ ~t.error => k = n /\ e = FALSE

\* The streaming processor changes its error flag and the count of data that
\* is not in files, and the URL-encoded processor counts everything.
LEMMA ProcessFacts ==
    ASSUME NEW t \in Transactions, NEW n \in Nat, NEW p \in Process(t, cfg, n)
    PROVE  Processed(t, n, p)
<1>1. PICK k \in NotInFiles(t, cfg, n) :
         p \in {[t EXCEPT !.noFiles = @ + k, !.error = e] : e \in ProcessorErrors(t)}
  BY DEF Process
<1>2. PICK e \in ProcessorErrors(t) : p = [t EXCEPT !.noFiles = @ + k, !.error = e]
  BY <1>1, Zenon
<1>3. k \in Nat
  BY DEF NotInFiles
<1>4. t.error \in BOOLEAN
  BY DEF Transactions
<1>5. e \in BOOLEAN
  BY <1>4, Zenon DEF ProcessorErrors
<1>6. t.processor = "URLENCODED" /\ ~t.error => k = n /\ e = FALSE
  BY DEF NotInFiles, ProcessorErrors, Idle
<1>7. QED
  BY <1>2, <1>3, <1>5, <1>6, Zenon DEF Processed

LEMMA ProcessUpdate ==
    ASSUME NEW t \in Transactions, NEW k \in Nat, NEW e \in BOOLEAN
    PROVE  [t EXCEPT !.noFiles = @ + k, !.error = e] \in Transactions
<1>1. t.noFiles + k \in Nat
  BY DEF Transactions
<1>2. QED
  BY <1>1 DEF Transactions

\* modsecurity_request_body_store: the data is stored, or the call fails; a
\* body that reaches the limit without files is refused in blocking mode.
LEMMA StoreFacts ==
    ASSUME TypeOK, NEW t \in Transactions, NEW data \in Data,
           ReadingShape(t), StoreShape(t), NEW r \in RequestBodyStore(t, cfg, data)
    PROVE  /\ r.tx \in Transactions /\ SameTransaction(t, r.tx)
           /\ ReadingShape(r.tx) /\ StoreShape(r.tx)
           /\ r.rc \in {1, -1, -5}
           /\ r.rc = 1 => Content(r.tx) = Content(t) \o data
           /\ t.processor = "URLENCODED" => r.tx.noFiles = t.noFiles + Len(data)
           /\ r.rc = 1 /\ cfg.enabled = "On" => r.tx.noFiles < cfg.noFilesLimit
<1>1. Len(data) \in Nat
  BY DataFacts
<1>2. PICK p \in Process(t, cfg, Len(data)) :
         r \in IF p.noFiles >= cfg.noFilesLimit /\ cfg.enabled = "On"
               THEN {Result(p, -5)}
               ELSE IF p.storage = "memory" THEN StoreMemory(p, cfg, data)
                                            ELSE StoreDisk(p, data)
  BY DEF RequestBodyStore
<1>3. PICK k \in Nat, e \in BOOLEAN :
         /\ p = [t EXCEPT !.noFiles = @ + k, !.error = e]
         /\ t.processor = "URLENCODED" /\ ~t.error => k = Len(data) /\ e = FALSE
  <2>1. Processed(t, Len(data), p)
    BY <1>1, ProcessFacts
  <2>2. QED
    BY <2>1, Zenon DEF Processed
<1>4. p \in Transactions
  BY <1>3, ProcessUpdate
<1>5. /\ SameTransaction(t, p) /\ p.noFiles = t.noFiles + k
      /\ p.storage = t.storage /\ p.chunks = t.chunks /\ p.length = t.length
      /\ p.file = t.file /\ p.fd = t.fd /\ p.filename = t.filename
  BY <1>3 DEF Transactions, SameTransaction
<1>6. p.error = e
  BY <1>3 DEF Transactions
<1>7. /\ t.processor = "URLENCODED" => p.noFiles = t.noFiles + Len(data)
      /\ t.processor = "URLENCODED" => ~p.error
  BY <1>3, <1>5, <1>6 DEF ReadingShape
<1>8. StoreShape(p)
  BY <1>5 DEF StoreShape, SameTransaction, InChunks
<1>9. ReadingShape(p)
  BY <1>5, <1>7 DEF ReadingShape, SameTransaction
<1>10. Content(p) = Content(t)
  BY <1>5 DEF Content
<1>11. CASE p.noFiles >= cfg.noFilesLimit /\ cfg.enabled = "On"
  <2>1. r = Result(p, -5)
    BY <1>2, <1>11
  <2>2. r.tx = p /\ r.rc = -5
    BY <2>1 DEF Result
  <2>3. QED
    BY <1>4, <1>5, <1>7, <1>8, <1>9, <2>2
<1>12. CASE ~(p.noFiles >= cfg.noFilesLimit /\ cfg.enabled = "On")
  <2>1. p.storage \in {"memory", "disk"} /\ p.noFiles \in Nat /\ cfg.noFilesLimit \in Nat
    BY <1>4, ConfigsAssumption DEF Transactions, TypeOK
  <2>2. cfg.enabled = "On" => p.noFiles < cfg.noFilesLimit
    BY <1>12, <2>1
  <2>3. Appends(p, data, r.tx, r.rc)
    <3>1. CASE p.storage = "memory"
      <4>1. r \in StoreMemory(p, cfg, data)
        BY <1>2, <1>12, <3>1
      <4>2. p.chunks \in Data /\ p.length = Len(p.chunks)
        BY <1>4, <1>8, <1>9, <3>1 DEF StoreShape, ReadingShape, Transactions
      <4>3. QED
        BY <1>4, <1>8, <3>1, <4>1, <4>2, StoreMemoryAppends
    <3>2. CASE p.storage = "disk"
      <4>1. r \in StoreDisk(p, data)
        BY <1>2, <1>12, <3>2
      <4>2. p.filename /\ (p.fd => p.file # Null)
        BY <1>8, <1>9, <3>2 DEF StoreShape, ReadingShape
      <4>3. QED
        BY <1>4, <3>2, <4>1, <4>2, StoreDiskAppends
    <3>3. QED
      BY <2>1, <3>1, <3>2
  <2>4. ReadingShape(r.tx)
    BY <1>9, <2>3, DataFacts DEF ReadingShape, Appends, SameTransaction
  <2>5. SameTransaction(t, r.tx)
    BY <1>5, <2>3 DEF Appends, SameTransaction
  <2>6. QED
    BY <1>7, <1>10, <2>2, <2>3, <2>4, <2>5 DEF Appends
<1>13. QED
  BY <1>11, <1>12

-----------------------------------------------------------------------------
(* Every step keeps the invariant.                                         *)

\* read_request_body returns: only the error flag changes, and an error in
\* blocking mode ends the transaction.
SameButError(t, u) ==
    /\ SameTransaction(t, u)
    /\ u.storage = t.storage /\ u.chunks = t.chunks /\ u.length = t.length
    /\ u.file = t.file /\ u.fd = t.fd /\ u.filename = t.filename
    /\ u.noFiles = t.noFiles

LEMMA ErrorUpdate ==
    ASSUME NEW t \in Transactions, NEW e \in BOOLEAN
    PROVE  /\ [t EXCEPT !.error = e] \in Transactions
           /\ SameButError(t, [t EXCEPT !.error = e])
<1>1. [t EXCEPT !.error = e] \in Transactions
  BY DEF Transactions
<1>2. SameButError(t, [t EXCEPT !.error = e])
  BY DEF Transactions, SameButError, SameTransaction
<1>3. QED
  BY <1>1, <1>2

LEMMA ReturnFacts ==
    ASSUME TypeOK, NEW t \in Transactions, NEW rc \in Int, ReturnFromRead(t, rc)
    PROVE  /\ tx' \in Transactions /\ SameButError(t, tx')
           /\ pc' \in {"phase2", "cleanup"} /\ brigade' = <<>>
           /\ status' \in {"none", "DECLINED", "400", "403", "408", "413", "500"}
           /\ rc >= 0 => pc' = "phase2"
           /\ rc = -1 => pc' = "cleanup"
           /\ rc = -5 /\ Rejecting(cfg) => pc' = "cleanup"
<1>1. (t.error \/ rc < 0) \in BOOLEAN
  BY DEF Transactions
<1>2. tx' = [t EXCEPT !.error = t.error \/ rc < 0]
  BY DEF ReturnFromRead
<1>3. tx' \in Transactions /\ SameButError(t, tx')
  BY <1>1, <1>2, ErrorUpdate, Zenon
<1>4. LateStatus(rc) \in {"400", "408", "413", "500", "phase2"}
  BY DEF LateStatus
<1>5. /\ rc = -1 => LateStatus(rc) = "500"
      /\ rc = -5 /\ Rejecting(cfg) => LateStatus(rc) = "413"
  BY DEF LateStatus
<1>6. QED
  BY <1>3, <1>4, <1>5 DEF ReturnFromRead, TypeOK

\* The store is what it was.
LEMMA SameStoreShape ==
    ASSUME NEW t, NEW u, SameButError(t, u), StoreShape(t)
    PROVE  StoreShape(u)
BY DEF SameButError, SameTransaction, StoreShape, InChunks

LEMMA NothingGot ==
    /\ <<>> = Span(0, 0) /\ Len(<<>>) = 0 /\ 0 \notin ToSet(<<>>)
BY SpanEmpty DEF ToSet

\* Before the handler runs it has nothing.
LEMMA GotBefore ==
    ASSUME TypeOK, BrigadeShape, GotShape, pc \in {"start", "reading", "phase2"},
           UNCHANGED <<cfg, got, gotEos, body>>,
           (~lost' /\ pc' \in {"phase2", "handler"} /\ tx'.ifStatus # "wants")
              => net' = Span(0, Len(body)),
           (Rejecting(cfg) /\ lost') =>
              /\ pc' # "reading"
              /\ pc' \in {"phase2", "handler"} => net' = <<>> /\ tx'.ifStatus = "none"
    PROVE  GotShape'
<1>1. got = <<>> /\ ~gotEos /\ got' = <<>> /\ gotEos' = gotEos
  BY DEF GotShape
<1>2. Len(body) \in Nat
  BY DataFacts DEF TypeOK
<1>3. Rejecting(cfg)' = Rejecting(cfg)
  BY DEF Rejecting
<1>4. QED
  BY <1>1, <1>2, <1>3, NothingGot DEF GotShape

LEMMA InitInv == Init => Inv
<1> SUFFICES ASSUME Init PROVE Inv
  OBVIOUS
<1>1. PICK n \in 0..MaxBody, type \in {"form", "multipart", "other"},
           ctl \in {"none"} \cup cfg.ctl :
         body = Units(n) /\ \E len \in {-1, n} : tx = TxInit(cfg, type, ctl, len)
  BY DEF Init
<1>2. n \in Nat /\ \E len \in Int : tx = TxInit(cfg, type, ctl, len)
  BY <1>1, BodyBounds
<1>a. PICK len \in Int : tx = TxInit(cfg, type, ctl, len)
  BY <1>2
<1>3. body = Span(0, n) /\ body \in Data /\ Len(body) = n
  <2>1. Units(n) = Span(0, n)
    BY <1>2 DEF Units, Span
  <2>2. QED
    BY <1>1, <1>2, <2>1, SpanType DEF Data
<1>4. cfg \in Configs /\ ctl \in Processors \cup {"none"}
      /\ cfg.buffering \in BOOLEAN /\ cfg.memLimit \in Nat
  BY ConfigsAssumption DEF Init
<1>5. tx \in Transactions
  <2>1. /\ (type # "form" /\ ~cfg.buffering) \in BOOLEAN
        /\ (IF ctl # "none" THEN ctl
            ELSE CASE type = "form" -> "URLENCODED"
                   [] type = "multipart" -> "MULTIPART"
                   [] OTHER -> "none") \in Processors \cup {"none"}
    BY <1>4 DEF Processors
  <2>2. QED
    BY <1>a, <2>1 DEF TxInit, Transactions
<1>6. /\ tx.storage = "memory" /\ tx.chunks = Null /\ ~tx.joined /\ tx.file = Null
      /\ tx.stream = Null /\ ~tx.streamChanged /\ ~tx.error
      /\ ~tx.isRead /\ tx.ifStatus = "none" /\ ~tx.crashed
      /\ tx.bodyLen = 0 /\ tx.noFiles = 0 /\ ~tx.started
      /\ ~tx.finished /\ ~tx.seenEos /\ ~tx.filename /\ ~tx.fd
      /\ tx.position = 1 /\ tx.offset = 0 /\ tx.readAt = 0
  BY <1>a DEF TxInit
<1>7. /\ net = body /\ brigade = <<>> /\ pc = "start" /\ status = "none"
      /\ got = <<>> /\ gotEos = FALSE /\ lost = FALSE
  BY DEF Init
<1>8. TypeOK
  BY <1>3, <1>4, <1>5, <1>7, DataFacts, EmptySeq DEF TypeOK
<1>9. BrigadeShape
  BY <1>3, <1>7 DEF BrigadeShape
<1>10. StoreShape(tx)
  <2>1. Len(InChunks(tx)) = 0
    BY <1>6, EmptySeq DEF InChunks
  <2>2. Null # Freed
    BY SentinelsAssumption
  <2>3. QED
    BY <1>4, <1>6, <2>1, <2>2 DEF StoreShape
<1>11. StageShape
  BY <1>6, <1>7 DEF StageShape
<1>12. GotShape
  BY <1>3, <1>7, <1>2, NothingGot DEF GotShape
<1>13. TemporaryFileGone
  BY <1>7 DEF TemporaryFileGone
<1>14. QED
  BY <1>8, <1>9, <1>10, <1>11, <1>12, <1>13 DEF Inv

\* The transaction goes to its cleanup: nothing is forwarded any more, and
\* the file is still known by its name.
LEMMA EndsEarly ==
    ASSUME Inv, pc' = "cleanup", brigade' = <<>>, net' \in Data,
           UNCHANGED <<cfg, got, gotEos, body>>,
           status' \in {"none", "DECLINED", "400", "403", "408", "413", "500"},
           tx' \in Transactions, tx'.streamChanged = tx.streamChanged,
           StoreShape(tx'), tx'.storage = "disk" => tx'.filename,
           lost' \in BOOLEAN, lost => lost', lost' => lost \/ got = <<>>
    PROVE  Inv'
<1>1. TypeOK'
  BY EmptySeq DEF Inv, TypeOK
<1>2. BrigadeShape'
  BY DEF Inv, BrigadeShape
<1>3. StoreShape(tx)'
  BY DEF StoreShape, InChunks
<1>4. StageShape'
  BY DEF StageShape
<1>5. GotShape'
  <2>1. Rejecting(cfg)' = Rejecting(cfg) /\ Rewritten' = Rewritten
    BY DEF Rejecting, Rewritten
  <2>2. QED
    BY <2>1 DEF Inv, GotShape
<1>6. TemporaryFileGone'
  BY DEF TemporaryFileGone
<1>7. QED
  BY <1>1, <1>2, <1>3, <1>4, <1>5, <1>6 DEF Inv

\* The body is not read, or reading has failed: nothing will be forwarded
\* from the store.
LEMMA ReturnsWithoutBody ==
    ASSUME Inv, pc \in {"start", "reading"}, pc' = "phase2", brigade' = <<>>,
           UNCHANGED <<cfg, got, gotEos, body>>,
           status' \in {"none", "DECLINED", "400", "403", "408", "413", "500"},
           tx' \in Transactions, StoreShape(tx'), tx'.storage = "disk" => tx'.filename,
           tx'.ifStatus = "none", ~tx'.isRead, lost' \in BOOLEAN, net' \in Data,
           ~lost' => net' = body, lost' => net' = <<>>
    PROVE  Inv'
<1>1. TypeOK'
  BY EmptySeq DEF Inv, TypeOK
<1>2. BrigadeShape'
  BY DEF Inv, BrigadeShape
<1>3. StoreShape(tx)'
  BY DEF StoreShape, InChunks
<1>4. StageShape'
  BY DEF StageShape
<1>5. GotShape'
  <2>1. body = Span(0, Len(body)) /\ TypeOK /\ BrigadeShape /\ GotShape
    BY DEF Inv, BrigadeShape
  <2>2. QED
    BY <2>1, GotBefore
<1>6. TemporaryFileGone'
  BY DEF TemporaryFileGone
<1>7. QED
  BY <1>1, <1>2, <1>3, <1>4, <1>5, <1>6 DEF Inv

LEMMA NoAccessStep ==
    ASSUME Inv, NoAccess
    PROVE  Inv'
<1>1. TypeOK /\ tx \in Transactions /\ StoreShape(tx) /\ pc = "start" /\ net \in Data
      /\ lost \in BOOLEAN
  BY DEF Inv, TypeOK, NoAccess
<1>2. ReturnFromRead(tx, 0)
  BY DEF NoAccess
<1>3. /\ tx' \in Transactions /\ SameButError(tx, tx')
      /\ pc' \in {"phase2", "cleanup"} /\ brigade' = <<>>
      /\ status' \in {"none", "DECLINED", "400", "403", "408", "413", "500"}
      /\ pc' = "phase2"
  BY <1>1, <1>2, ReturnFacts
<1>4. StoreShape(tx')
  BY <1>1, <1>3, SameStoreShape
<1>5. tx'.storage = "memory" /\ tx'.ifStatus = "none" /\ ~tx'.isRead
  BY <1>1, <1>3 DEF Inv, StageShape, SameButError, SameTransaction
<1>6. UNCHANGED <<cfg, net, got, gotEos, body, lost>> /\ net = body /\ ~lost
  BY <1>1 DEF NoAccess, Inv, BrigadeShape, StageShape
<1>7. QED
  BY <1>1, <1>3, <1>4, <1>5, <1>6, ReturnsWithoutBody

LEMMA RefuseLengthStep ==
    ASSUME Inv, RefuseLength
    PROVE  Inv'
<1>1. tx \in Transactions /\ StoreShape(tx) /\ net \in Data /\ lost \in BOOLEAN
  BY DEF Inv, TypeOK
<1>2. brigade = <<>> /\ tx.storage = "memory"
  BY DEF Inv, BrigadeShape, StageShape, RefuseLength
<1>3. /\ UNCHANGED <<cfg, tx, net, brigade, got, gotEos, body, lost>>
      /\ status' = "413" /\ pc' = "cleanup"
  BY DEF RefuseLength
<1>4. StoreShape(tx')
  BY <1>1, <1>3
<1>5. QED
  BY <1>1, <1>2, <1>3, <1>4, EndsEarly

LEMMA GetBrigadeFailsStep ==
    ASSUME Inv, GetBrigadeFails
    PROVE  Inv'
<1>1. TypeOK /\ tx \in Transactions /\ StoreShape(tx) /\ pc = "reading"
  BY DEF Inv, TypeOK, GetBrigadeFails
<1>2. PICK rc \in {-7, -6, -4, -3, -2, -1} : ReturnFromRead(tx, rc)
  BY DEF GetBrigadeFails
<1>3. /\ tx' \in Transactions /\ SameButError(tx, tx')
      /\ pc' \in {"phase2", "cleanup"} /\ brigade' = <<>>
      /\ status' \in {"none", "DECLINED", "400", "403", "408", "413", "500"}
  BY <1>1, <1>2, ReturnFacts
<1>4. StoreShape(tx')
  BY <1>1, <1>3, SameStoreShape
<1>5. /\ tx'.ifStatus = "none" /\ ~tx'.isRead /\ tx'.streamChanged = tx.streamChanged
      /\ tx'.storage = "disk" => tx'.filename
  BY <1>1, <1>3 DEF Inv, StageShape, ReadingShape, SameButError, SameTransaction
<1>6. UNCHANGED <<cfg, got, gotEos, body>> /\ net' = <<>> /\ lost' = TRUE /\ got = <<>>
  BY <1>1 DEF GetBrigadeFails, Inv, GotShape
<1>7. net' \in Data
  BY <1>6, DataFacts
<1>8. CASE pc' = "phase2"
  BY <1>1, <1>3, <1>4, <1>5, <1>6, <1>7, <1>8, ReturnsWithoutBody
<1>9. CASE pc' = "cleanup"
  BY <1>3, <1>4, <1>5, <1>6, <1>7, <1>9, EndsEarly
<1>10. QED
  BY <1>3, <1>8, <1>9

\* modsecurity_request_body_start: the store is empty and in memory.
LEMMA StartFacts ==
    ASSUME NEW t \in Transactions, t.storage = "memory", ~t.error,
           NEW r \in RequestBodyStart(t)
    PROVE  /\ r.tx \in Transactions /\ SameTransaction(t, r.tx)
           /\ r.rc = 1 /\ r.tx.storage = "memory" /\ r.tx.chunks = <<>>
           /\ r.tx.length = 0 /\ r.tx.noFiles = t.noFiles
           /\ r.tx.file = t.file /\ r.tx.fd = t.fd /\ r.tx.filename = t.filename
           /\ r.tx.processor = "URLENCODED" => ~r.tx.error
<1> DEFINE fresh == [t EXCEPT !.length = 0]
<1>1. /\ fresh \in Transactions /\ SameTransaction(t, fresh) /\ ~fresh.error
      /\ fresh.storage = "memory" /\ fresh.length = 0 /\ fresh.noFiles = t.noFiles
      /\ fresh.file = t.file /\ fresh.fd = t.fd /\ fresh.filename = t.filename
  BY DEF Transactions, SameTransaction
<1>2. PICK s \in {fresh} \cup (IF t.processor \in {"MULTIPART", "XML", "JSON"}
                             THEN {[fresh EXCEPT !.error = TRUE]} ELSE {}) :
         r \in StartInit(s)
  BY DEF RequestBodyStart
<1> HIDE DEF fresh
<1>3. /\ s \in Transactions /\ SameTransaction(t, s)
      /\ s.storage = "memory" /\ s.length = 0 /\ s.noFiles = t.noFiles
      /\ s.file = t.file /\ s.fd = t.fd /\ s.filename = t.filename
      /\ s.processor = "URLENCODED" => ~s.error
  <2>1. CASE s = fresh
    BY <1>1, <2>1
  <2>2. CASE s = [fresh EXCEPT !.error = TRUE] /\ t.processor # "URLENCODED"
    <3>1. s \in Transactions /\ SameButError(fresh, s)
      BY <1>1, <2>2, ErrorUpdate
    <3>2. QED
      BY <1>1, <2>2, <3>1 DEF SameButError, SameTransaction
  <2>3. QED
    BY <1>2, <2>1, <2>2
<1>4. /\ r.tx \in Transactions /\ SameTransaction(s, r.tx)
      /\ r.tx.storage = s.storage /\ r.tx.length = s.length
      /\ r.tx.error = s.error /\ r.tx.noFiles = s.noFiles
      /\ r.rc = 1 /\ r.tx.chunks = <<>>
      /\ r.tx.file = s.file /\ r.tx.fd = s.fd /\ r.tx.filename = s.filename
  BY <1>2, <1>3, StartInitFacts
<1>5. SameTransaction(t, r.tx)
  BY <1>3, <1>4 DEF SameTransaction
<1>6. QED
  BY <1>3, <1>4, <1>5 DEF SameTransaction

LEMMA StartStep ==
    ASSUME Inv, Start
    PROVE  Inv'
<1>1. /\ TypeOK /\ tx \in Transactions /\ StoreShape(tx) /\ pc = "start" /\ net \in Data
      /\ body \in Data /\ lost \in BOOLEAN
      /\ tx.storage = "memory" /\ ~tx.error
  BY DEF Inv, TypeOK, Start, StageShape
<1>2. PICK r \in RequestBodyStart(tx) :
         IF r.rc < 0
         THEN ReturnFromRead(r.tx, -1)
         ELSE /\ tx' = r.tx
              /\ pc' = "reading"
              /\ UNCHANGED <<brigade, status>>
  BY DEF Start
<1>3. /\ r.tx \in Transactions /\ SameTransaction(tx, r.tx)
      /\ r.rc = 1 /\ r.tx.storage = "memory" /\ r.tx.chunks = <<>>
      /\ r.tx.length = 0 /\ r.tx.noFiles = tx.noFiles
      /\ r.tx.file = tx.file /\ r.tx.fd = tx.fd /\ r.tx.filename = tx.filename
      /\ r.tx.processor = "URLENCODED" => ~r.tx.error
  BY <1>1, StartFacts
<1>4. tx' = r.tx /\ pc' = "reading" /\ UNCHANGED <<brigade, status>>
  BY <1>2, <1>3
<1>5. UNCHANGED <<cfg, net, got, gotEos, body, lost>>
  BY DEF Start
<1>6. /\ tx.chunks = Null /\ ~tx.joined /\ tx.stream = Null /\ ~tx.streamChanged
      /\ ~tx.isRead /\ tx.ifStatus = "none" /\ ~tx.crashed
      /\ tx.bodyLen = 0 /\ tx.noFiles = 0 /\ ~tx.started
      /\ ~tx.finished /\ ~tx.seenEos /\ ~lost
      /\ tx.position = 1 /\ tx.offset = 0 /\ tx.readAt = 0
  BY <1>1 DEF Inv, StageShape
<1>7. brigade = <<>> /\ net = body /\ body = Span(0, Len(body))
  BY <1>1 DEF Inv, BrigadeShape
<1>8. /\ cfg.bodyLimit \in Nat /\ cfg.noFilesLimit \in Nat /\ cfg.memLimit \in Nat
      /\ cfg.buffering \in BOOLEAN
  BY <1>1, ConfigsAssumption DEF TypeOK
<1>9. TypeOK'
  BY <1>1, <1>3, <1>4, <1>5 DEF TypeOK
<1>10. BrigadeShape'
  <2>1. Len(body) \in Nat /\ Taken' = 0 /\ tx'.bodyLen = 0 /\ ~tx'.seenEos
    BY <1>1, <1>3, <1>4, <1>5, <1>6, <1>7, DataFacts DEF Taken, SameTransaction
  <2>2. Buckets(0, 0, 0, FALSE) = <<>>
    <3>1. 0 \in Nat /\ FALSE \in BOOLEAN /\ 0 <= 0
      OBVIOUS
    <3>2. QED
      BY <3>1, BucketsFacts, ZenonT(60) DEF BucketsShape
  <2>3. brigade' = Buckets(0, 0, 0, FALSE)
    BY <1>4, <1>7, <2>2
  <2>4. 0 \in 0..0
    OBVIOUS
  <2>5. \E cut \in 0..0, e \in BOOLEAN :
           /\ brigade' = Buckets(0, cut, 0, e)
           /\ e \/ tx'.seenEos => 0 = Len(body)
           /\ tx'.seenEos => 0 = 0 /\ ~e
    BY <2>1, <2>3, <2>4, Zenon
  <2>6. net' = Span(0, Len(body)) /\ body' = body /\ pc' = "reading"
    BY <1>4, <1>5, <1>7
  <2> HIDE DEF Taken
  <2>7. QED
    BY <1>7, <2>1, <2>5, <2>6 DEF BrigadeShape
<1>11. StoreShape(tx)'
  <2>1. Len(<<>>) = 0 /\ <<>> # Freed /\ InChunks(tx') = <<>>
    BY <1>3, <1>4, DataFacts, EmptySeq DEF InChunks
  <2>2. QED
    BY <1>1, <1>3, <1>4, <1>5, <1>8, <2>1 DEF StoreShape, InChunks
<1>12. StageShape'
  <2>1. ReadingShape(tx)'
    <3>1. <<>> # Null /\ Len(<<>>) = 0
      BY DataFacts, EmptySeq
    <3>2. QED
      BY <1>3, <1>4, <1>6, <3>1 DEF ReadingShape, SameTransaction
  <2>2. StoredShape(tx)'
    <3>1. Content(tx)' = Span(0, 0)
      BY <1>3, <1>4, NothingGot DEF Content
    <3>2. QED
      BY <1>3, <1>4, <1>5, <1>6, <1>8, <3>1 DEF StoredShape, SameTransaction
  <2>3. QED
    BY <1>3, <1>4, <1>6, <2>1, <2>2 DEF StageShape, SameTransaction
<1>13. GotShape'
  BY <1>1, <1>4, <1>5, <1>6, GotBefore DEF Inv
<1>14. TemporaryFileGone'
  BY <1>4 DEF TemporaryFileGone
<1>15. QED
  BY <1>9, <1>10, <1>11, <1>12, <1>13, <1>14 DEF Inv

\* Reading goes on with the same store: what the stage says of it stays true.
LEMMA StillReading ==
    ASSUME StageShape, GotShape, pc = "reading",
           UNCHANGED <<cfg, tx, pc, got, gotEos, body, lost>>
    PROVE  StageShape' /\ GotShape'
<1>1. StageShape'
  <2>1. ReadingShape(tx)' /\ StoredShape(tx)'
    BY DEF StageShape, ReadingShape, StoredShape, Content, Rejecting
  <2>2. QED
    BY <2>1 DEF StageShape
<1>2. GotShape'
  BY DEF GotShape, Rejecting, Rewritten
<1>3. QED
  BY <1>1, <1>2

\* The brigade while the body is read, with the place where it is cut.
LEMMA ReadingFacts ==
    ASSUME Inv, pc = "reading"
    PROVE  /\ tx.bodyLen \in Nat /\ Taken \in Nat /\ Len(body) \in Nat
           /\ tx.bodyLen <= Taken /\ Taken <= Len(body)
           /\ net = Span(Taken, Len(body))
           /\ body = Span(0, Len(body)) /\ Len(net) = Len(body) - Taken
           /\ \E cut \in Nat, e \in BOOLEAN :
                /\ tx.bodyLen <= cut /\ cut <= Taken
                /\ brigade = Buckets(tx.bodyLen, cut, Taken, e)
                /\ e \/ tx.seenEos => Taken = Len(body)
                /\ tx.seenEos => tx.bodyLen = Taken /\ ~e
<1>1. tx.bodyLen \in Nat /\ Len(body) \in Nat /\ Len(net) \in Nat
  BY DataFacts DEF Inv, TypeOK, Transactions
<1>2. Taken \in Int /\ Len(net) = Len(body) - Taken /\ Taken <= Len(body)
  BY <1>1 DEF Taken
<1> HIDE DEF Taken
<1>3. PICK cut \in tx.bodyLen..Taken, e \in BOOLEAN :
         /\ brigade = Buckets(tx.bodyLen, cut, Taken, e)
         /\ e \/ tx.seenEos => Taken = Len(body)
         /\ tx.seenEos => tx.bodyLen = Taken /\ ~e
  BY DEF Inv, BrigadeShape
<1>4. cut \in Nat /\ tx.bodyLen <= cut /\ cut <= Taken /\ Taken \in Nat /\ tx.bodyLen <= Taken
  BY <1>1, <1>2, <1>3
<1>5. net = Span(Taken, Len(body)) /\ body = Span(0, Len(body))
  BY DEF Inv, BrigadeShape
<1>6. QED
  BY <1>1, <1>2, <1>3, <1>4, <1>5, Zenon

LEMMA GetBrigadeStep ==
    ASSUME Inv, GetBrigade
    PROVE  Inv'
<1> DEFINE T == tx.bodyLen
           L == Len(body)
<1>1. /\ TypeOK /\ BrigadeShape /\ StoreShape(tx) /\ StageShape /\ GotShape
      /\ TemporaryFileGone /\ pc = "reading" /\ brigade = <<>> /\ ~tx.finished
      /\ UNCHANGED <<cfg, tx, pc, status, got, gotEos, body, lost>>
  BY DEF Inv, GetBrigade
<1>2. /\ T \in Nat /\ Taken \in Nat /\ L \in Nat /\ T <= Taken /\ Taken <= L
      /\ net = Span(Taken, L) /\ body = Span(0, L) /\ Len(net) = L - Taken
      /\ \E cut \in Nat, e \in BOOLEAN :
           /\ T <= cut /\ cut <= Taken
           /\ brigade = Buckets(T, cut, Taken, e)
  BY <1>1, ReadingFacts, Zenon
<1>3. Taken = T
  <2> HIDE DEF Taken, T, L
  <2>1. PICK cut \in Nat, e \in BOOLEAN :
           T <= cut /\ cut <= Taken /\ brigade = Buckets(T, cut, Taken, e)
    BY <1>2, Zenon
  <2>2. Buckets(T, cut, Taken, e) = <<>> => T = Taken /\ ~e
    <3>1. T \in Nat /\ cut \in Nat /\ Taken \in Nat /\ e \in BOOLEAN /\ T <= cut /\ cut <= Taken
      BY <1>2, <2>1, Zenon
    <3>2. QED
      BY <3>1, BucketsEmpty, Zenon
  <2>3. QED
    BY <1>1, <2>1, <2>2, Zenon
<1>4. ~tx.seenEos
  BY <1>1 DEF StageShape, ReadingShape
<1>5. PICK n \in 0..Minimum(MaxBrigade, Len(net)), cut \in 0..MaxBrigade, eos \in BOOLEAN :
         /\ cut < n \/ cut = 0
         /\ eos => n = Len(net)
         /\ net' = Rest(n, net)
         /\ brigade' = (IF cut > 0 THEN <<First(cut, net)>> ELSE <<>>)
                       \o (IF n > cut THEN <<Rest(cut, First(n, net))>> ELSE <<>>)
                       \o (IF eos THEN <<Eos>> ELSE <<>>)
  BY DEF GetBrigade
<1> DEFINE C == T + cut
           N == T + n
<1> HIDE DEF Taken, T, L
<1>6. n \in Nat /\ cut \in Nat /\ n <= Len(net) /\ cut <= n
  BY <1>2, <1>5, BodyBounds DEF Minimum
<1>7. C \in Nat /\ N \in Nat /\ T <= C /\ C <= N /\ N <= L /\ T <= N /\ T <= L
  BY <1>2, <1>3, <1>6
<1>8. /\ Minimum(T + cut, L) = C /\ Minimum(T + n, L) = N
      /\ cut \in 0..(N - T) /\ n \in 0..(L - T)
      /\ (cut > 0 <=> T < C) /\ (n > cut <=> C < N)
  BY <1>2, <1>6, <1>7 DEF Minimum
<1>9. net = Span(T, L)
  BY <1>2, <1>3
<1>10. First(cut, net) = Span(T, C)
  <2>1. First(cut, Span(T, L)) = Span(T, Minimum(T + cut, L))
    BY <1>2, <1>6, <1>7, SpanFirst, Zenon
  <2>2. QED
    BY <1>8, <1>9, <2>1, Zenon
<1>11. First(n, net) = Span(T, N)
  <2>1. First(n, Span(T, L)) = Span(T, Minimum(T + n, L))
    BY <1>2, <1>6, <1>7, SpanFirst, Zenon
  <2>2. QED
    BY <1>8, <1>9, <2>1, Zenon
<1>12. Rest(cut, First(n, net)) = Span(C, N)
  <2>1. Rest(cut, Span(T, N)) = Span(T + cut, N)
    BY <1>2, <1>7, <1>8, SpanRest, Zenon
  <2>2. QED
    BY <1>11, <2>1, Zenon
<1>13. net' = Span(N, L)
  <2>1. Rest(n, Span(T, L)) = Span(T + n, L)
    BY <1>2, <1>7, <1>8, SpanRest, Zenon
  <2>2. QED
    BY <1>5, <1>9, <2>1, Zenon
<1> HIDE DEF C, N
<1>14. brigade' = Buckets(T, C, N, eos)
  BY <1>5, <1>8, <1>10, <1>12, Zenon DEF Buckets, Bucket, Ending
<1>15. net' \in Data /\ Len(net') = L - N
  BY <1>2, <1>7, <1>13, SpanType DEF Data
<1>16. Taken' = N
  BY <1>1, <1>2, <1>7, <1>15 DEF Taken, L
<1>17. brigade' \in Seq(Data \cup {Eos})
  BY <1>2, <1>7, <1>14, BucketsFacts, Zenon DEF BucketsShape
<1>18. TypeOK'
  BY <1>1, <1>15, <1>17 DEF TypeOK
<1>19. BrigadeShape'
  <2>1. C \in T..N /\ (eos => N = L)
    BY <1>2, <1>3, <1>5, <1>7, <1>6 DEF N
  <2>2. \E c \in T..N, e \in BOOLEAN :
           /\ brigade' = Buckets(T, c, N, e)
           /\ e \/ tx.seenEos => N = L
           /\ tx.seenEos => T = N /\ ~e
    BY <1>4, <1>5, <1>14, <2>1, Zenon
  <2>3. /\ tx'.bodyLen = T /\ tx'.seenEos = tx.seenEos /\ Len(body') = L
        /\ body' = Span(0, L) /\ pc' = "reading"
    BY <1>1, <1>2 DEF T, L
  <2>4. QED
    BY <1>13, <1>16, <2>2, <2>3 DEF BrigadeShape
<1>20. StoreShape(tx)'
  BY <1>1 DEF StoreShape, InChunks
<1>21. StageShape' /\ GotShape'
  BY <1>1, StillReading
<1>22. TemporaryFileGone'
  BY <1>1 DEF TemporaryFileGone
<1>23. QED
  BY <1>18, <1>19, <1>20, <1>21, <1>22 DEF Inv

\* The bucket that is read next ends the body, or holds the units up to m.
EndNext ==
    /\ Head(brigade) = Eos /\ Tail(brigade) = <<>>
    /\ tx.bodyLen = Taken /\ Taken = Len(body)

DataNext(m) ==
    /\ tx.bodyLen < m /\ m <= Taken /\ Head(brigade) = Span(tx.bodyLen, m)
    /\ \E cut \in m..Taken, e \in BOOLEAN :
         Tail(brigade) = Buckets(m, cut, Taken, e) /\ (e => Taken = Len(body))

LEMMA NextBucket ==
    ASSUME Inv, pc = "reading", brigade # <<>>
    PROVE  ~tx.seenEos /\ (EndNext \/ \E m \in Nat : DataNext(m))
<1> DEFINE a == tx.bodyLen
           c == Taken
           L == Len(body)
<1>1. a \in Nat /\ c \in Nat /\ L \in Nat /\ a <= c
  BY ReadingFacts, Zenon
<1>2. PICK b \in Nat, e \in BOOLEAN :
         /\ a <= b /\ b <= c
         /\ brigade = Buckets(a, b, c, e)
         /\ e \/ tx.seenEos => c = L
         /\ tx.seenEos => a = c /\ ~e
  BY ReadingFacts, Zenon
<1> HIDE DEF a, c, L
<1>3. a = c => a = b /\ b = c
  BY <1>1, <1>2
<1>4. ~(a = c /\ ~e)
  <2>1. a = b /\ b = c => Buckets(a, b, c, e) = IF e THEN <<Eos>> ELSE <<>>
    BY <1>1, <1>2, BucketsAre
  <2>2. QED
    BY <1>2, <1>3, <2>1, Zenon
<1>5. ~tx.seenEos
  BY <1>2, <1>4
<1>6. /\ a < b => /\ Head(Buckets(a, b, c, e)) = Span(a, b)
                  /\ Tail(Buckets(a, b, c, e)) = Buckets(b, b, c, e)
      /\ a = b /\ b < c => /\ Head(Buckets(a, b, c, e)) = Span(b, c)
                           /\ Tail(Buckets(a, b, c, e)) = Buckets(c, c, c, e)
      /\ a = c /\ e => /\ Head(Buckets(a, b, c, e)) = Eos
                       /\ Tail(Buckets(a, b, c, e)) = <<>>
  <2>1. BucketsShape(a, b, c, e)
    BY <1>1, <1>2, BucketsFacts, Zenon
  <2>2. QED
    BY <2>1, Zenon DEF BucketsShape
<1>7. CASE a < b
  <2>1. b \in b..c
    BY <1>1, <1>2
  <2>2. \E cut \in b..c, f \in BOOLEAN :
           Tail(brigade) = Buckets(b, cut, c, f) /\ (f => c = L)
    BY <1>2, <1>6, <1>7, <2>1, Zenon
  <2>3. Head(brigade) = Span(a, b)
    BY <1>2, <1>6, <1>7, Zenon
  <2>4. DataNext(b)
    BY <1>2, <1>7, <2>2, <2>3 DEF DataNext, a, c, L
  <2>5. QED
    BY <1>2, <1>5, <2>4
<1>8. CASE a = b /\ b < c
  <2>1. c \in c..c
    BY <1>1
  <2>2. \E cut \in c..c, f \in BOOLEAN :
           Tail(brigade) = Buckets(c, cut, c, f) /\ (f => c = L)
    BY <1>2, <1>6, <1>8, <2>1, Zenon
  <2>3. Head(brigade) = Span(a, c)
    BY <1>2, <1>6, <1>8, Zenon
  <2>4. a < c /\ c <= c
    BY <1>1, <1>8
  <2>5. DataNext(c)
    BY <2>2, <2>3, <2>4 DEF DataNext, a, c, L
  <2>6. QED
    BY <1>1, <1>5, <2>5
<1>9. CASE a = c /\ e
  <2>1. EndNext
    BY <1>2, <1>6, <1>9 DEF EndNext, a, c, L
  <2>2. QED
    BY <1>5, <2>1
<1>10. QED
  BY <1>1, <1>2, <1>3, <1>4, <1>7, <1>8, <1>9

\* What a copy for the stream operators leaves alone.
SameStore(t, u) ==
    /\ u.contentLength = t.contentLength /\ u.spill = t.spill
    /\ u.processor = t.processor /\ u.joined = t.joined
    /\ u.isRead = t.isRead /\ u.ifStatus = t.ifStatus /\ u.error = t.error
    /\ u.started = t.started /\ u.position = t.position /\ u.offset = t.offset
    /\ u.readAt = t.readAt /\ u.streamChanged = t.streamChanged
    /\ u.crashed = t.crashed /\ u.storage = t.storage /\ u.chunks = t.chunks
    /\ u.length = t.length /\ u.file = t.file /\ u.fd = t.fd
    /\ u.filename = t.filename /\ u.noFiles = t.noFiles

\* The copy for the stream operators keeps up with the units read.
CopyShape(m, u) ==
    /\ u \in {Null, Span(0, m)} /\ u \in Data \cup {Null}
    /\ IF cfg.stream THEN u # Null ELSE u = Null

LEMMA CopyFacts ==
    ASSUME TypeOK, NEW t \in Transactions, ReadingShape(t), StoredShape(t),
           NEW m \in Nat, t.bodyLen <= m, NEW u,
           u = ToStream(t, cfg, Span(t.bodyLen, m)).stream
    PROVE  CopyShape(m, u)
<1> DEFINE T == t.bodyLen
<1>1. T \in Nat /\ T <= m /\ 0 \in Nat /\ 0 <= T /\ 0 <= m
  BY DEF Transactions
<1>2. /\ u = IF ~cfg.stream THEN t.stream
             ELSE IF t.stream = Null THEN Span(T, m) ELSE t.stream \o Span(T, m)
  BY DEF ToStream, Transactions
<1>3. /\ t.stream \in {Null, Span(0, T)}
      /\ IF cfg.stream THEN t.stream = Null => T = 0 ELSE t.stream = Null
  BY DEF ReadingShape, StoredShape
<1> HIDE DEF T
<1>4. Span(0, T) \o Span(T, m) = Span(0, m)
  BY <1>1, SpanConcat, Zenon
<1>5. Span(0, m) \in Data
  BY <1>1, SpanType, Zenon DEF Data
<1>6. Null \notin Data
  BY DataFacts
<1>7. QED
  BY <1>2, <1>3, <1>4, <1>5, <1>6, Zenon DEF CopyShape

LEMMA ReadEosStep ==
    ASSUME Inv, ReadEos
    PROVE  Inv'
<1>1. /\ TypeOK /\ BrigadeShape /\ StoreShape(tx) /\ StageShape /\ GotShape
      /\ TemporaryFileGone /\ pc = "reading" /\ brigade # <<>>
      /\ Head(brigade) = Eos /\ brigade' = Tail(brigade)
      /\ tx' = [ToStream(tx, cfg, <<>>) EXCEPT !.finished = TRUE, !.seenEos = TRUE]
      /\ UNCHANGED <<cfg, net, pc, status, got, gotEos, body, lost>>
  BY DEF Inv, ReadEos
<1>2. tx \in Transactions /\ ReadingShape(tx) /\ StoredShape(tx) /\ tx.bodyLen \in Nat
  BY <1>1 DEF TypeOK, StageShape, Transactions
<1>3. EndNext
  <2>1. ASSUME NEW m \in Nat, DataNext(m)
        PROVE  FALSE
    <3>1. Span(tx.bodyLen, m) \in Data
      <4>1. tx.bodyLen <= m
        BY <1>2, <2>1 DEF DataNext
      <4>2. QED
        BY <1>2, <4>1, SpanType, Zenon DEF Data
    <3>2. QED
      BY <1>1, <2>1, <3>1, DataFacts DEF DataNext
  <2>2. QED
    BY <1>1, <2>1, NextBucket
<1> DEFINE new == ToStream(tx, cfg, Span(tx.bodyLen, tx.bodyLen)).stream
<1>4. CopyShape(tx.bodyLen, new)
  <2>1. tx.bodyLen <= tx.bodyLen
    BY <1>2
  <2> HIDE DEF new
  <2>2. new = ToStream(tx, cfg, Span(tx.bodyLen, tx.bodyLen)).stream
    BY DEF new
  <2>3. QED
    BY <1>1, <1>2, <2>1, <2>2, CopyFacts, Zenon
<1>5. tx' = [tx EXCEPT !.stream = new, !.finished = TRUE, !.seenEos = TRUE]
  <2>1. Span(tx.bodyLen, tx.bodyLen) = <<>>
    BY <1>2, SpanEmpty, Zenon
  <2>2. QED
    BY <1>1, <1>2, <2>1 DEF ToStream, Transactions
<1> HIDE DEF new
<1>6. tx' \in Transactions
  BY <1>2, <1>4, <1>5, ZenonT(60) DEF Transactions, CopyShape
<1>7. /\ SameStore(tx, tx') /\ tx'.bodyLen = tx.bodyLen /\ tx'.stream = new
      /\ tx'.finished /\ tx'.seenEos
  BY <1>2, <1>5 DEF Transactions, SameStore
<1>8. brigade' = <<>>
  BY <1>1, <1>3 DEF EndNext
<1>9. TypeOK'
  BY <1>1, <1>6, <1>8, EmptySeq DEF TypeOK
<1>10. BrigadeShape'
  <2> DEFINE T == tx.bodyLen
  <2>1. T = Taken /\ Taken = Len(body) /\ Taken' = Taken
    BY <1>1, <1>3 DEF EndNext, Taken
  <2>2. T \in Nat /\ FALSE \in BOOLEAN /\ T <= T /\ T \in T..T
    BY <1>2
  <2>3. Buckets(T, T, T, FALSE) = <<>>
    <3>1. BucketsShape(T, T, T, FALSE)
      BY <2>2, BucketsFacts, Zenon
    <3>2. QED
      BY <3>1, Zenon DEF BucketsShape
  <2>4. net = Span(Taken, Len(body)) /\ body = Span(0, Len(body))
    BY <1>1 DEF BrigadeShape
  <2>5. tx'.bodyLen = T
    BY <1>7
  <2> HIDE DEF T, Taken
  <2>6. \E cut \in T..T, e \in BOOLEAN :
           brigade' = Buckets(T, cut, T, e) /\ ~e
    BY <1>8, <2>2, <2>3, Zenon
  <2>7. QED
    BY <1>1, <2>1, <2>4, <2>5, <2>6 DEF BrigadeShape
<1>11. StoreShape(tx)'
  BY <1>1, <1>7 DEF StoreShape, InChunks, SameStore
<1>12. StageShape'
  <2>1. ReadingShape(tx)'
    BY <1>1, <1>2, <1>4, <1>7 DEF ReadingShape, SameStore, CopyShape
  <2>2. StoredShape(tx)'
    <3>1. Content(tx)' = Content(tx) /\ Rejecting(cfg)' = Rejecting(cfg)
      BY <1>1, <1>7 DEF Content, SameStore, Rejecting
    <3>2. ~tx.streamChanged
      BY <1>2 DEF ReadingShape
    <3>3. QED
      BY <1>1, <1>2, <1>4, <1>7, <3>1, <3>2 DEF StoredShape, SameStore, CopyShape
  <2>3. QED
    BY <1>1, <1>7, <2>1, <2>2 DEF StageShape, SameStore
<1>13. GotShape'
  <2>1. Rejecting(cfg) /\ lost => pc # "reading"
    BY <1>1 DEF GotShape
  <2>2. QED
    BY <1>1, <2>1, GotBefore
<1>14. TemporaryFileGone'
  BY <1>1 DEF TemporaryFileGone
<1>15. QED
  BY <1>9, <1>10, <1>11, <1>12, <1>13, <1>14 DEF Inv

\* The units of a bucket are seen: the count and the copy go on, the store
\* is as before.
Seen(t, m, data, u) ==
    /\ data \in Data /\ Len(data) = m - t.bodyLen
    /\ u \in Transactions /\ SameStore(t, u) /\ u.bodyLen = m
    /\ u.finished = t.finished /\ ~u.seenEos
    /\ CopyShape(m, u.stream) /\ ReadingShape(u) /\ StoreShape(u)

LEMMA SeenFacts ==
    ASSUME TypeOK, NEW t \in Transactions, ReadingShape(t), StoredShape(t), StoreShape(t),
           NEW m \in Nat, t.bodyLen < m, ~t.seenEos,
           NEW data, data = Span(t.bodyLen, m),
           NEW u, u = [ToStream(t, cfg, data) EXCEPT !.bodyLen = @ + Len(data)]
    PROVE  Seen(t, m, data, u)
<1> DEFINE new == ToStream(t, cfg, data).stream
<1>1. t.bodyLen \in Nat /\ t.bodyLen <= m
  BY DEF Transactions
<1>2. data \in Data /\ Len(data) = m - t.bodyLen
  BY <1>1, SpanType DEF Data
<1>3. CopyShape(m, new)
  <2> HIDE DEF new
  <2>1. new = ToStream(t, cfg, Span(t.bodyLen, m)).stream
    BY DEF new
  <2>2. QED
    BY <1>1, <2>1, CopyFacts, Zenon
<1>4. u = [t EXCEPT !.stream = new, !.bodyLen = m]
  <2>1. ToStream(t, cfg, data) = [t EXCEPT !.stream = new]
    BY DEF ToStream, Transactions
  <2> HIDE DEF new
  <2>2. t.bodyLen + Len(data) = m
    BY <1>1, <1>2
  <2>3. u = [[t EXCEPT !.stream = new] EXCEPT !.bodyLen = t.bodyLen + Len(data)]
    BY <2>1 DEF Transactions
  <2>4. QED
    BY <2>2, <2>3 DEF Transactions
<1> HIDE DEF new
<1>5. new \in Data \cup {Null}
  BY <1>3 DEF CopyShape
<1>6. u \in Transactions
  BY <1>4, <1>5, ZenonT(60) DEF Transactions
<1>7. /\ SameStore(t, u) /\ u.bodyLen = m /\ u.stream = new
      /\ u.finished = t.finished /\ ~u.seenEos
  BY <1>4, ZenonT(60) DEF Transactions, SameStore
<1>8. ReadingShape(u)
  BY <1>3, <1>7 DEF ReadingShape, SameStore, CopyShape
<1>9. StoreShape(u)
  BY <1>7 DEF StoreShape, InChunks, SameStore
<1>10. QED
  BY <1>2, <1>3, <1>6, <1>7, <1>8, <1>9 DEF Seen

LEMMA FinishedUpdate ==
    ASSUME NEW t \in Transactions, NEW f \in BOOLEAN, NEW u, u = [t EXCEPT !.finished = f]
    PROVE  /\ u \in Transactions /\ SameStore(t, u) /\ u.bodyLen = t.bodyLen
           /\ u.stream = t.stream /\ u.seenEos = t.seenEos /\ u.finished = f
<1>1. u \in Transactions
  BY DEF Transactions
<1>2. QED
  BY <1>1 DEF Transactions, SameStore

\* One bucket is read, and reading goes on.
LEMMA BucketStored ==
    ASSUME Inv, pc = "reading", brigade # <<>>, NEW m \in Nat, DataNext(m),
           NEW t \in Transactions, t.bodyLen = m, ~t.seenEos,
           t.started = tx.started, t.position = tx.position, t.offset = tx.offset,
           t.readAt = tx.readAt, ReadingShape(t), StoreShape(t),
           UNCHANGED <<cfg, net, got, gotEos, body, pc, status>>, lost' \in BOOLEAN,
           brigade' = Tail(brigade), tx' = t, StoredShape(tx)',
           Rejecting(cfg) /\ lost' => lost
    PROVE  Inv'
<1>1. TypeOK /\ BrigadeShape /\ StageShape /\ GotShape
  BY DEF Inv
<1>2. Taken' = Taken
  BY DEF Taken
<1>3. PICK cut \in m..Taken, e \in BOOLEAN :
         Tail(brigade) = Buckets(m, cut, Taken, e) /\ (e => Taken = Len(body))
  BY DEF DataNext
<1>4. /\ m \in Nat /\ cut \in Nat /\ Taken \in Nat /\ m <= cut /\ cut <= Taken
  <2>1. Taken \in Nat
    BY ReadingFacts
  <2> HIDE DEF Taken
  <2>2. QED
    BY <2>1, <1>3
<1>5. BucketsShape(m, cut, Taken, e)
  BY <1>3, <1>4, BucketsFacts, Zenon
<1>6. TypeOK'
  BY <1>1, <1>3, <1>5 DEF TypeOK, BucketsShape
<1>7. BrigadeShape'
  <2>1. net = Span(Taken, Len(body)) /\ body = Span(0, Len(body))
    BY <1>1 DEF BrigadeShape
  <2> HIDE DEF Taken
  <2>2. QED
    BY <1>2, <1>3, <2>1 DEF BrigadeShape
<1>8. StoreShape(tx)'
  BY DEF StoreShape, InChunks
<1>9. StageShape'
  <2>1. ReadingShape(tx)'
    BY DEF ReadingShape
  <2>2. QED
    BY <1>1, <2>1 DEF StageShape, ReadingShape
<1>10. GotShape'
  <2>1. Rejecting(cfg) /\ lost => pc # "reading"
    BY <1>1 DEF GotShape
  <2>2. QED
    BY <1>1, <2>1, GotBefore
<1>11. TemporaryFileGone'
  BY DEF TemporaryFileGone
<1>12. QED
  BY <1>6, <1>7, <1>8, <1>9, <1>10, <1>11 DEF Inv

LEMMA ReadBucketStep ==
    ASSUME Inv, ReadBucket
    PROVE  Inv'
<1> DEFINE T == tx.bodyLen
           data == Head(brigade)
           over == tx.bodyLen + Len(data) > cfg.bodyLimit
           seen == [ToStream(tx, cfg, data) EXCEPT !.bodyLen = @ + Len(data)]
<1>1. /\ TypeOK /\ BrigadeShape /\ StoreShape(tx) /\ StageShape /\ GotShape
      /\ pc = "reading" /\ brigade # <<>> /\ data # Eos
      /\ UNCHANGED <<cfg, net, got, gotEos, body>>
  BY DEF Inv, ReadBucket
<1>2. /\ tx \in Transactions /\ ReadingShape(tx) /\ StoredShape(tx) /\ T \in Nat
      /\ net \in Data /\ lost \in BOOLEAN /\ got = <<>> /\ ~gotEos
  BY <1>1 DEF TypeOK, StageShape, Transactions, GotShape
<1>3. ~tx.seenEos
  BY <1>1, NextBucket
<1>4. PICK m \in Nat : DataNext(m)
  BY <1>1, NextBucket DEF EndNext
<1>5. T < m /\ data = Span(T, m)
  BY <1>4 DEF DataNext
<1>6. /\ IF over /\ Rejecting(cfg)
         THEN ReturnFromRead(tx, -5) /\ UNCHANGED lost
         ELSE \E r \in RequestBodyStore(seen, cfg, data) :
                /\ lost' = (lost \/ r.rc < 0)
                /\ IF r.rc < 0 /\ Rejecting(cfg)
                   THEN ReturnFromRead(r.tx, r.rc)
                   ELSE /\ tx' = [r.tx EXCEPT !.finished =
                                    @ \/ (over /\ cfg.action = "Partial")]
                        /\ brigade' = Tail(brigade)
                        /\ UNCHANGED <<pc, status>>
  BY DEF ReadBucket
<1>7. /\ data \in Data /\ Len(data) = m - T
      /\ seen \in Transactions /\ SameStore(tx, seen) /\ seen.bodyLen = m
      /\ seen.finished = tx.finished /\ ~seen.seenEos
      /\ CopyShape(m, seen.stream) /\ ReadingShape(seen) /\ StoreShape(seen)
  <2> HIDE DEF data, seen
  <2>1. data = Span(tx.bodyLen, m)
    BY <1>5
  <2>2. seen = [ToStream(tx, cfg, data) EXCEPT !.bodyLen = @ + Len(data)]
    BY DEF seen
  <2>3. tx.bodyLen < m
    BY <1>5
  <2>4. Seen(tx, m, data, seen)
    BY <1>1, <1>2, <1>3, <2>1, <2>2, <2>3, SeenFacts, Zenon
  <2>5. QED
    BY <2>4 DEF Seen
<1>8. cfg.bodyLimit \in Nat /\ cfg.noFilesLimit \in Nat
  BY <1>1, ConfigsAssumption DEF TypeOK
<1>9. over <=> m > cfg.bodyLimit
  BY <1>2, <1>5, <1>7
<1> HIDE DEF data, seen, over, T
<1>10. CASE over /\ Rejecting(cfg)
  <2>1. ReturnFromRead(tx, -5) /\ lost' = lost
    BY <1>6, <1>10
  <2>2. /\ tx' \in Transactions /\ SameButError(tx, tx')
        /\ pc' = "cleanup" /\ brigade' = <<>>
        /\ status' \in {"none", "DECLINED", "400", "403", "408", "413", "500"}
    BY <1>1, <1>2, <1>10, <2>1, ReturnFacts
  <2>3. StoreShape(tx')
    BY <1>1, <2>2, SameStoreShape
  <2>4. tx'.streamChanged = tx.streamChanged /\ (tx'.storage = "disk" => tx'.filename)
    BY <1>2, <2>2 DEF SameButError, SameTransaction, ReadingShape
  <2>5. QED
    BY <1>1, <1>2, <2>1, <2>2, <2>3, <2>4, EndsEarly
<1>11. CASE ~(over /\ Rejecting(cfg))
  <2>1. PICK r \in RequestBodyStore(seen, cfg, data) :
           /\ lost' = (lost \/ r.rc < 0)
           /\ IF r.rc < 0 /\ Rejecting(cfg)
              THEN ReturnFromRead(r.tx, r.rc)
              ELSE /\ tx' = [r.tx EXCEPT !.finished =
                               @ \/ (over /\ cfg.action = "Partial")]
                   /\ brigade' = Tail(brigade)
                   /\ UNCHANGED <<pc, status>>
    BY <1>6, <1>11
  <2>2. /\ r.tx \in Transactions /\ SameTransaction(seen, r.tx)
        /\ ReadingShape(r.tx) /\ StoreShape(r.tx)
        /\ r.rc \in {1, -1, -5}
        /\ r.rc = 1 => Content(r.tx) = Content(seen) \o data
        /\ seen.processor = "URLENCODED" => r.tx.noFiles = seen.noFiles + Len(data)
        /\ r.rc = 1 /\ cfg.enabled = "On" => r.tx.noFiles < cfg.noFilesLimit
    BY <1>1, <1>7, <2>1, StoreFacts
  <2>3. CASE r.rc < 0 /\ Rejecting(cfg)
    <3>1. ReturnFromRead(r.tx, r.rc) /\ lost' = TRUE
      BY <2>1, <2>3
    <3>2. /\ tx' \in Transactions /\ SameButError(r.tx, tx')
          /\ pc' = "cleanup" /\ brigade' = <<>>
          /\ status' \in {"none", "DECLINED", "400", "403", "408", "413", "500"}
      BY <1>1, <2>2, <2>3, <3>1, ReturnFacts
    <3>3. StoreShape(tx')
      BY <2>2, <3>2, SameStoreShape
    <3>4. tx'.streamChanged = tx.streamChanged /\ (tx'.storage = "disk" => tx'.filename)
      BY <1>7, <2>2, <3>2 DEF SameButError, SameTransaction, ReadingShape, SameStore
    <3>5. QED
      BY <1>1, <1>2, <3>1, <3>2, <3>3, <3>4, EndsEarly
  <2>4. CASE ~(r.rc < 0 /\ Rejecting(cfg))
    <3> DEFINE f == r.tx.finished \/ (over /\ cfg.action = "Partial")
    <3>1. /\ tx' = [r.tx EXCEPT !.finished = f] /\ brigade' = Tail(brigade)
          /\ UNCHANGED <<pc, status>>
      BY <2>1, <2>4
    <3>2. f \in BOOLEAN
      BY <2>2 DEF Transactions
    <3> HIDE DEF f
    <3>3. /\ tx' \in Transactions /\ SameStore(r.tx, tx') /\ tx'.bodyLen = r.tx.bodyLen
          /\ tx'.stream = r.tx.stream /\ tx'.seenEos = r.tx.seenEos /\ tx'.finished = f
      BY <2>2, <3>1, <3>2, FinishedUpdate
    <3>4. /\ tx'.bodyLen = m /\ ~tx'.seenEos /\ tx'.stream = seen.stream
          /\ tx'.started = tx.started /\ tx'.position = tx.position
          /\ tx'.offset = tx.offset /\ tx'.readAt = tx.readAt
          /\ tx'.processor = tx.processor /\ ~tx'.streamChanged /\ ~tx'.crashed
      BY <1>2, <1>7, <2>2, <3>3 DEF SameStore, SameTransaction, ReadingShape, StoredShape
    <3>5. ReadingShape(tx') /\ StoreShape(tx')
      BY <2>2, <3>3, <3>4 DEF SameStore, ReadingShape, StoreShape, InChunks
    <3>6. Rejecting(cfg) /\ lost' => lost
      BY <2>1, <2>2, <2>4
    <3>7. StoredShape(tx)'
      <4>1. Content(tx') = Content(r.tx) /\ Content(seen) = Content(tx)
        BY <1>7, <3>3 DEF Content, SameStore
      <4>2. ~lost' => Content(tx') = Span(0, m)
        <5>1. 0 \in Nat /\ 0 <= T /\ T <= m
          BY <1>2, <1>5
        <5>2. Span(0, T) \o Span(T, m) = Span(0, m)
          BY <1>2, <5>1, SpanConcat, Zenon
        <5>3. ~lost => Content(tx) = Span(0, T)
          BY <1>2 DEF StoredShape, T
        <5>4. ~lost' => ~lost /\ r.rc = 1
          <6>1. r.rc = 1 \/ r.rc < 0
            BY <2>2
          <6>2. QED
            BY <2>1, <6>1, Zenon
        <5>5. QED
          BY <1>5, <2>2, <4>1, <5>2, <5>3, <5>4, Zenon
      <4>3. tx.processor = "URLENCODED" => tx'.noFiles = m
        <5>1. tx.processor = "URLENCODED" => tx.noFiles = T
          BY <1>2 DEF StoredShape, T
        <5>2. QED
          BY <1>2, <1>5, <1>7, <2>2, <3>3, <5>1 DEF SameStore
      <4>4. ASSUME Rejecting(cfg)
            PROVE  /\ m <= cfg.bodyLimit
                   /\ tx.processor = "URLENCODED" => m < cfg.noFilesLimit
                   /\ ~tx'.finished
        <5>1. r.rc = 1 /\ ~over
          BY <1>11, <2>2, <2>4, <4>4
        <5>2. m <= cfg.bodyLimit
          BY <1>8, <1>9, <5>1
        <5>3. tx.processor = "URLENCODED" => m < cfg.noFilesLimit
          BY <2>2, <3>3, <4>3, <4>4, <5>1 DEF Rejecting, SameStore
        <5>4. ~r.tx.finished
          BY <1>2, <1>3, <1>7, <2>2, <4>4 DEF StoredShape, SameTransaction
        <5>5. QED
          BY <3>3, <5>1, <5>2, <5>3, <5>4 DEF f
      <4>5. Content(tx)' = Content(tx') /\ Rejecting(cfg)' = Rejecting(cfg)
        BY <1>1 DEF Content, Rejecting
      <4>6. tx'.stream \in {Null, Span(0, m)}
        BY <1>7, <3>4 DEF CopyShape
      <4>7. QED
        BY <1>1, <3>4, <4>2, <4>3, <4>4, <4>5, <4>6 DEF StoredShape
    <3>8. lost' \in BOOLEAN
      BY <1>2, <2>1
    <3>9. QED
      BY <1>1, <1>4, <3>1, <3>3, <3>4, <3>5, <3>6, <3>7, <3>8, BucketStored
  <2>5. QED
    BY <2>3, <2>4
<1>12. QED
  BY <1>10, <1>11

\* modsecurity_request_body_end: the file is closed, and joining the chunks
\* is harmless while they are in memory.
Ended(t, u) ==
    /\ u \in Transactions
    /\ u.contentLength = t.contentLength /\ u.spill = t.spill
    /\ u.processor = t.processor /\ u.bodyLen = t.bodyLen
    /\ u.seenEos = t.seenEos /\ u.ifStatus = t.ifStatus
    /\ u.started = t.started /\ u.position = t.position /\ u.offset = t.offset
    /\ u.readAt = t.readAt /\ u.stream = t.stream
    /\ u.streamChanged = t.streamChanged /\ u.finished = t.finished
    /\ u.storage = t.storage /\ u.chunks = t.chunks /\ u.file = t.file
    /\ u.filename = t.filename /\ u.noFiles = t.noFiles
    /\ u.isRead /\ u.fd = (IF t.storage = "disk" THEN FALSE ELSE t.fd)
    /\ t.chunks \notin {Null, Freed} => u.crashed = t.crashed

LEMMA EndFacts ==
    ASSUME TypeOK, NEW t \in Transactions, NEW u \in RequestBodyEnd(t, cfg)
    PROVE  Ended(t, u)
<1> DEFINE f == IF t.storage = "disk" THEN FALSE ELSE t.fd
           closed == [t EXCEPT !.fd = f, !.isRead = TRUE]
<1>a. f \in BOOLEAN
  BY DEF Transactions
<1>1. closed \in Transactions
  <2> HIDE DEF f
  <2>1. QED
    BY <1>a DEF Transactions
<1>2. Ended(t, closed)
  <2> HIDE DEF f
  <2>1. closed.fd = f
    BY <1>a DEF Transactions
  <2>2. QED
    BY <1>1, <2>1 DEF Transactions, Ended, f
<1>3. /\ closed.length = t.length /\ closed.chunks = t.chunks
      /\ closed.length \in Nat /\ cfg.bodyLimit \in Nat
  BY ConfigsAssumption DEF Transactions, TypeOK
<1>4. u = closed \/ u = EndRaw(closed, cfg) \/ \E e \in BOOLEAN : u = [closed EXCEPT !.error = e]
  BY DEF RequestBodyEnd
<1> HIDE DEF closed
<1>5. CASE u = closed
  BY <1>2, <1>5
<1>6. CASE \E e \in BOOLEAN : u = [closed EXCEPT !.error = e]
  <2>1. PICK e \in BOOLEAN : u = [closed EXCEPT !.error = e]
    BY <1>6
  <2>2. u \in Transactions
    BY <1>1, <2>1 DEF Transactions
  <2>3. QED
    BY <1>1, <1>2, <2>1, <2>2, ZenonT(60) DEF Transactions, Ended
<1>7. CASE u = EndRaw(closed, cfg)
  <2>1. CASE closed.chunks \in {Null, Freed}
    <3>1. u = [closed EXCEPT !.crashed = TRUE]
      BY <1>7, <2>1 DEF EndRaw
    <3>2. u \in Transactions
      BY <1>1, <3>1, ZenonT(60) DEF Transactions
    <3>3. /\ u.contentLength = closed.contentLength /\ u.spill = closed.spill
          /\ u.processor = closed.processor /\ u.bodyLen = closed.bodyLen
          /\ u.seenEos = closed.seenEos /\ u.ifStatus = closed.ifStatus
          /\ u.started = closed.started /\ u.position = closed.position
          /\ u.offset = closed.offset /\ u.readAt = closed.readAt
          /\ u.stream = closed.stream /\ u.streamChanged = closed.streamChanged
          /\ u.finished = closed.finished /\ u.storage = closed.storage
          /\ u.chunks = closed.chunks /\ u.file = closed.file
          /\ u.filename = closed.filename /\ u.noFiles = closed.noFiles
          /\ u.isRead = closed.isRead /\ u.fd = closed.fd
      BY <1>1, <3>1 DEF Transactions
    <3>4. QED
      BY <1>2, <1>3, <2>1, <3>2, <3>3 DEF Ended
  <2>2. CASE closed.chunks \notin {Null, Freed}
    <3> DEFINE n == IF cfg.bodyLimit > 0 THEN Minimum(closed.length, cfg.bodyLimit)
                    ELSE closed.length
    <3>1. u = [closed EXCEPT !.joined = TRUE, !.length = n]
      BY <1>7, <2>2 DEF EndRaw
    <3>2. n \in Nat
      BY <1>3 DEF Minimum
    <3> HIDE DEF n
    <3>3. u \in Transactions
      BY <1>1, <3>1, <3>2, ZenonT(60) DEF Transactions
    <3>4. /\ u.contentLength = closed.contentLength /\ u.spill = closed.spill
          /\ u.processor = closed.processor /\ u.bodyLen = closed.bodyLen
          /\ u.seenEos = closed.seenEos /\ u.ifStatus = closed.ifStatus
          /\ u.started = closed.started /\ u.position = closed.position
          /\ u.offset = closed.offset /\ u.readAt = closed.readAt
          /\ u.stream = closed.stream /\ u.streamChanged = closed.streamChanged
          /\ u.finished = closed.finished /\ u.storage = closed.storage
          /\ u.chunks = closed.chunks /\ u.file = closed.file
          /\ u.filename = closed.filename /\ u.noFiles = closed.noFiles
          /\ u.isRead = closed.isRead /\ u.fd = closed.fd
          /\ u.crashed = closed.crashed
      BY <1>1, <3>1 DEF Transactions
    <3>5. QED
      BY <1>2, <3>3, <3>4 DEF Ended
  <2>3. QED
    BY <2>1, <2>2
<1>8. QED
  BY <1>4, <1>5, <1>6, <1>7

\* Nothing has been forwarded: the cursor is at the beginning of the store.
LEMMA CursorAtStart ==
    ASSUME NEW t \in Transactions, t.position = 1, t.offset = 0, t.readAt = 0,
           t.storage = "memory" => t.chunks \in Data
    PROVE  /\ Cursor(t) = 0
           /\ t.storage = "memory" => Cursor(t) <= ChunkEnd(t)
<1>1. t.storage = "memory" => Len(t.chunks) \in Nat /\ ChunkSize(t) \in Nat
  BY DataFacts, BodyBounds DEF ChunkSize
<1>2. \A n \in Nat : (1 - 1) * n + 0 = 0 /\ 1 * n = n
  OBVIOUS
<1>3. QED
  BY <1>1, <1>2 DEF Cursor, ChunkEnd, Minimum

LEMMA FinishReadingStep ==
    ASSUME Inv, FinishReading
    PROVE  Inv'
<1>1. /\ TypeOK /\ BrigadeShape /\ StoreShape(tx) /\ StageShape /\ GotShape
      /\ pc = "reading" /\ brigade = <<>> /\ tx.finished
      /\ UNCHANGED <<cfg, net, got, gotEos, body, lost>>
  BY DEF Inv, FinishReading
<1>2. /\ tx \in Transactions /\ ReadingShape(tx) /\ StoredShape(tx)
      /\ ~tx.started /\ tx.position = 1 /\ tx.offset = 0 /\ tx.readAt = 0
      /\ got = <<>> /\ ~gotEos
  BY <1>1 DEF TypeOK, StageShape, GotShape
<1>3. PICK t \in RequestBodyEnd(tx, cfg) :
         IF t.crashed
         THEN tx' = t /\ pc' = "crashed" /\ UNCHANGED <<status, brigade>>
         ELSE ReturnFromRead([t EXCEPT !.ifStatus = "wants"], 1)
  BY DEF FinishReading
<1>4. Ended(tx, t)
  BY <1>1, <1>2, <1>3, EndFacts
<1>5. tx.bodyLen = Taken /\ tx.bodyLen \in Nat /\ Len(body) \in Nat /\ Taken <= Len(body)
      /\ net = Span(Taken, Len(body)) /\ body = Span(0, Len(body))
      /\ (tx.seenEos => Taken = Len(body))
  <2> HIDE DEF Taken
  <2>1. PICK cut \in Nat, e \in BOOLEAN :
           /\ tx.bodyLen <= cut /\ cut <= Taken
           /\ brigade = Buckets(tx.bodyLen, cut, Taken, e)
           /\ e \/ tx.seenEos => Taken = Len(body)
    BY <1>1, ReadingFacts, Zenon
  <2>2. tx.bodyLen \in Nat /\ Taken \in Nat /\ Len(body) \in Nat /\ Taken <= Len(body)
        /\ net = Span(Taken, Len(body)) /\ body = Span(0, Len(body))
    BY <1>1, ReadingFacts, Zenon
  <2>3. Buckets(tx.bodyLen, cut, Taken, e) = <<>> => tx.bodyLen = Taken /\ ~e
    BY <2>1, <2>2, BucketsEmpty, Zenon
  <2>4. QED
    BY <1>1, <2>1, <2>2, <2>3, Zenon
<1>6. tx.storage = "memory" => tx.chunks \in Data /\ tx.chunks # Null
  BY <1>1, <1>2 DEF ReadingShape, StoreShape, Transactions
<1>7. tx.storage = "disk" => tx.filename
  BY <1>2 DEF ReadingShape
<1>8. CASE t.crashed
  <2>1. tx' = t /\ pc' = "crashed" /\ UNCHANGED <<status, brigade>>
    BY <1>3, <1>8
  <2>2. TypeOK'
    BY <1>1, <1>4, <2>1 DEF TypeOK, Ended
  <2>3. BrigadeShape'
    BY <1>1, <2>1 DEF BrigadeShape
  <2>4. StoreShape(tx)'
    BY <1>1, <1>4, <2>1, ZenonT(60) DEF StoreShape, InChunks, Ended, Transactions
  <2>5. StageShape' /\ TemporaryFileGone'
    BY <2>1 DEF StageShape, TemporaryFileGone
  <2>6. GotShape'
    <3>1. Rejecting(cfg) /\ lost => pc # "reading"
      BY <1>1 DEF GotShape
    <3>2. QED
      BY <1>1, <2>1, <3>1, GotBefore
  <2>7. QED
    BY <2>2, <2>3, <2>4, <2>5, <2>6 DEF Inv
<1>9. CASE ~t.crashed
  <2> DEFINE w == [t EXCEPT !.ifStatus = "wants"]
  <2>1. ReturnFromRead(w, 1)
    BY <1>3, <1>9
  <2>2. w \in Transactions
    BY <1>4 DEF Ended, Transactions
  <2>3. /\ w.ifStatus = "wants" /\ w.bodyLen = tx.bodyLen /\ w.seenEos = tx.seenEos
        /\ w.spill = tx.spill /\ w.processor = tx.processor
        /\ w.started = tx.started /\ w.position = tx.position /\ w.offset = tx.offset
        /\ w.readAt = tx.readAt /\ w.stream = tx.stream
        /\ w.streamChanged = tx.streamChanged /\ w.finished = tx.finished
        /\ w.storage = tx.storage /\ w.chunks = tx.chunks /\ w.file = tx.file
        /\ w.filename = tx.filename /\ w.noFiles = tx.noFiles
        /\ w.isRead /\ w.fd = (IF tx.storage = "disk" THEN FALSE ELSE tx.fd)
        /\ ~w.crashed
    BY <1>4, <1>9 DEF Ended, Transactions
  <2> HIDE DEF w
  <2>4. /\ tx' \in Transactions /\ SameButError(w, tx')
        /\ pc' = "phase2" /\ brigade' = <<>>
        /\ status' \in {"none", "DECLINED", "400", "403", "408", "413", "500"}
    BY <1>1, <2>1, <2>2, ReturnFacts
  <2>5. /\ tx'.ifStatus = "wants" /\ tx'.bodyLen = tx.bodyLen /\ tx'.seenEos = tx.seenEos
        /\ tx'.spill = tx.spill /\ tx'.processor = tx.processor
        /\ ~tx'.started /\ tx'.position = 1 /\ tx'.offset = 0 /\ tx'.readAt = 0
        /\ tx'.stream = tx.stream /\ tx'.streamChanged = tx.streamChanged
        /\ tx'.finished = tx.finished
        /\ tx'.storage = tx.storage /\ tx'.chunks = tx.chunks /\ tx'.file = tx.file
        /\ tx'.filename = tx.filename /\ tx'.noFiles = tx.noFiles
        /\ tx'.isRead /\ tx'.fd = (IF tx.storage = "disk" THEN FALSE ELSE tx.fd)
        /\ ~tx'.crashed
    BY <1>2, <2>3, <2>4 DEF SameButError, SameTransaction
  <2>6. TypeOK'
    BY <1>1, <2>4, EmptySeq DEF TypeOK
  <2>7. BrigadeShape'
    BY <1>1, <2>4 DEF BrigadeShape
  <2>8. StoreShape(tx)'
    BY <1>1, <2>5 DEF StoreShape, InChunks
  <2>9. StageShape'
    <3>1. StoredShape(tx)'
      <4>1. Content(tx)' = Content(tx) /\ Rejecting(cfg)' = Rejecting(cfg)
        BY <1>1, <2>5 DEF Content, Rejecting
      <4>2. QED
        BY <1>1, <1>2, <2>5, <4>1 DEF StoredShape
    <3>2. /\ Cursor(tx') = 0
          /\ tx'.storage = "memory" => Cursor(tx') <= ChunkEnd(tx')
      BY <1>6, <2>4, <2>5, CursorAtStart
    <3>3. Cursor(tx)' = Cursor(tx') /\ ChunkEnd(tx)' = ChunkEnd(tx')
      BY DEF Cursor, ChunkEnd, ChunkSize
    <3>4. tx.seenEos => net = <<>>
      BY <1>5, SpanEmpty
    <3>5. Len(got') = 0
      BY <1>1, <1>2, EmptySeq
    <3> HIDE DEF Taken
    <3>6. ForwardShape(tx)'
      BY <1>1, <1>5, <1>6, <2>5, <3>2, <3>3, <3>4, <3>5 DEF ForwardShape
    <3>7. QED
      BY <1>7, <2>4, <2>5, <3>1, <3>6 DEF StageShape
  <2>10. GotShape'
    <3>1. Rejecting(cfg) /\ lost => pc # "reading"
      BY <1>1 DEF GotShape
    <3>2. QED
      BY <1>1, <2>4, <2>5, <3>1, GotBefore
  <2>11. TemporaryFileGone'
    BY <2>4 DEF TemporaryFileGone
  <2>12. QED
    BY <2>6, <2>7, <2>8, <2>9, <2>10, <2>11 DEF Inv
<1>10. QED
  BY <1>8, <1>9

\* What the handler has been given stays with it.
LEMMA GotKept ==
    ASSUME NEW s \in Data, NEW d \in Data, 0 \in ToSet(s) \/ 0 \in ToSet(d)
    PROVE  0 \in ToSet(s \o d)
<1>1. /\ Len(s) \in Nat /\ Len(d) \in Nat /\ DOMAIN s = 1..Len(s) /\ DOMAIN d = 1..Len(d)
  BY LenProperties DEF Data
<1>2. /\ DOMAIN (s \o d) = 1..(Len(s) + Len(d))
      /\ \A i \in 1..(Len(s) + Len(d)) :
           (s \o d)[i] = IF i <= Len(s) THEN s[i] ELSE d[i - Len(s)]
  <2>1. /\ s \o d \in Seq(Nat) /\ Len(s \o d) = Len(s) + Len(d)
        /\ \A i \in 1..Len(s) + Len(d) :
             (s \o d)[i] = IF i <= Len(s) THEN s[i] ELSE d[i - Len(s)]
    BY ConcatProperties, Zenon DEF Data
  <2>2. DOMAIN (s \o d) = 1..Len(s \o d)
    BY <2>1, LenProperties
  <2>3. QED
    BY <2>1, <2>2
<1> DEFINE q == s \o d
<1> HIDE DEF q
<1>3. CASE 0 \in ToSet(s)
  <2>1. PICK i \in 1..Len(s) : s[i] = 0
    BY <1>1, <1>3 DEF ToSet
  <2>2. i \in DOMAIN q /\ q[i] = 0
    BY <1>1, <1>2, <2>1 DEF q
  <2>3. QED
    BY <2>2 DEF ToSet, q
<1>4. CASE 0 \in ToSet(d)
  <2>1. PICK i \in 1..Len(d) : d[i] = 0
    BY <1>1, <1>4 DEF ToSet
  <2> DEFINE j == Len(s) + i
  <2>2. j \in 1..(Len(s) + Len(d)) /\ ~(j <= Len(s)) /\ j - Len(s) = i
    BY <1>1, <2>1
  <2> HIDE DEF j
  <2>3. j \in DOMAIN q /\ q[j] = 0
    BY <1>2, <2>1, <2>2 DEF q
  <2>4. QED
    BY <2>3 DEF ToSet, q
<1>5. QED
  BY <1>3, <1>4

LEMMA Phase2Step ==
    ASSUME Inv, Phase2
    PROVE  Inv'
<1>1. /\ TypeOK /\ BrigadeShape /\ StoreShape(tx) /\ StageShape /\ GotShape
      /\ pc = "phase2" /\ tx \in Transactions /\ net \in Data /\ lost \in BOOLEAN
      /\ UNCHANGED <<cfg, net, brigade, got, gotEos, body, lost>>
  BY DEF Inv, Phase2, TypeOK
<1>2. brigade = <<>> /\ (tx.storage = "disk" => tx.filename)
  BY <1>1 DEF BrigadeShape, StageShape
<1>3. CASE status' = "403" /\ pc' = "cleanup" /\ UNCHANGED tx
  <2>1. StoreShape(tx')
    BY <1>1, <1>3
  <2>2. QED
    BY <1>1, <1>2, <1>3, <2>1, EndsEarly
<1>4. CASE status' = "DECLINED" /\ pc' = "handler" /\ UNCHANGED tx
  <2>1. TypeOK' /\ BrigadeShape'
    BY <1>1, <1>2, <1>4 DEF TypeOK, BrigadeShape
  <2>2. StoreShape(tx)'
    BY <1>1, <1>4 DEF StoreShape, InChunks
  <2>3. StageShape'
    <3>1. StoredShape(tx) => StoredShape(tx)'
      BY <1>1, <1>4 DEF StoredShape, Content, Rejecting
    <3>2. ForwardShape(tx) => ForwardShape(tx)'
      BY <1>1, <1>4 DEF ForwardShape, Cursor, HasChunk, ChunkEnd, ChunkSize, Rewritten
    <3>3. QED
      BY <1>1, <1>4, <3>1, <3>2 DEF StageShape
  <2>4. GotShape'
    BY <1>1, <1>4 DEF GotShape, Rejecting, Rewritten
  <2>5. TemporaryFileGone'
    BY <1>4 DEF TemporaryFileGone
  <2>6. QED
    BY <2>1, <2>2, <2>3, <2>4, <2>5 DEF Inv
<1>5. CASE /\ status' = "DECLINED" /\ pc' = "handler"
           /\ tx' = [tx EXCEPT !.stream = <<0>>, !.streamChanged = TRUE]
  <2>1. <<0>> \in Data
    BY DEF Data
  <2>2. tx' \in Transactions
    BY <1>1, <1>5, <2>1, ZenonT(60) DEF Transactions
  <2>3. /\ SameStore(tx, [tx' EXCEPT !.streamChanged = tx.streamChanged])
        /\ tx'.streamChanged /\ tx'.stream = <<0>> /\ tx'.bodyLen = tx.bodyLen
        /\ tx'.seenEos = tx.seenEos /\ tx'.finished = tx.finished
    BY <1>1, <1>5 DEF Transactions, SameStore
  <2>4. /\ tx'.spill = tx.spill /\ tx'.processor = tx.processor /\ tx'.joined = tx.joined
        /\ tx'.isRead = tx.isRead /\ tx'.ifStatus = tx.ifStatus
        /\ tx'.started = tx.started /\ tx'.position = tx.position
        /\ tx'.offset = tx.offset /\ tx'.readAt = tx.readAt
        /\ tx'.crashed = tx.crashed /\ tx'.storage = tx.storage
        /\ tx'.chunks = tx.chunks /\ tx'.file = tx.file /\ tx'.fd = tx.fd
        /\ tx'.filename = tx.filename /\ tx'.noFiles = tx.noFiles
    BY <1>1, <1>5 DEF Transactions
  <2>5. TypeOK' /\ BrigadeShape'
    BY <1>1, <1>2, <1>5, <2>2 DEF TypeOK, BrigadeShape
  <2>6. StoreShape(tx)'
    BY <1>1, <2>4 DEF StoreShape, InChunks
  <2>7. StageShape'
    <3>1. StoredShape(tx) => StoredShape(tx)'
      BY <1>1, <2>3, <2>4 DEF StoredShape, Content, Rejecting
    <3>2. Rewritten'
      BY <2>3 DEF Rewritten
    <3>3. ForwardShape(tx) => ForwardShape(tx)'
      BY <1>1, <2>3, <2>4, <3>2 DEF ForwardShape, Cursor, HasChunk, ChunkEnd, ChunkSize
    <3>4. QED
      BY <1>1, <1>5, <2>4, <3>1, <3>3 DEF StageShape
  <2>8. GotShape'
    <3>1. Rewritten'
      BY <2>3 DEF Rewritten
    <3>2. Rejecting(cfg)' = Rejecting(cfg)
      BY <1>1 DEF Rejecting
    <3>3. QED
      BY <1>1, <1>5, <2>4, <3>1, <3>2 DEF GotShape
  <2>9. TemporaryFileGone'
    BY <1>5 DEF TemporaryFileGone
  <2>10. QED
    BY <2>5, <2>6, <2>7, <2>8, <2>9 DEF Inv
<1>6. QED
  BY <1>3, <1>4, <1>5 DEF Phase2

LEMMA HandlerDoneStep ==
    ASSUME Inv, HandlerDone
    PROVE  Inv'
<1>1. /\ TypeOK /\ StoreShape(tx) /\ pc = "handler" /\ pc' = "cleanup"
      /\ tx \in Transactions /\ net \in Data /\ lost \in BOOLEAN
      /\ status \in {"none", "DECLINED", "400", "403", "408", "413", "500"}
      /\ UNCHANGED <<cfg, tx, net, brigade, status, got, gotEos, body, lost>>
  BY DEF Inv, HandlerDone, TypeOK
<1>2. brigade = <<>> /\ (tx.storage = "disk" => tx.filename)
  BY <1>1 DEF Inv, BrigadeShape, StageShape
<1>3. StoreShape(tx')
  BY <1>1
<1>4. QED
  BY <1>1, <1>2, <1>3, EndsEarly

\* modsecurity_request_body_clear.
LEMMA ClearFacts ==
    ASSUME NEW t \in Transactions, StoreShape(t), t.storage = "disk" => t.filename,
           NEW u \in RequestBodyClear(t, cfg)
    PROVE  /\ u \in Transactions /\ u.streamChanged = t.streamChanged
           /\ u.storage = t.storage /\ u.chunks = Null
           /\ u.storage = "memory" => ~u.fd /\ u.file = Null /\ ~u.filename
           /\ u.fd => u.file # Null
           /\ ~cfg.keepPut => ~u.fd /\ (u.filename \/ u.file = Null)
<1> DEFINE freed == [t EXCEPT !.chunks = Null]
<1>1. /\ freed \in Transactions /\ freed.storage = t.storage /\ freed.chunks = Null
      /\ freed.fd = t.fd /\ freed.file = t.file /\ freed.filename = t.filename
      /\ freed.streamChanged = t.streamChanged
  BY DEF Transactions
<1>2. \/ t.storage = "memory" /\ u = freed
      \/ t.storage = "disk" /\ cfg.keepPut /\ u = [freed EXCEPT !.filename = FALSE]
      \/ t.storage = "disk" /\ u = [freed EXCEPT !.fd = FALSE, !.file = Null, !.filename = FALSE]
      \/ t.storage = "disk" /\ u = [freed EXCEPT !.fd = FALSE]
  BY DEF RequestBodyClear, Transactions
<1>a. freed \in Transactions
  BY <1>1
<1> HIDE DEF freed
<1>3. CASE t.storage = "memory" /\ u = freed
  BY <1>1, <1>3 DEF StoreShape
<1>4. CASE t.storage = "disk" /\ cfg.keepPut /\ u = [freed EXCEPT !.filename = FALSE]
  <2>1. u \in Transactions
    BY <1>a, <1>4, ZenonT(60) DEF Transactions
  <2>2. QED
    BY <1>1, <1>4, <2>1 DEF Transactions, StoreShape
<1>5. CASE /\ t.storage = "disk"
           /\ u = [freed EXCEPT !.fd = FALSE, !.file = Null, !.filename = FALSE]
  <2>1. u \in Transactions
    BY <1>a, <1>5, ZenonT(60) DEF Transactions
  <2>2. QED
    BY <1>1, <1>5, <2>1 DEF Transactions, StoreShape
<1>6. CASE t.storage = "disk" /\ u = [freed EXCEPT !.fd = FALSE]
  <2>1. u \in Transactions
    BY <1>a, <1>6, ZenonT(60) DEF Transactions
  <2>2. QED
    BY <1>1, <1>6, <2>1 DEF Transactions, StoreShape
<1>7. QED
  BY <1>2, <1>3, <1>4, <1>5, <1>6

LEMMA CleanupStep ==
    ASSUME Inv, Cleanup
    PROVE  Inv'
<1>1. /\ TypeOK /\ BrigadeShape /\ StoreShape(tx) /\ GotShape /\ pc = "cleanup"
      /\ tx \in Transactions /\ tx' \in RequestBodyClear(tx, cfg) /\ pc' = "done"
      /\ UNCHANGED <<cfg, net, brigade, status, got, gotEos, body, lost>>
  BY DEF Inv, Cleanup, TypeOK
<1>2. brigade = <<>> /\ (tx.storage = "disk" => tx.filename)
  BY <1>1 DEF Inv, BrigadeShape, StageShape
<1>3. /\ tx' \in Transactions /\ tx'.streamChanged = tx.streamChanged
      /\ tx'.storage = tx.storage /\ tx'.chunks = Null
      /\ tx'.storage = "memory" => ~tx'.fd /\ tx'.file = Null /\ ~tx'.filename
      /\ tx'.fd => tx'.file # Null
      /\ ~cfg.keepPut => ~tx'.fd /\ (tx'.filename \/ tx'.file = Null)
  BY <1>1, <1>2, ClearFacts
<1>4. TypeOK' /\ BrigadeShape'
  BY <1>1, <1>2, <1>3 DEF TypeOK, BrigadeShape
<1>5. StoreShape(tx)'
  <2>1. Null # Freed /\ InChunks(tx') = <<>> /\ InChunks(tx)' = InChunks(tx')
    BY <1>3, SentinelsAssumption DEF InChunks
  <2>2. Len(<<>>) <= cfg.memLimit
    BY <1>1, ConfigsAssumption, EmptySeq DEF TypeOK
  <2>3. QED
    BY <1>1, <1>3, <2>1, <2>2 DEF StoreShape
<1>6. StageShape'
  BY <1>1 DEF StageShape
<1>7. GotShape'
  BY <1>1, <1>3 DEF GotShape, Rejecting, Rewritten
<1>8. TemporaryFileGone'
  BY <1>1, <1>3 DEF TemporaryFileGone
<1>9. QED
  BY <1>4, <1>5, <1>6, <1>7, <1>8 DEF Inv

LEMMA StutterStep ==
    ASSUME Inv, UNCHANGED vars
    PROVE  Inv'
<1>1. UNCHANGED <<cfg, tx, net, brigade, pc, status, got, gotEos, body, lost>>
  BY DEF vars
<1>2. TypeOK' /\ BrigadeShape'
  BY <1>1 DEF Inv, TypeOK, BrigadeShape, Taken
<1>3. StoreShape(tx)' /\ TemporaryFileGone'
  BY <1>1 DEF Inv, StoreShape, InChunks, TemporaryFileGone
<1>4. StageShape'
  <2>1. ReadingShape(tx) => ReadingShape(tx)'
    BY <1>1 DEF ReadingShape
  <2>2. StoredShape(tx) => StoredShape(tx)'
    BY <1>1 DEF StoredShape, Content, Rejecting
  <2>3. ForwardShape(tx) => ForwardShape(tx)'
    BY <1>1 DEF ForwardShape, Cursor, HasChunk, ChunkEnd, ChunkSize, Rewritten
  <2>4. QED
    BY <1>1, <2>1, <2>2, <2>3 DEF Inv, StageShape
<1>5. GotShape'
  BY <1>1 DEF Inv, GotShape, Rejecting, Rewritten
<1>6. QED
  BY <1>2, <1>3, <1>4, <1>5 DEF Inv

LEMMA PassThroughStep ==
    ASSUME Inv, PassThrough
    PROVE  Inv'
<1>1. /\ TypeOK /\ BrigadeShape /\ StoreShape(tx) /\ StageShape /\ GotShape
      /\ pc = "handler" /\ ~gotEos /\ tx.ifStatus \in {"none", "complete"}
      /\ got \in Data /\ net \in Data /\ body \in Data
      /\ UNCHANGED <<cfg, tx, brigade, pc, status, body, lost>>
  BY DEF Inv, PassThrough, Reading, TypeOK
<1>2. PICK n \in 0..Minimum(MaxRead, Len(net)) :
         /\ n > 0 \/ net = <<>>
         /\ got' = got \o First(n, net)
         /\ net' = Rest(n, net)
         /\ gotEos' = (n = 0)
  BY DEF PassThrough
<1> DEFINE G == Len(got)
           L == Len(body)
<1>3. n \in Nat /\ n <= Len(net) /\ Len(net) \in Nat /\ G \in Nat /\ L \in Nat
  BY <1>1, <1>2, BodyBounds, DataFacts DEF Minimum
<1>4. /\ First(n, net) \in Data /\ Len(First(n, net)) = n
      /\ net' \in Data /\ Len(net') = Len(net) - n
  <2>1. First(n, net) \in Data /\ Len(First(n, net)) = Minimum(n, Len(net))
    BY <1>1, <1>3, FirstType, Zenon DEF Data
  <2>2. /\ Rest(n, net) \in Data
        /\ Len(Rest(n, net)) = IF n <= Len(net) THEN Len(net) - n ELSE 0
    BY <1>1, <1>3, RestType, Zenon DEF Data
  <2>3. Minimum(n, Len(net)) = n
    BY <1>3 DEF Minimum
  <2>4. QED
    BY <1>2, <1>3, <2>1, <2>2, <2>3
<1>5. got' \in Data
  BY <1>1, <1>2, <1>4, DataFacts
<1>6. net = <<>> => net' = <<>> /\ got' = got
  <2>1. SUFFICES ASSUME net = <<>> PROVE net' = <<>> /\ got' = got
    OBVIOUS
  <2>2. Len(net) = 0 /\ n = 0
    BY <1>3, <2>1, EmptySeq
  <2>3. Len(net') = 0 /\ Len(First(n, net)) = 0
    BY <1>4, <2>2
  <2>4. net' = <<>> /\ First(n, net) = <<>>
    BY <1>4, <2>3, EmptySeq DEF Data
  <2>5. QED
    BY <1>1, <1>2, <2>4, DataFacts
<1>7. TypeOK'
  BY <1>1, <1>2, <1>4, <1>5 DEF TypeOK
<1>8. BrigadeShape'
  BY <1>1 DEF BrigadeShape
<1>9. StoreShape(tx)'
  BY <1>1 DEF StoreShape, InChunks
<1>10. StageShape'
  <2>1. StoredShape(tx) => StoredShape(tx)'
    BY <1>1 DEF StoredShape, Content, Rejecting
  <2>2. ForwardShape(tx) => ForwardShape(tx)'
    BY <1>1, <1>6 DEF ForwardShape
  <2>3. QED
    BY <1>1, <2>1, <2>2 DEF StageShape
<1>11. GotShape'
  <2>1. Rejecting(cfg)' = Rejecting(cfg)
    BY <1>1 DEF Rejecting
  <2>2. Rewritten => Rewritten'
    BY <1>1, <1>2, <1>4, GotKept DEF Rewritten
  <2>3. ASSUME ~lost, ~Rewritten'
        PROVE  /\ got' = Span(0, Len(got')) /\ Len(got') <= L
               /\ gotEos' => Len(got') = L
               /\ net' = Span(Len(got'), L)
    <3>1. /\ got = Span(0, G) /\ G <= L /\ net = Span(G, L)
      BY <1>1, <2>2, <2>3 DEF GotShape
    <3> HIDE DEF G, L
    <3>2. Len(net) = L - G
      BY <1>3, <3>1, SpanType
    <3> DEFINE N == G + n
    <3>3. /\ N \in Nat /\ 0 \in Nat /\ 0 <= G /\ G <= N /\ N <= L /\ 0 <= N
          /\ Minimum(G + n, L) = N /\ n \in 0..(L - G)
      BY <1>3, <3>1, <3>2 DEF Minimum
    <3>4. First(n, net) = Span(G, N)
      <4>1. First(n, Span(G, L)) = Span(G, Minimum(G + n, L))
        BY <1>3, <3>1, SpanFirst, Zenon
      <4>2. QED
        BY <3>1, <3>3, <4>1, Zenon
    <3>5. net' = Span(N, L)
      <4>1. Rest(n, Span(G, L)) = Span(G + n, L)
        BY <1>3, <3>1, <3>3, SpanRest, Zenon
      <4>2. QED
        BY <1>2, <3>1, <4>1, Zenon
    <3>6. gotEos' => N = L
      <4>1. n = 0 => Len(net) = 0
        BY <1>2, EmptySeq
      <4>2. n = 0 => N = L
        BY <1>3, <3>1, <3>2, <4>1
      <4>3. QED
        BY <1>2, <4>2, Zenon
    <3> HIDE DEF N
    <3>7. got' = Span(0, N)
      <4>1. Span(0, G) \o Span(G, N) = Span(0, N)
        BY <1>3, <3>3, SpanConcat, Zenon
      <4>2. QED
        BY <1>2, <3>1, <3>4, <4>1, Zenon
    <3>8. Len(got') = N
      BY <3>3, <3>7, SpanType
    <3>9. QED
      BY <3>3, <3>5, <3>6, <3>7, <3>8
  <2>4. Rejecting(cfg) /\ lost => got = <<>> /\ net = <<>> /\ tx.ifStatus = "none"
    BY <1>1 DEF GotShape
  <2>5. QED
    BY <1>1, <1>6, <2>1, <2>3, <2>4 DEF GotShape
<1>12. TemporaryFileGone'
  BY <1>1 DEF TemporaryFileGone
<1>13. QED
  BY <1>7, <1>8, <1>9, <1>10, <1>11, <1>12 DEF Inv

-----------------------------------------------------------------------------
(* Forwarding from the store.                                              *)

\* What opening and reading the store leaves alone.
SameBody(t, u) ==
    /\ u.contentLength = t.contentLength /\ u.spill = t.spill
    /\ u.processor = t.processor /\ u.error = t.error /\ u.joined = t.joined
    /\ u.length = t.length /\ u.noFiles = t.noFiles /\ u.bodyLen = t.bodyLen
    /\ u.storage = t.storage /\ u.chunks = t.chunks /\ u.file = t.file
    /\ u.filename = t.filename /\ u.isRead = t.isRead /\ u.seenEos = t.seenEos
    /\ u.finished = t.finished /\ u.crashed = t.crashed

\* The store is open and the cursor where it was.
Opened(t, u) ==
    /\ u \in Transactions /\ SameBody(t, u) /\ u.ifStatus = t.ifStatus
    /\ u.stream = t.stream /\ u.streamChanged = t.streamChanged /\ u.started
    /\ u.position = t.position /\ u.offset = t.offset /\ u.readAt = t.readAt
    /\ u.storage = "memory" => u.fd = t.fd
    /\ u.storage = "disk" => u.fd /\ u.file \in Data

\* modsecurity_request_body_retrieve_start.
LEMMA RetrieveStartFacts ==
    ASSUME NEW t \in Transactions, t.position = 1, t.offset = 0, t.readAt = 0,
           NEW r \in RetrieveStart(t)
    PROVE  /\ r.rc \in {1, -1} /\ r.tx \in Transactions /\ SameBody(t, r.tx)
           /\ r.tx.streamChanged = t.streamChanged
           /\ r.rc = 1 => Opened(t, r.tx)
           /\ r.rc = -1 => r.tx.fd = t.fd
<1>1. t.storage \in {"memory", "disk"} /\ t.file \in Data \cup {Null}
  BY DEF Transactions
<1>2. CASE /\ t.storage = "memory"
           /\ r = Result([t EXCEPT !.started = TRUE, !.position = 1, !.offset = 0], 1)
  <2>1. r.tx = [t EXCEPT !.started = TRUE, !.position = 1, !.offset = 0] /\ r.rc = 1
    BY <1>2 DEF Result
  <2>2. r.tx \in Transactions
    BY <2>1, ZenonT(60) DEF Transactions
  <2>3. /\ SameBody(t, r.tx) /\ r.tx.ifStatus = t.ifStatus
        /\ r.tx.stream = t.stream /\ r.tx.streamChanged = t.streamChanged
        /\ r.tx.position = t.position /\ r.tx.offset = t.offset
        /\ r.tx.readAt = t.readAt
    BY <2>1 DEF Transactions, SameBody
  <2>4. r.tx.started = TRUE /\ r.tx.fd = t.fd
    BY <2>1 DEF Transactions
  <2>5. Opened(t, r.tx)
    BY <1>1, <1>2, <2>2, <2>3, <2>4 DEF SameBody, Opened
  <2>6. QED
    BY <2>1, <2>2, <2>3, <2>5
<1>3. CASE /\ t.storage = "disk" /\ t.file # Null
           /\ r = Result([t EXCEPT !.started = TRUE, !.fd = TRUE, !.readAt = 0], 1)
  <2>1. r.tx = [t EXCEPT !.started = TRUE, !.fd = TRUE, !.readAt = 0] /\ r.rc = 1
    BY <1>3 DEF Result
  <2>2. r.tx \in Transactions
    BY <2>1, ZenonT(60) DEF Transactions
  <2>3. /\ SameBody(t, r.tx) /\ r.tx.ifStatus = t.ifStatus
        /\ r.tx.stream = t.stream /\ r.tx.streamChanged = t.streamChanged
        /\ r.tx.position = t.position /\ r.tx.offset = t.offset
        /\ r.tx.readAt = t.readAt
    BY <2>1 DEF Transactions, SameBody
  <2>4. r.tx.started = TRUE /\ r.tx.fd = TRUE
    BY <2>1 DEF Transactions
  <2>5. Opened(t, r.tx)
    BY <1>1, <1>3, <2>2, <2>3, <2>4 DEF SameBody, Opened
  <2>6. QED
    BY <2>1, <2>2, <2>3, <2>5
<1>4. CASE t.storage = "disk" /\ r = Result([t EXCEPT !.started = TRUE], -1)
  <2>1. r.tx = [t EXCEPT !.started = TRUE] /\ r.rc = -1
    BY <1>4 DEF Result
  <2>2. r.tx \in Transactions
    BY <2>1, ZenonT(60) DEF Transactions
  <2>3. SameBody(t, r.tx) /\ r.tx.streamChanged = t.streamChanged /\ r.tx.fd = t.fd
    BY <2>1 DEF Transactions, SameBody
  <2>4. QED
    BY <2>1, <2>2, <2>3
<1>5. QED
  BY <1>1, <1>2, <1>3, <1>4 DEF RetrieveStart

\* The store the filter reads from: opened by this call or by an earlier one.
LEMMA OpenFacts ==
    ASSUME Inv, pc = "handler", tx.ifStatus = "wants",
           NEW s \in IF tx.started THEN {Result(tx, 1)} ELSE RetrieveStart(tx)
    PROVE  /\ s.rc \in {1, -1} /\ s.tx \in Transactions /\ SameBody(tx, s.tx)
           /\ s.tx.streamChanged = tx.streamChanged
           /\ s.rc = 1 => Opened(tx, s.tx)
           /\ StoreShape(s.tx)
<1>1. tx \in Transactions /\ StoreShape(tx) /\ ForwardShape(tx)
  BY DEF Inv, TypeOK, StageShape
<1>2. /\ s.rc \in {1, -1} /\ s.tx \in Transactions /\ SameBody(tx, s.tx)
      /\ s.tx.streamChanged = tx.streamChanged
      /\ s.rc = 1 => Opened(tx, s.tx)
      /\ s.rc = -1 => s.tx.fd = tx.fd
  <2>1. CASE tx.started
    <3>1. s.tx = tx /\ s.rc = 1
      BY <2>1 DEF Result
    <3>2. Opened(tx, tx)
      BY <1>1, <2>1, DataFacts DEF Opened, SameBody, ForwardShape, StoreShape, Transactions
    <3>3. QED
      BY <1>1, <3>1, <3>2 DEF Opened
  <2>2. CASE ~tx.started
    <3>1. tx.position = 1 /\ tx.offset = 0 /\ tx.readAt = 0
      BY <1>1, <2>2 DEF ForwardShape
    <3>2. QED
      BY <1>1, <2>2, <3>1, RetrieveStartFacts
  <2>3. QED
    BY <2>1, <2>2
<1>3. StoreShape(s.tx)
  <2>1. InChunks(s.tx) = InChunks(tx)
    BY <1>2 DEF InChunks, SameBody
  <2>2. s.tx.storage \in {"memory", "disk"}
    BY <1>2 DEF Transactions
  <2>3. QED
    BY <1>1, <1>2, <2>1, <2>2, DataFacts DEF StoreShape, SameBody, Opened
<1>4. QED
  BY <1>2, <1>3

LEMMA InputFilterFailsStep ==
    ASSUME Inv, InputFilterFails
    PROVE  Inv'
<1>1. /\ pc = "handler" /\ tx.ifStatus = "wants" /\ pc' = "cleanup"
      /\ net \in Data /\ lost \in BOOLEAN
      /\ status \in {"none", "DECLINED", "400", "403", "408", "413", "500"}
      /\ UNCHANGED <<cfg, net, brigade, status, got, gotEos, body, lost>>
  BY DEF Inv, TypeOK, InputFilterFails, Reading
<1>2. PICK s \in IF tx.started THEN {Result(tx, 1)} ELSE RetrieveStart(tx) : tx' = s.tx
  BY DEF InputFilterFails
<1>3. /\ s.tx \in Transactions /\ SameBody(tx, s.tx)
      /\ s.tx.streamChanged = tx.streamChanged /\ StoreShape(s.tx)
  BY <1>1, OpenFacts
<1>4. brigade = <<>> /\ (tx.storage = "disk" => tx.filename)
  BY <1>1 DEF Inv, BrigadeShape, StageShape
<1>5. StoreShape(tx') /\ (tx'.storage = "disk" => tx'.filename)
  BY <1>2, <1>3, <1>4 DEF SameBody
<1>6. QED
  BY <1>1, <1>2, <1>3, <1>4, <1>5, EndsEarly

\* What one call delivers, and the transaction after it: the data, unless a
\* rule has rewritten the stream.
Delivery(u, g, data, t, h) ==
    /\ h \in Data /\ t \in Transactions /\ SameBody(u, t) /\ t.ifStatus = u.ifStatus
    /\ t.started = u.started /\ t.position = u.position /\ t.offset = u.offset
    /\ t.readAt = u.readAt /\ t.fd = u.fd
    /\ \/ t.stream = u.stream /\ t.streamChanged = u.streamChanged
       \/ t.stream = Null /\ ~t.streamChanged
    /\ u.streamChanged \/ 0 \in ToSet(g) => t.streamChanged \/ 0 \in ToSet(h)
    /\ ~t.streamChanged /\ 0 \notin ToSet(h) =>
         h = g \o (IF data # Null THEN data ELSE IF u.stream # Null THEN u.stream ELSE <<>>)

LEMMA DeliveryFacts ==
    ASSUME NEW u \in Transactions, NEW g \in Data, NEW data \in Data \cup {Null},
           u.streamChanged => u.stream = << 0 >>,
           NEW t, t = AfterDelivery(u, data), NEW h, h = g \o Delivered(u, data)
    PROVE  Delivery(u, g, data, t, h)
<1> DEFINE d == Delivered(u, data)
<1>1. u.stream \in Data \cup {Null} /\ u.streamChanged \in BOOLEAN
  BY DEF Transactions
<1>2. d \in Data
  BY <1>1, DataFacts DEF Delivered
<1>3. h \in Data /\ (0 \in ToSet(g) \/ 0 \in ToSet(d) => 0 \in ToSet(h))
  BY <1>2, DataFacts, GotKept
<1>4. CASE t = u /\ (u.streamChanged => data # Null)
  <2>1. SameBody(u, t)
    BY <1>4 DEF SameBody
  <2>2. ~u.streamChanged =>
           d = IF data # Null THEN data ELSE IF u.stream # Null THEN u.stream ELSE <<>>
    BY DEF Delivered
  <2>3. QED
    BY <1>3, <1>4, <2>1, <2>2, Zenon DEF Delivery
<1>5. CASE /\ t = [u EXCEPT !.stream = Null, !.streamChanged = FALSE]
           /\ d = u.stream
           /\ data # Null => u.streamChanged
  <2>1. t \in Transactions
    BY <1>5, ZenonT(60) DEF Transactions
  <2>2. /\ SameBody(u, t) /\ t.ifStatus = u.ifStatus
        /\ t.started = u.started /\ t.position = u.position /\ t.offset = u.offset
        /\ t.readAt = u.readAt /\ t.fd = u.fd /\ t.stream = Null /\ t.streamChanged = FALSE
    BY <1>5 DEF Transactions, SameBody
  <2>3. u.streamChanged => 0 \in ToSet(d)
    <3>1. ToSet(<<0>>) = {0}
      BY DEF ToSet
    <3>2. QED
      BY <1>5, <3>1
  <2>4. u.stream # Null /\ ~u.streamChanged =>
           d = IF data # Null THEN data ELSE IF u.stream # Null THEN u.stream ELSE <<>>
    BY <1>5
  <2>5. u.stream # Null
    BY <1>2, <1>5, DataFacts
  <2>6. QED
    BY <1>3, <2>1, <2>2, <2>3, <2>4, <2>5, Zenon DEF Delivery
<1>6. \/ t = u /\ (u.streamChanged => data # Null)
      \/ /\ t = [u EXCEPT !.stream = Null, !.streamChanged = FALSE]
         /\ d = u.stream /\ (data # Null => u.streamChanged)
  <2>1. u.streamChanged => u.stream # Null
    <3>1. <<0>> \in Data
      BY DEF Data
    <3>2. QED
      BY <3>1, DataFacts
  <2>2. QED
    BY <2>1 DEF AfterDelivery, Delivered
<1>7. QED
  BY <1>4, <1>5, <1>6

\* The store can be read at its cursor.
Ready(t) ==
    /\ t.storage = "memory" =>
         /\ t.chunks \in Data
         /\ HasChunk(t, t.position) => Cursor(t) <= ChunkEnd(t)
         /\ ~HasChunk(t, t.position) => t.position = 1 /\ t.offset = 0
    /\ t.storage = "disk" => t.file \in Data /\ t.readAt <= Len(t.file)

\* A call reads from the cursor on, moves the cursor behind what it has read
\* and says whether that was the end.
ReadFrom(u, r) ==
    \E c \in Nat :
       /\ c <= Len(Content(u)) /\ Cursor(u) \in Nat /\ Cursor(u) <= c
       /\ r.data = Span(Cursor(u), c)
       /\ r.rc = 1 => c = Cursor(r.tx)
       /\ r.rc = 0 => c = Len(Content(u))

Retrieved(u, r) ==
    /\ r.rc \in {0, 1} /\ r.data \in Data \cup {Null}
    /\ r.tx \in Transactions /\ SameBody(u, r.tx) /\ r.tx.ifStatus = u.ifStatus
    /\ r.tx.stream = u.stream /\ r.tx.streamChanged = u.streamChanged
    /\ r.tx.started = u.started /\ r.tx.fd = u.fd
    /\ r.rc = 1 => /\ Ready(r.tx)
                   /\ r.tx.storage = "memory" => HasChunk(r.tx, r.tx.position)
    /\ r.data = Null => r.rc = 0 /\ Len(Content(u)) = 0 /\ Cursor(u) = 0
    /\ r.data # Null /\ Content(u) = Span(0, Len(Content(u))) => ReadFrom(u, r)

LEMMA ChunkArithmetic ==
    ASSUME NEW p \in Nat \ {0}, NEW n \in Nat
    PROVE  /\ (p - 1) * n \in Nat /\ p * n \in Nat /\ (p + 1) * n \in Nat
           /\ p * n = (p - 1) * n + n /\ (p + 1) * n = p * n + n
           /\ ((p + 1) - 1) * n = p * n /\ (1 - 1) * n = 0 /\ 1 * n = n
<1>1. (p - 1) \in Nat /\ (p + 1) \in Nat /\ (p + 1) - 1 = p
  OBVIOUS
<1>2. (p - 1) * n \in Nat /\ p * n \in Nat /\ (p + 1) * n \in Nat
  BY <1>1
<1>3. p * n = (p - 1) * n + n /\ (p + 1) * n = p * n + n
  OBVIOUS
<1>4. QED
  BY <1>1, <1>2, <1>3

LEMMA ReadAtUpdate ==
    ASSUME NEW u \in Transactions, NEW k \in Nat, NEW t, t = [u EXCEPT !.readAt = k]
    PROVE  /\ t \in Transactions /\ SameBody(u, t) /\ t.ifStatus = u.ifStatus
           /\ t.stream = u.stream /\ t.streamChanged = u.streamChanged
           /\ t.started = u.started /\ t.fd = u.fd /\ t.readAt = k
<1>1. t \in Transactions
  BY DEF Transactions
<1>2. QED
  BY <1>1 DEF Transactions, SameBody

\* modsecurity_request_body_retrieve from the file.
LEMMA RetrieveDiskFacts ==
    ASSUME NEW u \in Transactions, u.storage = "disk", Ready(u), NEW n \in Nat \ {0},
           NEW r, r = RetrieveDisk(u, n)
    PROVE  Retrieved(u, r)
<1> DEFINE k == Minimum(n, ChunkCapacity)
           K == u.readAt
           F == Len(u.file)
           left == Rest(K, u.file)
           data == First(k, left)
<1>1. k \in Nat \ {0} /\ K \in Nat /\ F \in Nat /\ u.file \in Data /\ K <= F
  BY DataFacts, BodyBounds DEF Minimum, Ready, Transactions
<1>2. left \in Data /\ Len(left) = F - K
  <2>1. left \in Data /\ Len(left) = IF K <= F THEN F - K ELSE 0
    BY <1>1, RestType, Zenon DEF Data
  <2>2. QED
    BY <1>1, <2>1
<1>3. data \in Data /\ Len(data) = Minimum(k, F - K)
  <2> HIDE DEF left, k
  <2>1. k \in Nat
    BY <1>1
  <2>2. First(k, left) \in Data /\ Len(First(k, left)) = Minimum(k, Len(left))
    BY <1>2, <2>1, FirstType, Zenon DEF Data
  <2>3. QED
    BY <1>2, <2>2
<1>4. /\ r.data = data /\ r.tx = [u EXCEPT !.readAt = K + Len(data)]
      /\ r.rc = IF data = <<>> THEN 0 ELSE 1
  BY DEF RetrieveDisk
<1> HIDE DEF k, left, data, K, F
<1> DEFINE c == K + Len(data)
<1>5. c \in Nat /\ K <= c /\ c <= F /\ c = Minimum(K + k, F) /\ (Len(data) = 0 => c = F)
  BY <1>1, <1>3 DEF Minimum
<1>6. /\ r.tx \in Transactions /\ SameBody(u, r.tx) /\ r.tx.ifStatus = u.ifStatus
      /\ r.tx.stream = u.stream /\ r.tx.streamChanged = u.streamChanged
      /\ r.tx.started = u.started /\ r.tx.fd = u.fd /\ r.tx.readAt = c
  BY <1>4, <1>5, ReadAtUpdate
<1>7. data = <<>> => Len(data) = 0
  BY EmptySeq
<1>8. data # Null
  BY <1>3, DataFacts
<1>9. Content(u) = u.file /\ Cursor(u) = K /\ Cursor(r.tx) = c
  BY <1>6 DEF Content, Cursor, SameBody, K
<1> HIDE DEF c
<1>10. Content(u) = Span(0, Len(Content(u))) => ReadFrom(u, r)
  <2>1. SUFFICES ASSUME u.file = Span(0, F) PROVE ReadFrom(u, r)
    BY <1>9 DEF F
  <2>2. left = Span(K, F)
    <3>1. 0 \in Nat /\ 0 <= F /\ K \in 0..(F - 0) /\ 0 + K = K
      BY <1>1
    <3>2. Rest(K, Span(0, F)) = Span(0 + K, F)
      BY <1>1, <3>1, SpanRest, Zenon
    <3>3. QED
      BY <2>1, <3>1, <3>2, Zenon DEF left
  <2>3. data = Span(K, c)
    <3>1. k \in Nat
      BY <1>1
    <3>2. First(k, Span(K, F)) = Span(K, Minimum(K + k, F))
      BY <1>1, <3>1, SpanFirst, Zenon
    <3>3. QED
      BY <1>5, <2>2, <3>2, Zenon DEF data
  <2>4. r.rc = 0 => c = F
    BY <1>4, <1>5, <1>7
  <2>5. QED
    BY <1>1, <1>4, <1>5, <1>9, <2>3, <2>4 DEF ReadFrom, F
<1>11. Ready(r.tx)
  BY <1>1, <1>5, <1>6 DEF Ready, SameBody, F
<1>12. QED
  BY <1>3, <1>4, <1>6, <1>8, <1>10, <1>11 DEF Retrieved, SameBody

CursorMoved(u, p, k, t) ==
    /\ t \in Transactions /\ SameBody(u, t) /\ t.ifStatus = u.ifStatus
    /\ t.stream = u.stream /\ t.streamChanged = u.streamChanged
    /\ t.started = u.started /\ t.fd = u.fd
    /\ t.position = p /\ t.offset = k

LEMMA CursorUpdate ==
    ASSUME NEW u \in Transactions, NEW p \in Nat \ {0}, NEW k \in Nat
    PROVE  CursorMoved(u, p, k, [u EXCEPT !.position = p, !.offset = k])
<1>1. [u EXCEPT !.position = p, !.offset = k] \in Transactions
  BY DEF Transactions
<1>2. QED
  BY <1>1 DEF Transactions, SameBody, CursorMoved

\* modsecurity_request_body_retrieve from the chunks: the rest of a chunk or
\* a part of it, and on to the next chunk when it is used up.
LEMMA RetrieveMemoryFacts ==
    ASSUME NEW u \in Transactions, u.storage = "memory", Ready(u), NEW n \in Nat \ {0},
           NEW r, r = RetrieveMemory(u, n)
    PROVE  Retrieved(u, r)
<1> DEFINE p == u.position
           S == ChunkSize(u)
           C == Len(u.chunks)
           B == (p - 1) * S
           E == ChunkEnd(u)
           K == Cursor(u)
<1>1. /\ p \in Nat \ {0} /\ u.offset \in Nat /\ u.chunks \in Data /\ C \in Nat
      /\ S \in Nat
  BY DataFacts, BodyBounds DEF Ready, Transactions, ChunkSize
<1>2. /\ B \in Nat /\ p * S \in Nat /\ (p + 1) * S \in Nat
      /\ p * S = B + S /\ (p + 1) * S = p * S + S
      /\ ((p + 1) - 1) * S = p * S /\ (1 - 1) * S = 0 /\ 1 * S = S
  <2> HIDE DEF p, S
  <2>1. QED
    BY <1>1, ChunkArithmetic
<1>3. K = B + u.offset /\ E = Minimum(p * S, C)
  BY DEF Cursor, ChunkEnd
<1>4. Content(u) = u.chunks /\ u.chunks # Null
  BY <1>1, DataFacts DEF Content
<1>5. CASE ~HasChunk(u, u.position)
  <2>1. r.data = Null /\ r.tx = u /\ r.rc = 0
    BY <1>5 DEF RetrieveMemory
  <2>2. p = 1 /\ u.offset = 0
    BY <1>5 DEF Ready
  <2>3. C = 0
    <3>1. ~u.joined /\ ~((p - 1) * ChunkCapacity < C)
      BY <1>5, <2>2 DEF HasChunk
    <3>2. (p - 1) * ChunkCapacity = 0
      BY <2>2, BodyBounds
    <3>3. QED
      BY <1>1, <3>1, <3>2
  <2>4. K = 0
    <3>1. B = 0
      BY <1>2, <2>2
    <3>2. QED
      BY <1>3, <2>2, <3>1
  <2>5. SameBody(u, u)
    BY DEF SameBody
  <2>6. QED
    BY <1>4, <2>1, <2>3, <2>4, <2>5 DEF Retrieved
<1>6. CASE HasChunk(u, u.position)
  <2>1. K <= E
    BY <1>6 DEF Ready
  <2>2. /\ u.joined => p = 1 /\ S = C
        /\ ~u.joined => S = ChunkCapacity /\ B < C
    BY <1>6 DEF HasChunk, ChunkSize
  <2>3. u.joined => p * S = C
    <3>1. 1 * S = S
      BY <1>2
    <3>2. QED
      BY <2>2, <3>1
  <2>4. ~HasChunk(u, p + 1) => E = C
    <3>1. ~u.joined /\ ~HasChunk(u, p + 1) => ~(p * S < C)
      BY <1>2, <2>2 DEF HasChunk
    <3> HIDE DEF p, S, C, B, K, E
    <3>2. QED
      BY <1>1, <1>2, <1>3, <2>3, <3>1 DEF Minimum
  <2>5. HasChunk(u, p + 1) => ~u.joined /\ p * S < C
    BY <1>1, <1>2, <2>2, SMTT(30) DEF HasChunk
  <2> DEFINE chunk == Chunk(u, u.position)
             left == Rest(u.offset, chunk)
             all == Len(left) <= n
             q == IF all THEN p + 1 ELSE p
             o == IF all THEN 0 ELSE u.offset + n
             data == First(n, left)
  <2>6. /\ r.data = data /\ r.tx = [u EXCEPT !.position = q, !.offset = o]
        /\ r.rc = IF HasChunk(u, r.tx.position) THEN 1 ELSE 0
    BY <1>6 DEF RetrieveMemory
  <2>7. chunk = SubSeq(u.chunks, B + 1, E)
    BY DEF Chunk, ChunkEnd
  <2> HIDE DEF p, S, C, B, K, E
  <2>8. B \in Nat /\ E \in Nat /\ K \in Nat /\ B <= E /\ E <= C
    <3>1. p * S \in Nat /\ p * S >= B /\ C \in Nat /\ B \in Nat
      BY <1>1, <1>2
    <3>2. E \in Nat /\ E <= C
      BY <1>3, <3>1 DEF Minimum
    <3>3. QED
      BY <1>1, <1>3, <2>1, <3>1, <3>2
  <2>9. chunk \in Data /\ Len(chunk) = E - B
    <3>1. \A i \in (B + 1)..E : u.chunks[i] \in Nat
      <4>1. \A i \in 1..C : u.chunks[i] \in Nat
        BY <1>1, ElementOfSeq DEF Data, C
      <4>2. QED
        BY <1>1, <2>8, <4>1
    <3>2. /\ SubSeq(u.chunks, B + 1, E) \in Seq(Nat)
          /\ Len(SubSeq(u.chunks, B + 1, E)) = IF B + 1 <= E THEN E - (B + 1) + 1 ELSE 0
      BY <2>8, <3>1, SubSeqProperties
    <3> HIDE DEF chunk
    <3>3. QED
      BY <2>7, <2>8, <3>2 DEF Data
  <2> HIDE DEF chunk
  <2>10. left \in Data /\ Len(left) = E - K
    <3>1. /\ Rest(u.offset, chunk) \in Data
          /\ Len(Rest(u.offset, chunk)) = IF u.offset <= Len(chunk)
                                          THEN Len(chunk) - u.offset ELSE 0
      BY <1>1, <2>9, RestType, Zenon DEF Data
    <3>2. K = B + u.offset
      BY <1>3
    <3> HIDE DEF left
    <3>3. left \in Data /\ Len(left) = IF u.offset <= Len(chunk)
                                      THEN Len(chunk) - u.offset ELSE 0
      BY <3>1 DEF left
    <3>4. u.offset <= E - B /\ (E - B) - u.offset = E - K /\ Len(chunk) = E - B
      BY <1>1, <2>1, <2>8, <2>9, <3>2
    <3>5. QED
      BY <3>3, <3>4
  <2> HIDE DEF left
  <2>11. data \in Data /\ data # Null
    <3>1. data \in Data
      BY <2>10, FirstType DEF Data
    <3>2. QED
      BY <3>1, DataFacts
  <2> HIDE DEF data
  <2>12. q \in Nat \ {0} /\ o \in Nat
    BY <1>1
  <2>13. (all => E - K <= n) /\ (~all => ~(E - K <= n))
    BY <2>10
  <2> HIDE DEF all
  <2>14. /\ r.tx \in Transactions /\ SameBody(u, r.tx) /\ r.tx.ifStatus = u.ifStatus
         /\ r.tx.stream = u.stream /\ r.tx.streamChanged = u.streamChanged
         /\ r.tx.started = u.started /\ r.tx.fd = u.fd
         /\ r.tx.position = q /\ r.tx.offset = o
    <3> HIDE DEF q, o
    <3>1. r.tx = [u EXCEPT !.position = q, !.offset = o]
      BY <2>6
    <3>2. CursorMoved(u, q, o, [u EXCEPT !.position = q, !.offset = o])
      BY <2>12, CursorUpdate
    <3>3. CursorMoved(u, q, o, r.tx)
      BY <3>1, <3>2
    <3>4. QED
      BY <3>3 DEF CursorMoved
  <2>15. /\ ChunkSize(r.tx) = S /\ Cursor(r.tx) = (q - 1) * S + o
         /\ ChunkEnd(r.tx) = Minimum(q * S, C)
         /\ HasChunk(r.tx, q) = HasChunk(u, q)
    <3> HIDE DEF q, o
    <3>1. ChunkSize(r.tx) = S
      BY <2>14 DEF SameBody, ChunkSize, S
    <3>2. QED
      BY <2>14, <3>1 DEF SameBody, Cursor, ChunkEnd, HasChunk, C
  <2> DEFINE c == Minimum(K + n, E)
  <2>16. /\ c \in Nat /\ K <= c /\ c <= C
         /\ all => c = E
         /\ ~all => c = K + n /\ c <= E
    BY <1>1, <2>1, <2>8, <2>13 DEF Minimum
  <2> HIDE DEF c
  <2>17. /\ r.rc = 1 => /\ c = Cursor(r.tx) /\ Cursor(r.tx) <= ChunkEnd(r.tx)
                        /\ HasChunk(r.tx, r.tx.position)
         /\ r.rc = 0 => c = C
    <3>1. CASE all
      <4>1. q = p + 1 /\ o = 0
        BY <3>1
      <4>2. Cursor(r.tx) = p * S /\ ChunkEnd(r.tx) = Minimum((p + 1) * S, C)
        BY <1>2, <2>15, <4>1
      <4>3. r.rc = IF HasChunk(u, p + 1) THEN 1 ELSE 0
        BY <2>6, <2>14, <4>1
      <4>4. HasChunk(u, p + 1) => E = p * S /\ p * S <= Minimum((p + 1) * S, C)
        BY <1>1, <1>2, <1>3, <2>5 DEF Minimum
      <4>5. HasChunk(r.tx, r.tx.position) = HasChunk(u, p + 1)
        BY <2>14, <2>15, <4>1
      <4>6. QED
        BY <2>4, <2>16, <3>1, <4>2, <4>3, <4>4, <4>5
    <3>2. CASE ~all
      <4>1. q = p /\ o = u.offset + n
        BY <3>2
      <4>2. Cursor(r.tx) = K + n
        <5>1. Cursor(r.tx) = B + (u.offset + n)
          BY <2>15, <4>1 DEF B
        <5>2. QED
          BY <1>1, <1>2, <1>3, <5>1
      <4>3. ChunkEnd(r.tx) = E
        BY <1>3, <2>15, <4>1
      <4>4. r.rc = 1 /\ HasChunk(r.tx, r.tx.position)
        BY <1>6, <2>6, <2>14, <2>15, <4>1 DEF p
      <4>5. QED
        BY <2>16, <3>2, <4>2, <4>3, <4>4
    <3>3. QED
      BY <3>1, <3>2
  <2>18. u.chunks = Span(0, C) => data = Span(K, c)
    <3>1. SUFFICES ASSUME u.chunks = Span(0, C) PROVE data = Span(K, c)
      OBVIOUS
    <3>2. B \in Nat /\ E \in Nat /\ C \in Nat /\ B <= E /\ E <= C
      BY <1>1, <2>8
    <3>3. chunk = Span(B, E)
      <4>1. SubSeq(Span(0, C), B + 1, E) = Span(B, E)
        BY <3>2, SpanMiddle, Zenon
      <4>2. QED
        BY <2>7, <3>1, <4>1, Zenon
    <3>4. left = Span(K, E)
      <4>1. u.offset \in 0..(E - B)
        BY <1>1, <1>3, <2>1, <2>8
      <4>2. Rest(u.offset, Span(B, E)) = Span(B + u.offset, E)
        BY <2>8, <4>1, SpanRest, Zenon
      <4>3. QED
        BY <1>3, <3>3, <4>2, Zenon DEF left
    <3>5. QED
      <4>1. n \in Nat
        OBVIOUS
      <4>2. First(n, Span(K, E)) = Span(K, Minimum(K + n, E))
        BY <2>1, <2>8, <4>1, SpanFirst, Zenon
      <4>3. QED
        BY <3>4, <4>2, Zenon DEF data, c
  <2>19. Content(u) = Span(0, Len(Content(u))) => ReadFrom(u, r)
    BY <1>4, <2>6, <2>8, <2>16, <2>17, <2>18 DEF ReadFrom, K, C
  <2>20. r.rc = 1 => Ready(r.tx)
    BY <1>1, <2>14, <2>17 DEF Ready, SameBody
  <2>21. r.rc \in {0, 1}
    BY <2>6
  <2>22. QED
    BY <2>6, <2>11, <2>14, <2>17, <2>19, <2>20, <2>21 DEF Retrieved
<1>7. QED
  BY <1>5, <1>6

\* The cursor depends on the store and the position in it.
LEMMA SameCursor ==
    ASSUME NEW t, NEW u, SameBody(t, u), u.position = t.position, u.offset = t.offset,
           u.readAt = t.readAt
    PROVE  /\ Cursor(u) = Cursor(t) /\ ChunkEnd(u) = ChunkEnd(t)
           /\ HasChunk(u, u.position) = HasChunk(t, t.position)
           /\ Content(u) = Content(t)
<1>1. ChunkSize(u) = ChunkSize(t)
  BY DEF SameBody, ChunkSize
<1>2. Content(u) = Content(t)
  BY DEF SameBody, Content
<1>3. HasChunk(u, u.position) = HasChunk(t, t.position)
  BY DEF SameBody, HasChunk
<1>4. QED
  BY <1>1, <1>2, <1>3 DEF SameBody, Cursor, ChunkEnd

\* The filter takes the next piece out of the open store.
LEMMA RetrieveFacts ==
    ASSUME NEW u \in Transactions, Ready(u), NEW n \in Nat \ {0},
           NEW r \in Retrieve(u, n), r.rc >= 0
    PROVE  Retrieved(u, r)
<1>1. CASE u.storage = "memory"
  <2>1. r = RetrieveMemory(u, n)
    BY <1>1 DEF Retrieve
  <2>2. QED
    BY <1>1, <2>1, RetrieveMemoryFacts, Zenon
<1>2. CASE u.storage = "disk"
  <2>1. r \in {RetrieveDisk(u, n)} \cup {[data |-> Null, tx |-> u, rc |-> -1]}
    BY <1>2 DEF Retrieve
  <2>2. r = RetrieveDisk(u, n)
    BY <2>1
  <2>3. QED
    BY <1>2, <2>2, RetrieveDiskFacts, Zenon
<1>3. QED
  BY <1>1, <1>2 DEF Transactions

\* At the end of the store the filter closes it.
Closed(t, u) ==
    /\ u \in Transactions /\ SameBody(t, u) /\ u.stream = t.stream
    /\ u.streamChanged = t.streamChanged /\ u.started = t.started
    /\ u.position = t.position /\ u.offset = t.offset /\ u.readAt = t.readAt
    /\ u.ifStatus = "complete"
    /\ u.fd = (IF t.storage = "disk" THEN FALSE ELSE t.fd)

LEMMA CloseUpdate ==
    ASSUME NEW t \in Transactions, NEW u,
           u = [t EXCEPT !.ifStatus = "complete",
                         !.fd = IF t.storage = "disk" THEN FALSE ELSE @]
    PROVE  Closed(t, u)
<1> DEFINE f == IF t.storage = "disk" THEN FALSE ELSE t.fd
<1>1. f \in BOOLEAN
  BY DEF Transactions
<1>2. u = [t EXCEPT !.ifStatus = "complete", !.fd = f]
  BY DEF Transactions
<1> HIDE DEF f
<1>3. u \in Transactions
  BY <1>1, <1>2, ZenonT(60) DEF Transactions
<1>4. /\ SameBody(t, u) /\ u.stream = t.stream
      /\ u.streamChanged = t.streamChanged /\ u.started = t.started
      /\ u.position = t.position /\ u.offset = t.offset /\ u.readAt = t.readAt
      /\ u.ifStatus = "complete"
  BY <1>2 DEF Transactions, SameBody
<1>5. u.fd = f
  BY <1>1, <1>2 DEF Transactions
<1>6. QED
  BY <1>3, <1>4, <1>5 DEF Closed, f

LEMMA InputFilterStep ==
    ASSUME Inv, InputFilter
    PROVE  Inv'
<1>1. /\ TypeOK /\ BrigadeShape /\ StoreShape(tx) /\ StageShape /\ GotShape
      /\ pc = "handler" /\ ~gotEos /\ tx.ifStatus = "wants"
      /\ tx \in Transactions /\ got \in Data /\ body \in Data
      /\ UNCHANGED <<cfg, net, brigade, pc, status, body, lost>>
  BY DEF Inv, InputFilter, Reading, TypeOK
<1>2. StoredShape(tx) /\ ForwardShape(tx) /\ (tx.storage = "disk" => tx.filename)
  BY <1>1 DEF StageShape
<1>3. PICK n \in 1..MaxRead,
           s \in IF tx.started THEN {Result(tx, 1)} ELSE RetrieveStart(tx) :
         /\ s.rc > 0
         /\ \E r \in Retrieve(s.tx, n) :
              /\ r.rc >= 0
              /\ got' = got \o Delivered(r.tx, r.data)
              /\ gotEos' = (r.rc = 0 /\ tx.seenEos)
              /\ tx' = IF r.rc = 1 THEN AfterDelivery(r.tx, r.data)
                       ELSE [AfterDelivery(r.tx, r.data) EXCEPT !.ifStatus = "complete",
                               !.fd = IF AfterDelivery(r.tx, r.data).storage = "disk"
                                      THEN FALSE ELSE @]
  BY DEF InputFilter
<1> DEFINE u == s.tx
<1>4. n \in Nat \ {0}
  BY <1>3, BodyBounds
<1>5. Opened(tx, u) /\ StoreShape(u)
  <2>1. s.rc \in {1, -1} /\ (s.rc = 1 => Opened(tx, u)) /\ StoreShape(u)
    BY <1>1, <1>3, OpenFacts
  <2>2. QED
    BY <1>3, <2>1
<1>6. /\ Cursor(u) = Cursor(tx) /\ ChunkEnd(u) = ChunkEnd(tx)
      /\ HasChunk(u, u.position) = HasChunk(tx, tx.position)
      /\ Content(u) = Content(tx)
  BY <1>5, SameCursor DEF Opened
<1>7. Ready(u)
  <2>1. tx.storage = "memory" => tx.chunks \in Data
    BY <1>1, <1>2 DEF ForwardShape, StoreShape, Transactions
  <2>2. tx.storage = "memory" =>
           /\ HasChunk(tx, tx.position) => Cursor(tx) <= ChunkEnd(tx)
           /\ ~HasChunk(tx, tx.position) => tx.position = 1 /\ tx.offset = 0
    BY <1>1, <1>2 DEF ForwardShape
  <2>3. tx.storage = "disk" => tx.file \in Data /\ tx.readAt <= Len(tx.file)
    <3>1. tx.storage = "disk" => tx.file \in Data
      BY <1>5 DEF Opened, SameBody
    <3>2. tx.file \in Data => Len(tx.file) \in Nat
      BY DataFacts
    <3>3. QED
      BY <1>1, <1>2, <3>1, <3>2 DEF ForwardShape
  <2>4. QED
    BY <1>5, <1>6, <2>1, <2>2, <2>3 DEF Ready, Opened, SameBody
<1> HIDE DEF u
<1>8. PICK r \in Retrieve(u, n) :
         /\ r.rc >= 0
         /\ got' = got \o Delivered(r.tx, r.data)
         /\ gotEos' = (r.rc = 0 /\ tx.seenEos)
         /\ tx' = IF r.rc = 1 THEN AfterDelivery(r.tx, r.data)
                  ELSE [AfterDelivery(r.tx, r.data) EXCEPT !.ifStatus = "complete",
                          !.fd = IF AfterDelivery(r.tx, r.data).storage = "disk"
                                 THEN FALSE ELSE @]
  BY <1>3 DEF u
<1>9. Retrieved(u, r)
  BY <1>4, <1>5, <1>7, <1>8, RetrieveFacts DEF Opened
<1> DEFINE t == AfterDelivery(r.tx, r.data)
<1>10. Delivery(r.tx, got, r.data, t, got')
  <2>1. /\ r.tx \in Transactions /\ r.data \in Data \cup {Null}
        /\ r.tx.streamChanged => r.tx.stream = <<0>>
    BY <1>2, <1>5, <1>9 DEF Retrieved, Opened, StoredShape
  <2>2. got' = got \o Delivered(r.tx, r.data)
    BY <1>8
  <2> HIDE DEF t
  <2>3. t = AfterDelivery(r.tx, r.data)
    BY DEF t
  <2>4. QED
    BY <1>1, <2>1, <2>2, <2>3, DeliveryFacts, Zenon
<1>11. tx' = IF r.rc = 1 THEN t
             ELSE [t EXCEPT !.ifStatus = "complete",
                            !.fd = IF t.storage = "disk" THEN FALSE ELSE @]
  BY <1>8
<1> HIDE DEF t
<1>12. /\ t \in Transactions /\ SameBody(tx, t) /\ t.started /\ t.ifStatus = "wants"
       /\ t.position = r.tx.position /\ t.offset = r.tx.offset /\ t.readAt = r.tx.readAt
       /\ t.fd = u.fd
       /\ \/ t.stream = tx.stream /\ t.streamChanged = tx.streamChanged
          \/ t.stream = Null /\ ~t.streamChanged
  BY <1>1, <1>5, <1>9, <1>10 DEF Delivery, Retrieved, Opened, SameBody
<1>13. r.rc \in {0, 1}
  BY <1>9 DEF Retrieved
<1>14. /\ tx' \in Transactions /\ SameBody(tx, tx') /\ tx'.started
       /\ tx'.position = r.tx.position /\ tx'.offset = r.tx.offset
       /\ tx'.readAt = r.tx.readAt
       /\ tx'.stream = t.stream /\ tx'.streamChanged = t.streamChanged
       /\ r.rc = 1 => tx'.ifStatus = "wants" /\ tx'.fd = u.fd
       /\ r.rc = 0 => tx'.ifStatus = "complete"
       /\ r.rc = 0 => tx'.fd = (IF tx.storage = "disk" THEN FALSE ELSE u.fd)
  <2>1. CASE r.rc = 1
    BY <1>11, <1>12, <2>1
  <2>2. CASE r.rc = 0
    <3>1. /\ t \in Transactions
          /\ tx' = [t EXCEPT !.ifStatus = "complete",
                             !.fd = IF t.storage = "disk" THEN FALSE ELSE @]
      BY <1>11, <1>12, <2>2
    <3>a. Closed(t, tx')
      BY <3>1, CloseUpdate, Zenon
    <3>2. QED
      BY <1>12, <2>2, <3>a DEF Closed, SameBody
  <2>3. QED
    BY <1>13, <2>1, <2>2
<1>15. SameBody(r.tx, tx')
  BY <1>5, <1>9, <1>14 DEF SameBody, Retrieved, Opened
<1>16. /\ Cursor(tx') = Cursor(r.tx) /\ ChunkEnd(tx') = ChunkEnd(r.tx)
       /\ HasChunk(tx', tx'.position) = HasChunk(r.tx, r.tx.position)
  BY <1>14, <1>15, SameCursor
<1>17. /\ Cursor(tx)' = Cursor(tx') /\ ChunkEnd(tx)' = ChunkEnd(tx')
       /\ HasChunk(tx, tx.position)' = HasChunk(tx', tx'.position)
       /\ Content(tx)' = Content(tx)
  BY <1>14 DEF Cursor, ChunkEnd, ChunkSize, HasChunk, Content, SameBody
<1>18. (Rewritten => Rewritten') /\ (Rewritten' = (t.streamChanged \/ 0 \in ToSet(got')))
  <2>1. Rewritten' = (t.streamChanged \/ 0 \in ToSet(got'))
    BY <1>14 DEF Rewritten
  <2>2. r.tx.streamChanged = tx.streamChanged
    BY <1>5, <1>9 DEF Retrieved, Opened
  <2>3. QED
    BY <1>10, <2>1, <2>2 DEF Delivery, Rewritten
<1>19. /\ Len(body) \in Nat /\ tx.bodyLen \in Nat
       /\ ~lost => /\ net = Span(tx.bodyLen, Len(body)) /\ tx.bodyLen <= Len(body)
                   /\ Content(tx) = Span(0, tx.bodyLen)
  BY <1>1, <1>2, DataFacts DEF Transactions, ForwardShape, StoredShape
<1>20. ASSUME ~lost, ~Rewritten'
       PROVE  \E c \in Nat :
                /\ got' = Span(0, c) /\ c <= tx.bodyLen
                /\ r.rc = 1 => c = Cursor(r.tx)
                /\ r.rc = 0 => c = tx.bodyLen
  <2> DEFINE N == tx.bodyLen
             K == Cursor(u)
             d == IF r.data # Null THEN r.data
                  ELSE IF r.tx.stream # Null THEN r.tx.stream ELSE <<>>
  <2>1. got' = got \o d
    BY <1>10, <1>18, <1>20 DEF Delivery
  <2>2. ~Rewritten
    BY <1>18, <1>20
  <2>3. got = Span(0, Len(got)) /\ Len(got) = K
    BY <1>1, <1>2, <1>6, <1>20, <2>2 DEF GotShape, ForwardShape
  <2>4. N \in Nat /\ 0 \in Nat /\ 0 <= N
    BY <1>19
  <2>5. Content(u) = Span(0, N) /\ Len(Content(u)) = N
    <3>1. Len(Span(0, N)) = N
      BY <2>4 DEF Span
    <3>2. QED
      BY <1>6, <1>19, <1>20, <3>1
  <2>6. CASE r.data # Null
    <3>1. ReadFrom(u, r)
      BY <1>9, <2>5, <2>6 DEF Retrieved
    <3>2. PICK c \in Nat :
             /\ c <= N /\ K \in Nat /\ K <= c
             /\ r.data = Span(K, c)
             /\ r.rc = 1 => c = Cursor(r.tx)
             /\ r.rc = 0 => c = N
      BY <2>5, <3>1 DEF ReadFrom
    <3> HIDE DEF N, K, d
    <3>3. 0 \in Nat /\ 0 <= K
      BY <3>2
    <3>4. Span(0, K) \o Span(K, c) = Span(0, c)
      BY <3>2, <3>3, SpanConcat, Zenon
    <3>5. got' = Span(0, c)
      BY <2>1, <2>3, <2>6, <3>2, <3>4, Zenon DEF d
    <3>6. QED
      BY <3>2, <3>5 DEF N
  <2>7. CASE r.data = Null
    <3>1. r.rc = 0 /\ N = 0 /\ K = 0
      BY <1>9, <2>5, <2>7 DEF Retrieved
    <3>2. ~tx.streamChanged /\ tx.stream \in {Null, Span(0, N)}
      BY <1>2, <2>2 DEF StoredShape, Rewritten
    <3>3. r.tx.stream = tx.stream
      BY <1>5, <1>9 DEF Retrieved, Opened
    <3>4. Span(0, 0) = <<>>
      BY NothingGot
    <3>5. d = <<>>
      BY <2>7, <3>1, <3>2, <3>3, <3>4
    <3> HIDE DEF d, N, K
    <3>6. got = Span(0, 0)
      BY <2>3, <3>1, Zenon
    <3>7. got \o <<>> = got
      BY <1>1, DataFacts
    <3>8. got' = Span(0, 0)
      BY <2>1, <3>5, <3>6, <3>7, Zenon
    <3>9. QED
      BY <3>1, <3>8 DEF N
  <2>8. QED
    BY <2>6, <2>7
<1>21. ASSUME ~lost, ~Rewritten'
       PROVE  /\ got' = Span(0, Len(got')) /\ Len(got') \in Nat /\ Len(got') <= tx.bodyLen
              /\ r.rc = 1 => Len(got') = Cursor(r.tx)
              /\ r.rc = 0 => Len(got') = tx.bodyLen
  <2>1. PICK c \in Nat :
           /\ got' = Span(0, c) /\ c <= tx.bodyLen
           /\ r.rc = 1 => c = Cursor(r.tx)
           /\ r.rc = 0 => c = tx.bodyLen
    BY <1>20, <1>21
  <2>2. Len(got') = c
    BY <2>1, SpanType
  <2>3. QED
    BY <2>1, <2>2
<1>22. TypeOK'
  BY <1>1, <1>8, <1>10, <1>14 DEF TypeOK, Delivery
<1>23. BrigadeShape'
  BY <1>1 DEF BrigadeShape
<1>24. StoreShape(tx)'
  <2>1. InChunks(tx)' = InChunks(u) /\ cfg' = cfg
    BY <1>1, <1>5, <1>14 DEF InChunks, SameBody, Opened
  <2>2. tx'.storage = "memory" => tx'.fd = u.fd
    BY <1>13, <1>14 DEF SameBody
  <2>3. tx'.fd => u.fd
    BY <1>13, <1>14
  <2>4. QED
    BY <1>5, <1>14, <2>1, <2>2, <2>3 DEF StoreShape, SameBody, Opened
<1>25. StageShape'
  <2>1. StoredShape(tx)'
    <3>1. Rejecting(cfg)' = Rejecting(cfg)
      BY <1>1 DEF Rejecting
    <3>2. /\ ~tx'.streamChanged => tx'.stream \in {Null, Span(0, tx'.bodyLen)}
          /\ tx'.streamChanged => tx'.stream = <<0>>
      BY <1>2, <1>12, <1>14 DEF StoredShape, SameBody
    <3>3. QED
      BY <1>1, <1>2, <1>14, <1>17, <3>1, <3>2 DEF StoredShape, SameBody
  <2>2. ForwardShape(tx)'
    <3>1. /\ tx'.isRead /\ (tx'.storage = "memory" => tx'.chunks # Null) /\ tx'.finished
          /\ tx'.seenEos => tx'.bodyLen = Len(body) /\ net = <<>>
      BY <1>2, <1>14 DEF ForwardShape, SameBody
    <3>2. ASSUME tx'.ifStatus = "wants"
          PROVE  /\ ~lost /\ ~Rewritten' => Len(got') = Cursor(tx')
                 /\ tx'.storage = "memory" =>
                      HasChunk(tx', tx'.position) /\ Cursor(tx') <= ChunkEnd(tx')
                 /\ tx'.storage = "disk" => tx'.fd /\ tx'.readAt <= Len(tx'.file)
      <4>1. r.rc = 1
        BY <1>13, <1>14, <3>2
      <4>2. Ready(r.tx) /\ (r.tx.storage = "memory" => HasChunk(r.tx, r.tx.position))
        BY <1>9, <4>1 DEF Retrieved
      <4>3. tx'.storage = "disk" => tx'.fd
        BY <1>5, <1>14, <4>1 DEF Opened, SameBody
      <4>4. QED
        BY <1>14, <1>15, <1>16, <1>21, <4>1, <4>2, <4>3 DEF Ready, SameBody
    <3>3. tx'.bodyLen = tx.bodyLen
      BY <1>14 DEF SameBody
    <3>4. QED
      BY <1>1, <1>14, <1>17, <1>19, <3>1, <3>2, <3>3 DEF ForwardShape
  <2>3. tx'.storage = "disk" => tx'.filename
    BY <1>2, <1>14 DEF SameBody
  <2>4. tx'.ifStatus # "none"
    BY <1>13, <1>14
  <2>5. QED
    BY <1>1, <2>1, <2>2, <2>3, <2>4 DEF StageShape
<1>26. GotShape'
  <2>1. ~(Rejecting(cfg) /\ lost)
    BY <1>1 DEF GotShape
  <2>2. Rejecting(cfg)' = Rejecting(cfg)
    BY <1>1 DEF Rejecting
  <2>3. gotEos' => r.rc = 0 /\ tx.seenEos
    BY <1>8
  <2>4. tx.seenEos => tx.bodyLen = Len(body)
    BY <1>2 DEF ForwardShape
  <2>5. tx'.ifStatus # "wants" => r.rc = 0
    BY <1>13, <1>14
  <2>6. ASSUME ~lost, ~Rewritten'
        PROVE  /\ got' = Span(0, Len(got')) /\ Len(got') <= Len(body)
               /\ gotEos' => Len(got') = Len(body)
               /\ tx'.ifStatus # "wants" => net = Span(Len(got'), Len(body))
    <3>1. /\ got' = Span(0, Len(got')) /\ Len(got') \in Nat /\ Len(got') <= tx.bodyLen
          /\ r.rc = 0 => Len(got') = tx.bodyLen
      BY <1>21, <2>6
    <3>2. net = Span(tx.bodyLen, Len(body)) /\ tx.bodyLen <= Len(body)
      BY <1>19, <2>6
    <3>3. Len(got') <= Len(body)
      BY <1>19, <3>1, <3>2
    <3>4. QED
      BY <2>3, <2>4, <2>5, <3>1, <3>2, <3>3
  <2>7. QED
    BY <1>1, <2>1, <2>2, <2>6 DEF GotShape
<1>27. TemporaryFileGone'
  BY <1>1 DEF TemporaryFileGone
<1>28. QED
  BY <1>22, <1>23, <1>24, <1>25, <1>26, <1>27 DEF Inv

-----------------------------------------------------------------------------
(* The theorems.                                                           *)

LEMMA NextInv ==
    ASSUME Inv, [Next]_vars
    PROVE  Inv'
<1>1. CASE UNCHANGED vars
  BY <1>1, StutterStep
<1>2. CASE Next
  BY <1>2, NoAccessStep, RefuseLengthStep, StartStep, GetBrigadeStep, GetBrigadeFailsStep,
     ReadBucketStep, ReadEosStep, FinishReadingStep, Phase2Step, PassThroughStep,
     InputFilterStep, InputFilterFailsStep, HandlerDoneStep, CleanupStep, StutterStep
     DEF Next, Done
<1>3. QED
  BY <1>1, <1>2

LEMMA InvCorrect == Spec => []Inv
<1>1. Init => Inv
  BY InitInv
<1>2. Inv /\ [Next]_vars => Inv'
  BY NextInv
<1>3. QED
  BY <1>1, <1>2, PTL DEF Spec

\* The fields of a transaction and what lies on the way of a body have their
\* types in every reachable state.
THEOREM TypeCorrect == Spec => []TypeOK
<1>1. Inv => TypeOK
  BY DEF Inv
<1>2. QED
  BY <1>1, InvCorrect, PTL

\* Whatever the sizes of bodies, brigades, chunks and reads: what the content
\* handler reads to its end is the body the client sent, unless a read or a
\* store has failed or a rule has rewritten the stream.
THEOREM ForwardedWholeCorrect == Spec => []ForwardedWhole
<1>1. Inv => ForwardedWhole
  <2>1. SUFFICES ASSUME Inv, gotEos, ~lost, ~Rewritten
                 PROVE  got = body
    BY DEF ForwardedWhole
  <2>2. got = Span(0, Len(got)) /\ Len(got) = Len(body) /\ body = Span(0, Len(body))
    BY <2>1 DEF Inv, GotShape, BrigadeShape
  <2>3. QED
    BY <2>2, Zenon
<1>2. QED
  BY <1>1, InvCorrect, PTL

\* In blocking mode what the handler has received is a beginning of what the
\* client sent, whatever fails on the way.
THEOREM NoHoleCorrect == Spec => []NoHole
<1>1. Inv => NoHole
  <2>1. SUFFICES ASSUME Inv, Rejecting(cfg), ~Rewritten
                 PROVE  IsPrefix(got, body)
    BY DEF NoHole
  <2>2. got \in Data /\ body \in Data /\ lost \in BOOLEAN
    BY <2>1 DEF Inv, TypeOK
  <2>3. Len(got) \in Nat /\ Len(body) \in Nat
    BY <2>2, DataFacts
  <2>4. \/ got = <<>>
        \/ got = Span(0, Len(got)) /\ Len(got) <= Len(body) /\ body = Span(0, Len(body))
    BY <2>1, <2>2 DEF Inv, GotShape, BrigadeShape
  <2>5. Len(got) <= Len(body) /\ \A i \in 1..Len(got) : got[i] = body[i]
    <3>1. CASE got = <<>>
      BY <2>3, <3>1, EmptySeq
    <3>2. CASE got # <<>>
      <4> DEFINE G == Len(got)
                 L == Len(body)
      <4>1. G \in Nat /\ L \in Nat /\ got = Span(0, G) /\ G <= L /\ body = Span(0, L)
        BY <2>3, <2>4, <3>2
      <4> HIDE DEF G, L
      <4>2. \A i \in 1..G : Span(0, G)[i] = 0 + i /\ Span(0, L)[i] = 0 + i
        BY <4>1 DEF Span
      <4>3. QED
        BY <4>1, <4>2 DEF G, L
    <3>3. QED
      BY <3>1, <3>2
  <2>6. QED
    BY <2>5 DEF IsPrefix
<1>2. QED
  BY <1>1, InvCorrect, PTL

\* In blocking mode a request that is let through has kept to the limits of
\* the body, and the store in memory keeps to its own limit in every mode.
THEOREM LimitsHoldCorrect == Spec => []LimitsHold
<1>1. Inv => LimitsHold
  <2>1. ASSUME Inv, pc = "handler", Rejecting(cfg), tx.isRead
        PROVE  /\ Consumed <= cfg.bodyLimit
               /\ tx.processor = "URLENCODED" /\ Consumed > 0 => Consumed < cfg.noFilesLimit
    <3>1. StoredShape(tx) /\ ForwardShape(tx)
      BY <2>1 DEF Inv, StageShape
    <3>2. tx.bodyLen = Len(body) /\ net = <<>>
      BY <2>1, <3>1 DEF StoredShape, ForwardShape
    <3>3. tx.bodyLen \in Nat /\ Len(net) = 0
      BY <2>1, <3>2, EmptySeq DEF Inv, TypeOK, Transactions
    <3>4. Consumed = tx.bodyLen
      BY <3>2, <3>3 DEF Consumed
    <3>5. QED
      BY <2>1, <3>1, <3>3, <3>4 DEF StoredShape
  <2>2. Inv => (tx.spill /\ ~cfg.buffering /\ tx.storage = "memory" =>
                  Len(InChunks(tx)) <= cfg.memLimit)
    BY DEF Inv, StoreShape
  <2>3. QED
    BY <2>1, <2>2 DEF LimitsHold
<1>2. QED
  BY <1>1, InvCorrect, PTL

\* When the transaction is over the temporary file is closed and gone.
THEOREM TemporaryFileGoneCorrect == Spec => []TemporaryFileGone
<1>1. Inv => TemporaryFileGone
  BY DEF Inv
<1>2. QED
  BY <1>1, InvCorrect, PTL
=============================================================================
