------------------------- MODULE MlogcReceiveSafety -------------------------
(***************************************************************************)
(* receive_loop delivers whole events in order and drops nothing that the  *)
(* buffer has room for, for every size of the buffer, any number and       *)
(* length of events and every way the pipe cuts them, provided that the    *)
(* buffer does not begin with old contents.                                *)
(***************************************************************************)
EXTENDS MlogcReceive, TLAPS

Bytes == Nat \X Nat

TypeOK ==
    /\ lens \in Seq(Nat)
    /\ input \in Seq(Bytes)
    /\ buf \in [0..PIPE_BUF_SIZE -> Bytes]
    /\ evnt \in Nat /\ curr \in Nat /\ next \in Nat
    /\ done \in BOOLEAN /\ drop_next \in BOOLEAN
    /\ buffered_events \in Nat
    /\ queued \in Seq(Seq(Bytes))
    /\ pc \in {"top", "search", "settle", "end"}

\* The bytes from the start of the current event on, in the buffer and in the
\* pipe.
Unread ==
    [k \in 1 .. next - evnt + Len(input) |->
       IF k <= next - evnt THEN buf[evnt + k - 1] ELSE input[k - (next - evnt)]]

\* The event that the next unread byte belongs to.
Current == IF Len(Unread) = 0 THEN Len(lens) + 1 ELSE Unread[1][1]

\* Byte p of event i, the place of a byte in its event, and the position in d
\* of the end of the event that byte k belongs to.
Byte(ls, i, p) == <<i, IF p <= ls[i] THEN p ELSE EOL>>
Place(ls, byte) == IF IsEol(byte) THEN ls[byte[1]] + 1 ELSE byte[2]
EndOf(ls, d, k) == k + ls[d[k][1]] + 1 - Place(ls, d[k])

\* ls are the lengths of events.
Lengths(ls) == Len(ls) \in Nat /\ \A i \in 1..Len(ls) : ls[i] \in Nat

\* d is what is left of events of lengths ls, up to the last one.
IsStream(ls, d) ==
    \A k \in 1..Len(d) :
        /\ d[k] \in Bytes
        /\ d[k][1] \in 1..Len(ls) /\ d[k][2] <= ls[d[k][1]]
        /\ EndOf(ls, d, k) <= Len(d)
        /\ \A m \in k..EndOf(ls, d, k) :
              d[m] = Byte(ls, d[k][1], Place(ls, d[k]) + m - k)
        /\ IsEol(d[k]) =>
              IF k = Len(d) THEN d[k][1] = Len(ls)
                            ELSE d[k + 1] = Byte(ls, d[k][1] + 1, 1)

\* The indexes are ordered; what was searched is marked by curr, and there is
\* no end of line outside what is still to be searched.
BufferShape ==
    /\ evnt <= curr /\ curr <= next /\ next <= PIPE_BUF_SIZE
    /\ \A k \in 0..PIPE_BUF_SIZE :
          k \in curr .. next - 1 \/ ~IsEol(buf[k])
    /\ pc # "search" => curr = next
    /\ pc = "top" /\ buffered_events > 0 => evnt = 0
    /\ pc = "end" => done
    /\ done => input = <<>>

\* Unless the event is being dropped, its beginning is still there.
StreamShape ==
    /\ IsStream(lens, Unread)
    /\ ~drop_next /\ Len(Unread) > 0 => Place(lens, Unread[1]) = 1

\* What was queued are events before the current one.
QueuedShape ==
    \E f \in [DOMAIN queued -> 1..Len(lens)] :
        /\ \A k \in DOMAIN queued : queued[k] = Event(f[k]) /\ f[k] < Current
        /\ \A k, m \in DOMAIN queued : k < m => f[k] < f[m]

\* One event up to the current one was too large, and nothing was queued since.
Gap ==
    \E j \in 1..Len(lens) :
        /\ j <= Current /\ Oversized(j)
        /\ \A m \in j .. Current - 1 : Missing(m)

\* Every missing event is explained; and an event is only dropped, or left
\* where it is behind a dropped one, in a gap.
MissingShape ==
    /\ \A i \in 1 .. Current - 1 :
          lens[i] > 0 /\ Missing(i) => AfterOversized(i)
    /\ drop_next \/ (evnt > 0 /\ buffered_events = 0) => Gap

Inv == TypeOK /\ BufferShape /\ StreamShape /\ QueuedShape /\ MissingShape

-----------------------------------------------------------------------------
(* Streams.                                                                *)

\* t is d without its first n elements.
IsTail(t, d, n) ==
    /\ Len(t) = Len(d) - n
    /\ \A k \in 1..Len(t) : t[k] = d[n + k]

\* l and t are ls and d with another event, of length n.
IsProlonged(l, t, ls, d, n) ==
    /\ Len(l) = Len(ls) + 1
    /\ l[Len(ls) + 1] = n
    /\ \A j \in 1..Len(ls) : l[j] = ls[j]
    /\ Len(t) = Len(d) + n + 1
    /\ \A k \in 1..Len(d) : t[k] = d[k]
    /\ \A p \in 1 .. n + 1 :
          t[Len(d) + p] = <<Len(ls) + 1, IF p <= n THEN p ELSE EOL>>

\* A byte of a stream has a place in its event.
LEMMA PlaceType ==
    ASSUME NEW ls, Lengths(ls), NEW d, Len(d) \in Nat, IsStream(ls, d),
           NEW k \in 1..Len(d)
    PROVE  /\ d[k] \in Bytes /\ d[k][1] \in Nat /\ d[k][2] \in Nat
           /\ d[k][1] \in 1..Len(ls) /\ ls[d[k][1]] \in Nat
           /\ d[k][2] <= ls[d[k][1]]
           /\ Place(ls, d[k]) \in 1 .. ls[d[k][1]] + 1
<1>1. d[k] \in Bytes /\ d[k][1] \in Nat /\ d[k][2] \in Nat
  BY DEF Bytes, IsStream
<1>2. d[k][1] \in 1..Len(ls) /\ d[k][2] <= ls[d[k][1]]
  BY DEF IsStream
<1>3. ls[d[k][1]] \in Nat
  BY <1>2 DEF Lengths
<1>4. Place(ls, d[k]) \in 1 .. ls[d[k][1]] + 1
  BY <1>1, <1>2, <1>3 DEF Place, IsEol, EOL
<1>5. QED
  BY <1>1, <1>2, <1>3, <1>4

\* The event of a byte of a stream ends in the stream.
LEMMA EndType ==
    ASSUME NEW ls, Lengths(ls), NEW d, Len(d) \in Nat, IsStream(ls, d),
           NEW k \in 1..Len(d)
    PROVE  /\ EndOf(ls, d, k) \in k..Len(d)
           /\ d[EndOf(ls, d, k)] = <<d[k][1], EOL>>
<1>1. ls[d[k][1]] \in Nat /\ Place(ls, d[k]) \in 1 .. ls[d[k][1]] + 1
  BY PlaceType
<1>2. EndOf(ls, d, k) \in k..Len(d)
  <2>1. EndOf(ls, d, k) <= Len(d)
    BY DEF IsStream
  <2>2. EndOf(ls, d, k) \in Int /\ EndOf(ls, d, k) >= k
    BY <1>1 DEF EndOf
  <2>3. QED
    BY <2>1, <2>2
<1>3. d[EndOf(ls, d, k)] = Byte(ls, d[k][1], Place(ls, d[k]) + EndOf(ls, d, k) - k)
  BY <1>2 DEF IsStream
<1>4. Place(ls, d[k]) + EndOf(ls, d, k) - k = ls[d[k][1]] + 1
  BY <1>1 DEF EndOf
<1>5. d[EndOf(ls, d, k)] = <<d[k][1], EOL>>
  BY <1>1, <1>3, <1>4 DEF Byte
<1>6. QED
  BY <1>2, <1>5

\* What is left of a stream is a stream.
LEMMA TailStream ==
    ASSUME NEW ls, Lengths(ls), NEW d, Len(d) \in Nat, IsStream(ls, d),
           NEW n \in 0..Len(d), NEW t, IsTail(t, d, n)
    PROVE  IsStream(ls, t)
<1>1. /\ n \in Nat /\ Len(d) \in Nat /\ Len(t) \in Nat /\ Len(t) = Len(d) - n
      /\ \A k \in 1..Len(t) : t[k] = d[n + k]
  BY DEF IsTail
<1>2. SUFFICES ASSUME NEW k \in 1..Len(t)
      PROVE  /\ t[k] \in Bytes
             /\ t[k][1] \in 1..Len(ls) /\ t[k][2] <= ls[t[k][1]]
             /\ EndOf(ls, t, k) <= Len(t)
             /\ \A m \in k..EndOf(ls, t, k) :
                  t[m] = Byte(ls, t[k][1], Place(ls, t[k]) + m - k)
             /\ IsEol(t[k]) =>
                  IF k = Len(t) THEN t[k][1] = Len(ls)
                                ELSE t[k + 1] = Byte(ls, t[k][1] + 1, 1)
  BY Zenon DEF IsStream
<1>3. /\ n + k \in 1..Len(d) /\ t[k] = d[n + k]
      /\ n \in Nat /\ k \in Nat /\ Len(d) \in Nat /\ Len(t) \in Nat
      /\ k # Len(t) => t[k + 1] = d[(n + k) + 1] /\ n + k # Len(d)
  <2>1. n \in Nat /\ k \in Nat /\ Len(d) \in Nat /\ Len(t) \in Nat
    BY <1>1
  <2>2. n + k \in 1..Len(d) /\ t[k] = d[n + k]
    BY <1>1
  <2>3. ASSUME k # Len(t) PROVE t[k + 1] = d[n + (k + 1)] /\ n + k # Len(d)
    <3>1. k + 1 \in 1..Len(t) /\ n + k # Len(d)
      <4>1. k <= Len(t) /\ Len(t) = Len(d) - n
        BY <1>1
      <4>2. QED
        BY <2>1, <2>3, <4>1
    <3>2. QED
      BY <1>1, <3>1
  <2>4. n + (k + 1) = (n + k) + 1
    BY <2>1
  <2>5. QED
    BY <2>1, <2>2, <2>3, <2>4
<1>4. t[k] \in Bytes
      /\ t[k][1] \in 1..Len(ls) /\ t[k][2] <= ls[t[k][1]] /\ ls[t[k][1]] \in Nat
      /\ Place(ls, t[k]) \in 1 .. ls[t[k][1]] + 1
  BY <1>3, PlaceType
<1>5. EndOf(ls, d, n + k) = n + EndOf(ls, t, k) /\ EndOf(ls, t, k) \in k..Len(t)
  <2>0. /\ EndOf(ls, t, k) = k + ls[t[k][1]] + 1 - Place(ls, t[k])
        /\ EndOf(ls, d, n + k) = (n + k) + ls[t[k][1]] + 1 - Place(ls, t[k])
    BY <1>3, Zenon DEF EndOf
  <2>5. ls[t[k][1]] \in Nat /\ Place(ls, t[k]) \in 1 .. ls[t[k][1]] + 1
    BY <1>4
  <2>6. n \in Nat /\ k \in Nat
    BY <1>3
  <2>1. EndOf(ls, d, n + k) = n + EndOf(ls, t, k)
    BY <2>0, <2>5, <2>6, SMTT(30)
  <2>2. EndOf(ls, d, n + k) <= Len(d)
    BY <1>3 DEF IsStream
  <2>3. EndOf(ls, t, k) \in Int /\ EndOf(ls, t, k) >= k
    BY <2>0, <2>5, <2>6, SMTT(30)
  <2>4. QED
    BY <1>1, <2>1, <2>2, <2>3
<1>6. ASSUME NEW m \in k..EndOf(ls, t, k)
      PROVE  t[m] = Byte(ls, t[k][1], Place(ls, t[k]) + m - k)
  <2>1. n + m \in (n + k)..EndOf(ls, d, n + k) /\ t[m] = d[n + m]
    BY <1>1, <1>5
  <2>2. d[n + m] = Byte(ls, d[n + k][1], Place(ls, d[n + k]) + (n + m) - (n + k))
    BY <1>3, <2>1 DEF IsStream
  <2>3. Place(ls, t[k]) + (n + m) - (n + k) = Place(ls, t[k]) + m - k
    BY <1>4
  <2>4. QED
    BY <1>3, <2>1, <2>2, <2>3
<1>7. IsEol(t[k]) => IF k = Len(t) THEN t[k][1] = Len(ls)
                                   ELSE t[k + 1] = Byte(ls, t[k][1] + 1, 1)
  <2>1. CASE k = Len(t)
    <3>1. n + k = Len(d)
      BY <1>1, <2>1
    <3>2. QED
      BY <1>3, <2>1, <3>1 DEF IsStream
  <2>2. CASE k # Len(t)
    <3>1. t[k + 1] = d[(n + k) + 1] /\ n + k # Len(d)
      BY <1>3, <2>2
    <3>2. QED
      BY <1>3, <2>2, <3>1 DEF IsStream
  <2>3. QED
    BY <2>1, <2>2
<1>8. QED
  BY <1>4, <1>5, <1>6, <1>7

\* An event that is written prolongs the stream.
LEMMA SendStream ==
    ASSUME NEW ls, Lengths(ls), NEW d, Len(d) \in Nat, IsStream(ls, d),
           NEW n \in Nat, NEW l, NEW t, IsProlonged(l, t, ls, d, n)
    PROVE  IsStream(l, t)
<1> DEFINE i == Len(ls) + 1
<1>1. /\ i \in Nat /\ Len(ls) \in Nat /\ Len(l) = i /\ l[i] = n
      /\ \A j \in 1..Len(ls) : l[j] = ls[j]
  BY DEF Lengths, IsProlonged
<1>2. /\ Len(t) \in Nat
      /\ \A p \in 1 .. n + 1 :
            t[Len(d) + p] = <<i, IF p <= n THEN p ELSE EOL>>
  BY DEF IsProlonged
<1>3. /\ Len(t) = Len(d) + n + 1
      /\ \A k \in 1..Len(d) : t[k] = d[k]
  BY DEF IsProlonged
<1>0. i = Len(ls) + 1
  OBVIOUS
<1> HIDE DEF i
<1>4. SUFFICES ASSUME NEW k \in 1..Len(t)
      PROVE  /\ t[k] \in Bytes
             /\ t[k][1] \in 1..Len(l) /\ t[k][2] <= l[t[k][1]]
             /\ EndOf(l, t, k) <= Len(t)
             /\ \A m \in k..EndOf(l, t, k) :
                  t[m] = Byte(l, t[k][1], Place(l, t[k]) + m - k)
             /\ IsEol(t[k]) =>
                  IF k = Len(t) THEN t[k][1] = Len(l)
                                ELSE t[k + 1] = Byte(l, t[k][1] + 1, 1)
  BY Zenon DEF IsStream
<1>5. CASE k \in 1..Len(d)
  <2>1. t[k] = d[k] /\ d[k] \in Bytes /\ d[k][1] \in 1..Len(ls)
        /\ d[k][2] \in Nat /\ d[k][2] <= ls[d[k][1]] /\ ls[d[k][1]] \in Nat
        /\ Place(ls, d[k]) \in 1 .. ls[d[k][1]] + 1
        /\ EndOf(ls, d, k) \in k..Len(d)
    BY <1>3, <1>5, PlaceType, EndType
  <2>2. l[d[k][1]] = ls[d[k][1]] /\ d[k][1] \in 1..Len(l)
    BY <1>0, <1>1, <2>1
  <2>3. Place(l, t[k]) = Place(ls, d[k]) /\ EndOf(l, t, k) = EndOf(ls, d, k)
    BY <2>1, <2>2 DEF Place, EndOf
  <2>4. ASSUME NEW m \in k..EndOf(l, t, k)
        PROVE  t[m] = Byte(l, t[k][1], Place(l, t[k]) + m - k)
    <3>1. m \in k..EndOf(ls, d, k) /\ m \in 1..Len(d) /\ t[m] = d[m]
      BY <1>3, <2>1, <2>3
    <3>2. d[m] = Byte(ls, d[k][1], Place(ls, d[k]) + m - k)
      BY <1>5, <3>1 DEF IsStream
    <3>3. QED
      BY <2>1, <2>2, <2>3, <3>1, <3>2 DEF Byte
  <2>5. ASSUME IsEol(t[k])
        PROVE  IF k = Len(t) THEN t[k][1] = Len(l)
                             ELSE t[k + 1] = Byte(l, t[k][1] + 1, 1)
    <3>1. k # Len(t) /\ IsEol(d[k])
      BY <1>3, <1>5, <2>1, <2>5
    <3>2. CASE k = Len(d)
      <4>1. d[k][1] = Len(ls)
        BY <1>5, <3>1, <3>2 DEF IsStream
      <4>2. 1 \in 1 .. n + 1
        OBVIOUS
      <4>3. t[k + 1] = <<i, IF 1 <= n THEN 1 ELSE EOL>>
        BY <1>2, <3>2, <4>2
      <4>4. QED
        BY <1>0, <1>1, <2>1, <3>1, <4>1, <4>2, <4>3 DEF Byte
    <3>3. CASE k # Len(d)
      <4>1. d[k + 1] = Byte(ls, d[k][1] + 1, 1) /\ k + 1 \in 1..Len(d)
        BY <1>5, <3>1, <3>3 DEF IsStream
      <4>2. d[k][1] + 1 \in 1..Len(ls)
        <5>1. d[k + 1][1] = d[k][1] + 1
          BY <4>1 DEF Byte
        <5>2. QED
          BY <4>1, <5>1, PlaceType
      <4>3. l[d[k][1] + 1] = ls[d[k][1] + 1] /\ t[k + 1] = d[k + 1]
        BY <1>1, <1>3, <4>1, <4>2
      <4>4. QED
        BY <2>1, <3>1, <4>1, <4>3 DEF Byte
    <3>4. QED
      BY <3>2, <3>3
  <2>6. QED
    BY <1>3, <2>1, <2>2, <2>3, <2>4, <2>5
<1>6. CASE k \notin 1..Len(d)
  <2>1. PICK p \in 1 .. n + 1 : k = Len(d) + p
    <3>1. k - Len(d) \in 1 .. n + 1 /\ k = Len(d) + (k - Len(d))
      BY <1>3, <1>6
    <3>2. QED
      BY <3>1
  <2>2. t[k] = <<i, IF p <= n THEN p ELSE EOL>>
    BY <1>2, <2>1
  <2>3. t[k] \in Bytes /\ t[k][1] = i /\ t[k][2] \in Nat /\ t[k][2] <= n /\ (IsEol(t[k]) <=> p = n + 1)
    BY <1>1, <2>1, <2>2 DEF IsEol, EOL, Bytes
  <2>4. Place(l, t[k]) = p /\ EndOf(l, t, k) = Len(t)
    <3>1. Place(l, t[k]) = p
      BY <1>1, <2>1, <2>2, <2>3 DEF Place
    <3>2. EndOf(l, t, k) = k + n + 1 - p
      BY <1>1, <2>3, <3>1 DEF EndOf
    <3>3. QED
      BY <1>3, <2>1, <3>1, <3>2
  <2>5. ASSUME NEW m \in k..EndOf(l, t, k)
        PROVE  t[m] = Byte(l, t[k][1], Place(l, t[k]) + m - k)
    <3>1. m - Len(d) \in 1 .. n + 1 /\ m = Len(d) + (m - Len(d))
      BY <1>3, <2>1, <2>4
    <3>2. t[m] = <<i, IF m - Len(d) <= n THEN m - Len(d) ELSE EOL>>
      BY <1>2, <3>1
    <3>3. p + m - k = m - Len(d)
      BY <2>1, <3>1
    <3>4. QED
      BY <1>1, <2>3, <2>4, <3>2, <3>3 DEF Byte
  <2>6. QED
    <3>1. t[k][1] \in 1..Len(l) /\ t[k][2] <= l[t[k][1]]
      BY <1>0, <1>1, <2>3
    <3>2. IsEol(t[k]) => k = Len(t)
      BY <1>3, <2>1, <2>3
    <3>3. QED
      BY <1>1, <1>3, <2>3, <2>4, <2>5, <3>1, <3>2
<1>7. QED
  BY <1>5, <1>6

\* The first end of line in d is at s.
IsFirstEol(d, s) == IsEol(d[s]) /\ \A m \in 1 .. s - 1 : ~IsEol(d[m])

\* The first end of line of a stream ends its first event.
LEMMA FirstEol ==
    ASSUME NEW ls, Lengths(ls), NEW d, Len(d) \in Nat, IsStream(ls, d),
           NEW s \in 1..Len(d), IsFirstEol(d, s)
    PROVE  /\ d[1][1] \in 1..Len(ls) /\ d[s][1] = d[1][1]
           /\ Place(ls, d[1]) = 1 => /\ s = ls[d[1][1]] + 1
                                     /\ \A m \in 1 .. s - 1 : d[m] = <<d[1][1], m>>
<1> DEFINE c == d[1][1]
           n == ls[d[1][1]]
           p == Place(ls, d[1])
           e == EndOf(ls, d, 1)
<1>1. 1 \in 1..Len(d)
  OBVIOUS
<1>2. c \in 1..Len(ls) /\ n \in Nat /\ p \in 1 .. n + 1 /\ e \in 1..Len(d)
      /\ d[e] = <<c, EOL>>
  <2>1. /\ d[1][1] \in 1..Len(ls) /\ ls[d[1][1]] \in Nat
        /\ Place(ls, d[1]) \in 1 .. ls[d[1][1]] + 1
    BY <1>1, PlaceType
  <2>2. EndOf(ls, d, 1) \in 1..Len(d) /\ d[EndOf(ls, d, 1)] = <<d[1][1], EOL>>
    BY <1>1, EndType
  <2>3. QED
    BY <2>1, <2>2
<1>3. e = 1 + n + 1 - p
  BY DEF EndOf
<1>4. \A m \in 1..e : d[m] = <<c, IF p + m - 1 <= n THEN p + m - 1 ELSE EOL>>
  BY <1>1, Zenon DEF IsStream, Byte
<1> HIDE DEF c, n, p, e
<1>5. ~(e < s)
  <2>1. IsEol(d[e])
    BY <1>2 DEF IsEol
  <2>2. QED
    BY <1>2, <2>1 DEF IsFirstEol
<1>6. ~(s < e)
  <2>1. SUFFICES ASSUME s < e PROVE FALSE
    OBVIOUS
  <2>2. p + s - 1 \in Nat /\ p + s - 1 <= n /\ p + s - 1 # 0
    BY <1>2, <1>3, <2>1
  <2>3. d[s] = <<c, p + s - 1>>
    <3>1. s \in 1..e
      BY <1>2, <2>1
    <3>2. QED
      BY <1>4, <2>2, <3>1
  <2>4. QED
    BY <2>2, <2>3 DEF IsEol, EOL, IsFirstEol
<1>7. s = e
  BY <1>2, <1>5, <1>6
<1>8. d[s][1] = c
  BY <1>2, <1>7
<1>9. ASSUME p = 1 PROVE s = n + 1 /\ \A m \in 1 .. s - 1 : d[m] = <<c, m>>
  <2>1. s = n + 1
    BY <1>2, <1>3, <1>7, <1>9
  <2>2. ASSUME NEW m \in 1 .. s - 1 PROVE d[m] = <<c, m>>
    <3>1. p + m - 1 = m /\ m <= n /\ m \in 1..e
      BY <1>2, <1>7, <1>9, <2>1
    <3>2. QED
      BY <1>4, <3>1
  <2>3. QED
    BY <2>1, <2>2
<1>10. QED
  BY <1>2, <1>8, <1>9 DEF c, n, p

-----------------------------------------------------------------------------
(* What is unread.                                                         *)

LEMMA UnreadFacts ==
    ASSUME TypeOK, BufferShape
    PROVE  /\ Lengths(lens) /\ Len(lens) \in Nat
           /\ Len(input) \in Nat
           /\ next - evnt \in Nat /\ Len(Unread) \in Nat
           /\ Len(Unread) = next - evnt + Len(input)
           /\ \A k \in 1 .. next - evnt : Unread[k] = buf[evnt + k - 1]
           /\ \A k \in 1..Len(input) : Unread[next - evnt + k] = input[k]
<1>1. Lengths(lens) /\ Len(lens) \in Nat
  BY DEF TypeOK, Lengths
<1>2. Len(input) \in Nat /\ next - evnt \in Nat
  BY DEF TypeOK, BufferShape
<1>3. Len(Unread) = next - evnt + Len(input) /\ Len(Unread) \in Nat
  BY <1>2 DEF Unread
<1>4. ASSUME NEW k \in 1 .. next - evnt PROVE Unread[k] = buf[evnt + k - 1]
  BY <1>2 DEF Unread
<1>5. ASSUME NEW k \in 1..Len(input) PROVE Unread[next - evnt + k] = input[k]
  <2> DEFINE h == next - evnt
  <2>1. h \in Nat /\ h + k \in 1 .. h + Len(input) /\ ~(h + k <= h) /\ (h + k) - h = k
    BY <1>2
  <2>2. Unread[h + k] = IF h + k <= h THEN buf[evnt + (h + k) - 1]
                                      ELSE input[(h + k) - h]
    BY <2>1, Zenon DEF Unread
  <2>3. QED
    BY <2>1, <2>2
<1>6. QED
  BY <1>1, <1>2, <1>3, <1>4, <1>5

LEMMA UnreadFactsNext ==
    ASSUME TypeOK', BufferShape'
    PROVE  /\ Lengths(lens') /\ Len(lens') \in Nat
           /\ Len(input') \in Nat
           /\ next' - evnt' \in Nat /\ Len(Unread') \in Nat
           /\ Len(Unread') = next' - evnt' + Len(input')
           /\ \A k \in 1 .. next' - evnt' : Unread'[k] = buf'[evnt' + k - 1]
           /\ \A k \in 1..Len(input') : Unread'[next' - evnt' + k] = input'[k]
<1>1. Lengths(lens') /\ Len(lens') \in Nat
  BY DEF TypeOK, Lengths
<1>2. Len(input') \in Nat /\ next' - evnt' \in Nat
  <2>1. Len(input') \in Nat
    BY DEF TypeOK
  <2>2. evnt' \in Nat /\ curr' \in Nat /\ next' \in Nat
    BY DEF TypeOK
  <2>3. evnt' <= curr' /\ curr' <= next'
    BY DEF BufferShape
  <2>4. next' - evnt' \in Nat
    <3>1. \A a, b, c \in Nat : a <= b /\ b <= c => c - a \in Nat
      OBVIOUS
    <3>2. QED
      BY <2>2, <2>3, <3>1, Zenon
  <2>5. QED
    BY <2>1, <2>4
<1>3. Len(Unread') = next' - evnt' + Len(input') /\ Len(Unread') \in Nat
  BY <1>2 DEF Unread
<1>4. ASSUME NEW k \in 1 .. next' - evnt' PROVE Unread'[k] = buf'[evnt' + k - 1]
  BY <1>2 DEF Unread
<1>5. ASSUME NEW k \in 1..Len(input') PROVE Unread'[next' - evnt' + k] = input'[k]
  <2> DEFINE h == next' - evnt'
  <2>1. h \in Nat /\ h + k \in 1 .. h + Len(input') /\ ~(h + k <= h) /\ (h + k) - h = k
    BY <1>2
  <2>2. Unread'[h + k] = IF h + k <= h THEN buf'[evnt' + (h + k) - 1]
                                      ELSE input'[(h + k) - h]
    BY <2>1, Zenon DEF Unread
  <2>3. QED
    BY <2>1, <2>2
<1>6. QED
  BY <1>1, <1>2, <1>3, <1>4, <1>5

\* The current event has a number.
LEMMA CurrentType ==
    ASSUME TypeOK, BufferShape, StreamShape
    PROVE  /\ Current \in 1 .. Len(lens) + 1
           /\ Len(Unread) > 0 => Current \in 1..Len(lens)
<1>1. CASE Len(Unread) = 0
  BY <1>1, UnreadFacts DEF Current
<1>2. CASE Len(Unread) # 0
  <2>1. 1 \in 1..Len(Unread) /\ Current = Unread[1][1]
    BY <1>2, UnreadFacts DEF Current
  <2>2. Unread[1][1] \in 1..Len(lens)
    BY <2>1 DEF StreamShape, IsStream
  <2>3. QED
    BY <2>1, <2>2, UnreadFacts
<1>3. QED
  BY <1>1, <1>2

\* Events are told apart by their bytes, if they have any.
LEMMA EventsDiffer ==
    ASSUME NEW i \in Nat, NEW j \in Nat, lens[i] \in Nat, lens[j] \in Nat,
           lens[i] > 0, Event(i) = Event(j)
    PROVE  i = j
<1>1. DOMAIN Event(i) = 1..lens[i] /\ DOMAIN Event(j) = 1..lens[j]
  BY DEF Event
<1>2. 1 \in 1..lens[i] /\ 1 \in 1..lens[j]
  BY <1>1
<1>3. Event(i)[1] = <<i, 1>> /\ Event(j)[1] = <<j, 1>>
  BY <1>2 DEF Event
<1>4. QED
  BY <1>3

\* What is not yet complete is not yet queued.
LEMMA NotYetQueued ==
    ASSUME TypeOK, BufferShape, StreamShape, QueuedShape,
           NEW i \in 1..Len(lens), i >= Current
    PROVE  Missing(i)
<1>1. PICK f \in [DOMAIN queued -> 1..Len(lens)] :
         \A k \in DOMAIN queued : queued[k] = Event(f[k]) /\ f[k] < Current
  BY DEF QueuedShape
<1>2. SUFFICES ASSUME NEW k \in DOMAIN queued, queued[k] = Event(i), lens[i] # 0
               PROVE  FALSE
  BY DEF Missing
<1>3. f[k] \in 1..Len(lens) /\ f[k] < Current /\ Event(i) = Event(f[k])
  BY <1>1, <1>2
<1>4. lens[i] \in Nat /\ lens[f[k]] \in Nat /\ lens[i] > 0
  BY <1>2, <1>3, UnreadFacts DEF Lengths
<1>5. i = f[k]
  BY <1>3, <1>4, EventsDiffer
<1>6. QED
  BY <1>3, <1>5, CurrentType

\* Steps that do not queue anything and keep the current event keep what is
\* said of queued and missing events.
LEMMA SameEvents ==
    ASSUME QueuedShape, MissingShape, UNCHANGED <<lens, queued>>,
           Current' = Current
    PROVE  /\ QueuedShape'
           /\ Gap => Gap'
           /\ \A i \in 1 .. Current' - 1 :
                 lens'[i] > 0 /\ Missing(i)' => AfterOversized(i)'
<1>1. \A i : Event(i)' = Event(i) /\ Missing(i)' = Missing(i)
             /\ Oversized(i)' = Oversized(i)
  BY DEF Event, Missing, Oversized
<1>2. \A i : AfterOversized(i)' = AfterOversized(i)
  BY DEF AfterOversized, Missing, Oversized, Event
<1>3. QueuedShape'
  BY DEF QueuedShape, Event
<1>4. Gap => Gap'
  BY DEF Gap, Missing, Oversized, Event
<1>5. QED
  BY <1>1, <1>2, <1>3, <1>4 DEF MissingShape

LEMMA SameUnread ==
    ASSUME StreamShape, UNCHANGED <<lens, drop_next>>, Unread' = Unread
    PROVE  StreamShape' /\ Current' = Current
BY DEF StreamShape, Current

-----------------------------------------------------------------------------
(* The steps.                                                              *)

\* What is read stays unread: it only changes its place.
LEMMA ReadStep ==
    ASSUME Inv, NEW n \in 1..PIPE_BUF_SIZE, Read(n) PROVE Inv'
<1> USE ReceiveAssumption
<1>1. /\ pc = "top" /\ ~done /\ n <= PIPE_BUF_SIZE - next /\ n <= Len(input)
      /\ buf' = [k \in DOMAIN buf |-> IF k \in next .. next + n - 1
                                      THEN input[k - next + 1] ELSE buf[k]]
      /\ input' = SubSeq(input, n + 1, Len(input))
      /\ next' = next + n /\ buffered_events' = 0 /\ pc' = "search"
      /\ UNCHANGED <<lens, evnt, curr, done, drop_next, queued>>
  BY DEF Read
<1>2. TypeOK /\ BufferShape /\ StreamShape /\ QueuedShape /\ MissingShape
  BY DEF Inv
<1>3. /\ evnt \in Nat /\ curr \in Nat /\ next \in Nat /\ PIPE_BUF_SIZE \in Nat
      /\ Len(input) \in Nat /\ evnt <= curr /\ curr <= next
      /\ next <= PIPE_BUF_SIZE /\ n \in Nat /\ DOMAIN buf = 0..PIPE_BUF_SIZE
  BY <1>2 DEF TypeOK, BufferShape
<1>4. /\ input' \in Seq(Bytes) /\ Len(input') = Len(input) - n
      /\ \A j \in 1 .. Len(input) - n : input'[j] = input[n + j]
  BY <1>1, <1>2, <1>3 DEF TypeOK
<1>5. \A j \in 1..Len(input) : input[j] \in Bytes
  BY <1>2 DEF TypeOK
<1>6. \A k \in 0..PIPE_BUF_SIZE :
         buf'[k] = IF k \in next .. next + n - 1 THEN input[k - next + 1]
                                                 ELSE buf[k]
  BY <1>1, <1>3
<1>7. buf' \in [0..PIPE_BUF_SIZE -> Bytes]
  <2>1. ASSUME NEW k \in 0..PIPE_BUF_SIZE PROVE buf'[k] \in Bytes
    <3>1. CASE k \in next .. next + n - 1
      <4>1. k - next + 1 \in 1..Len(input)
        BY <1>1, <1>3, <3>1
      <4>2. QED
        BY <1>5, <1>6, <3>1, <4>1
    <3>2. CASE k \notin next .. next + n - 1
      BY <1>2, <1>6, <3>2 DEF TypeOK
    <3>3. QED
      BY <3>1, <3>2
  <2>2. QED
    BY <1>1, <1>3, <2>1
<1>8. TypeOK'
  BY <1>1, <1>2, <1>3, <1>4, <1>7 DEF TypeOK
<1>9. BufferShape'
  <2>1. evnt' <= curr' /\ curr' <= next' /\ next' <= PIPE_BUF_SIZE
    BY <1>1, <1>3
  <2>2. ASSUME NEW k \in 0..PIPE_BUF_SIZE, k \notin curr' .. next' - 1
        PROVE  ~IsEol(buf'[k])
    <3>1. k \notin next .. next + n - 1 /\ k \notin curr .. next - 1
      BY <1>1, <1>3, <2>2
    <3>2. QED
      BY <1>2, <1>6, <3>1 DEF BufferShape
  <2>3. QED
    BY <1>1, <2>1, <2>2 DEF BufferShape
<1>10. Unread' = Unread
  <2> DEFINE h == next - evnt
  <2>1. h \in Nat /\ next' - evnt' = h + n
    BY <1>1, <1>3
  <2>2. next' - evnt' + Len(input') = h + Len(input)
    BY <1>3, <1>4, <2>1
  <2>3. ASSUME NEW k \in 1 .. h + Len(input)
        PROVE  (IF k <= h + n THEN buf'[evnt' + k - 1] ELSE input'[k - (h + n)])
               = IF k <= h THEN buf[evnt + k - 1] ELSE input[k - h]
    <3>1. CASE k <= h
      <4>1. evnt + k - 1 \in 0..PIPE_BUF_SIZE /\ k <= h + n
            /\ evnt + k - 1 \notin next .. next + n - 1
        BY <1>3, <2>1, <3>1
      <4>2. QED
        BY <1>1, <1>6, <3>1, <4>1
    <3>2. CASE ~(k <= h) /\ k <= h + n
      <4>1. evnt + k - 1 \in 0..PIPE_BUF_SIZE
            /\ evnt + k - 1 \in next .. next + n - 1
            /\ (evnt + k - 1) - next + 1 = k - h
        BY <1>1, <1>3, <2>1, <3>2
      <4>2. QED
        BY <1>1, <1>6, <3>2, <4>1
    <3>3. CASE ~(k <= h + n)
      <4>1. k - (h + n) \in 1 .. Len(input) - n /\ ~(k <= h)
            /\ n + (k - (h + n)) = k - h
        BY <1>3, <2>1, <3>3
      <4>2. QED
        BY <1>4, <3>3, <4>1
    <3>4. QED
      BY <3>1, <3>2, <3>3
  <2>4. Unread' = [k \in 1 .. h + Len(input) |->
                     IF k <= h + n THEN buf'[evnt' + k - 1]
                                   ELSE input'[k - (h + n)]]
    BY <2>1, <2>2 DEF Unread
  <2>5. Unread = [k \in 1 .. h + Len(input) |->
                    IF k <= h THEN buf[evnt + k - 1] ELSE input[k - h]]
    BY DEF Unread
  <2>6. QED
    BY <2>3, <2>4, <2>5, Zenon
<1>11. StreamShape' /\ Current' = Current
  BY <1>1, <1>2, <1>10, SameUnread
<1>12. QueuedShape' /\ MissingShape'
  <2>1. evnt > 0 => buffered_events = 0
    BY <1>1, <1>2, <1>3 DEF BufferShape, TypeOK
  <2>2. QED
    BY <1>1, <1>2, <1>11, <2>1, SameEvents DEF MissingShape
<1>13. QED
  BY <1>8, <1>9, <1>11, <1>12 DEF Inv

\* No byte before the end of the first event is an end of line.
LEMMA NoEolBefore ==
    ASSUME NEW ls, Lengths(ls), NEW d, Len(d) \in Nat, IsStream(ls, d),
           Len(d) > 0, NEW m \in 1 .. EndOf(ls, d, 1) - 1
    PROVE  ~IsEol(d[m])
<1> DEFINE n == ls[d[1][1]]
           p == Place(ls, d[1])
           e == EndOf(ls, d, 1)
<1>1. 1 \in 1..Len(d)
  OBVIOUS
<1>2. n \in Nat /\ p \in 1 .. n + 1
  BY <1>1, PlaceType
<1>3. e = 1 + n + 1 - p
  BY DEF EndOf
<1>4. e \in Int /\ m \in 1..e /\ p + m - 1 \in Nat /\ p + m - 1 <= n /\ p + m - 1 # 0
  <2>1. m \in 1 .. e - 1
    OBVIOUS
  <2> HIDE DEF n, p, e
  <2>2. e \in Int /\ p \in Int /\ p >= 1
    BY <1>2, <1>3
  <2>3. m \in 1..e /\ m >= 1 /\ m \in Int
    BY <2>1, <2>2
  <2>4. m <= 1 + n - p
    BY <1>2, <1>3, <2>1, <2>2
  <2>5. QED
    BY <1>2, <2>2, <2>3, <2>4
<1>5. d[m] = Byte(ls, d[1][1], p + m - 1)
  BY <1>1, <1>4, Zenon DEF IsStream
<1> HIDE DEF n, p, e
<1>6. d[m][2] = p + m - 1
  BY <1>4, <1>5 DEF Byte, n
<1>7. QED
  BY <1>4, <1>6 DEF IsEol, EOL

\* The search stops at the next end of line, or at the end of the data.
LEMMA StopFacts ==
    ASSUME TypeOK, BufferShape, StreamShape, curr < next
    PROVE  /\ Stop \in curr..next /\ (Stop = next \/ IsEol(buf[Stop]))
           /\ \A m \in curr .. Stop - 1 : ~IsEol(buf[m])
<1> DEFINE e == EndOf(lens, Unread, 1)
           P(k) == /\ k = next \/ IsEol(buf[k])
                   /\ \A m \in curr .. k - 1 : ~IsEol(buf[m])
<1>1. /\ evnt \in Nat /\ curr \in Nat /\ next \in Nat /\ evnt <= curr
      /\ next <= PIPE_BUF_SIZE /\ PIPE_BUF_SIZE \in Nat /\ Len(Unread) \in Nat
      /\ next - evnt \in Nat /\ next - evnt <= Len(Unread) /\ Len(Unread) > 0
  BY UnreadFacts, ReceiveAssumption DEF TypeOK, BufferShape
<1>2. Lengths(lens) /\ IsStream(lens, Unread) /\ 1 \in 1..Len(Unread)
  BY <1>1, UnreadFacts DEF StreamShape
<1>3. e \in 1..Len(Unread) /\ Unread[e] = <<Unread[1][1], EOL>>
  BY <1>1, <1>2, EndType
<1>4. \A k \in 1 .. e - 1 : ~IsEol(Unread[k])
  BY <1>1, <1>2, NoEolBefore
<1> HIDE DEF e
<1>5. ASSUME NEW m \in curr .. next - 1, m < evnt + e - 1 PROVE ~IsEol(buf[m])
  <2>1. m - evnt + 1 \in 1 .. e - 1 /\ m - evnt + 1 \in 1 .. next - evnt
        /\ evnt + (m - evnt + 1) - 1 = m
    <3>1. m \in Int /\ evnt <= m /\ m < next /\ evnt \in Int /\ next \in Int
      BY <1>1
    <3>2. e \in Int
      BY <1>3
    <3>3. QED
      BY <1>5, <3>1, <3>2
  <2>2. Unread[m - evnt + 1] = buf[m]
    BY <2>1, UnreadFacts
  <2>3. QED
    BY <1>4, <2>1, <2>2
<1>6. \E k \in curr..next : P(k)
  <2>1. CASE e <= next - evnt
    <3>1. evnt + e - 1 \in 0..PIPE_BUF_SIZE /\ e \in 1 .. next - evnt
      BY <1>1, <1>3, <2>1
    <3>2. Unread[e] = buf[evnt + e - 1]
      BY <3>1, UnreadFacts
    <3>3. IsEol(buf[evnt + e - 1])
      BY <1>3, <3>2 DEF IsEol
    <3>4. evnt + e - 1 \in curr .. next - 1
      BY <3>1, <3>3 DEF BufferShape
    <3>5. \A m \in curr .. (evnt + e - 1) - 1 : ~IsEol(buf[m])
      <4>1. ASSUME NEW m \in curr .. (evnt + e - 1) - 1
            PROVE  m \in curr .. next - 1 /\ m < evnt + e - 1
        BY <1>1, <1>3, <3>4
      <4>2. QED
        BY <1>5, <4>1
    <3>6. evnt + e - 1 \in curr..next /\ P(evnt + e - 1)
      BY <1>1, <3>3, <3>4, <3>5
    <3>7. QED
      BY <3>6
  <2>2. CASE ~(e <= next - evnt)
    <3>1. ASSUME NEW m \in curr .. next - 1 PROVE m < evnt + e - 1
      BY <1>1, <1>3, <2>2
    <3>2. next \in curr..next /\ P(next)
      BY <1>1, <1>5, <3>1
    <3>3. QED
      BY <3>2
  <2>3. QED
    BY <2>1, <2>2
<1>7. Stop = CHOOSE k \in curr..next : P(k)
  BY DEF Stop
<1>8. Stop \in curr..next /\ P(Stop)
  BY <1>6, <1>7, Zenon
<1>9. QED
  BY <1>8

\* Steps that leave the unread bytes where they are.
LEMMA QuietStep ==
    ASSUME Inv, UNCHANGED <<lens, input, buf, evnt, next, drop_next, queued>>,
           TypeOK', BufferShape',
           evnt > 0 /\ buffered_events' = 0 => buffered_events = 0
    PROVE  Inv'
<1>1. QueuedShape /\ MissingShape /\ StreamShape
  BY DEF Inv
<1>2. Unread' = Unread
  BY DEF Unread
<1>3. StreamShape' /\ Current' = Current
  BY <1>1, <1>2, SameUnread
<1>4. QueuedShape' /\ MissingShape'
  BY <1>1, <1>3, SameEvents DEF MissingShape
<1>5. QED
  BY <1>3, <1>4 DEF Inv

LEMMA ReadEofStep ==
    ASSUME Inv, ReadEof PROVE Inv'
<1>1. TypeOK /\ BufferShape
  BY DEF Inv
<1>2. TypeOK'
  BY <1>1 DEF TypeOK, ReadEof, ReadFailed
<1>3. BufferShape'
  BY <1>1 DEF BufferShape, ReadEof
<1>4. evnt > 0 => buffered_events = 0
  BY <1>1 DEF TypeOK, BufferShape, ReadEof
<1>5. QED
  BY <1>2, <1>3, <1>4, QuietStep DEF ReadEof

LEMMA PartialStep ==
    ASSUME Inv, Partial PROVE Inv'
<1>1. TypeOK /\ BufferShape /\ StreamShape
  BY DEF Inv
<1>2. curr' = next
  <2>1. CASE curr < next
    BY <1>1, <2>1, StopFacts DEF Partial
  <2>2. CASE ~(curr < next)
    BY <1>1, <2>2 DEF Partial, TypeOK, BufferShape
  <2>3. QED
    BY <2>1, <2>2
<1>3. TypeOK'
  BY <1>1, <1>2 DEF TypeOK, Partial
<1>4. \A k \in 0..PIPE_BUF_SIZE : ~IsEol(buf[k])
  <2>1. CASE curr < next
    <3>1. Stop = next
      BY <1>1, <2>1, StopFacts DEF Partial
    <3>2. \A m \in curr .. next - 1 : ~IsEol(buf[m])
      BY <1>1, <2>1, <3>1, StopFacts
    <3>3. QED
      BY <1>1, <3>2 DEF BufferShape
  <2>2. CASE ~(curr < next)
    <3>1. curr = next /\ next \in Nat
      BY <1>1, <2>2 DEF TypeOK, BufferShape
    <3>2. \A k : k \notin curr .. next - 1
      BY <3>1
    <3>3. QED
      BY <1>1, <3>2 DEF BufferShape
  <2>3. QED
    BY <2>1, <2>2
<1>5. BufferShape'
  <2>1. evnt <= next /\ next <= next
    BY <1>1 DEF TypeOK, BufferShape
  <2>2. QED
    BY <1>1, <1>2, <1>4, <2>1 DEF BufferShape, Partial
<1>6. QED
  BY <1>3, <1>5, QuietStep DEF Partial

LEMMA NothingToSettleStep ==
    ASSUME Inv, NothingToSettle PROVE Inv'
<1>1. TypeOK' /\ BufferShape'
  BY DEF Inv, TypeOK, BufferShape, NothingToSettle
<1>2. QED
  BY <1>1, QuietStep DEF NothingToSettle

LEMMA LeaveStep ==
    ASSUME Inv, Leave PROVE Inv'
<1>1. TypeOK' /\ BufferShape'
  BY DEF Inv, TypeOK, BufferShape, Leave
<1>2. QED
  BY <1>1, QuietStep DEF Leave

\* What is written is unread, and of an event that did not exist before.
LEMMA SendStep ==
    ASSUME Inv, NEW n \in Nat, Send(n) PROVE Inv'
<1>1. /\ ~done /\ lens' = Append(lens, n)
      /\ input' = input \o Written(Len(lens) + 1, n)
      /\ UNCHANGED <<buf, evnt, curr, next, done, drop_next, buffered_events,
                     queued, pc>>
  BY DEF Send
<1>2. TypeOK /\ BufferShape /\ StreamShape /\ QueuedShape /\ MissingShape
  BY DEF Inv
<1>3. /\ Lengths(lens) /\ Len(lens) \in Nat /\ Len(input) \in Nat
      /\ next - evnt \in Nat /\ Len(Unread) \in Nat
      /\ Len(Unread) = next - evnt + Len(input)
  BY <1>2, UnreadFacts
<1> DEFINE w == Written(Len(lens) + 1, n)
<1>4. /\ lens' \in Seq(Nat) /\ Len(lens') = Len(lens) + 1
      /\ lens'[Len(lens) + 1] = n
      /\ \A j \in 1..Len(lens) : lens'[j] = lens[j]
  BY <1>1, <1>2 DEF TypeOK
<1>5. /\ w \in Seq(Bytes) /\ Len(w) = n + 1
      /\ \A p \in 1 .. n + 1 : w[p] = <<Len(lens) + 1, IF p <= n THEN p ELSE EOL>>
  BY <1>3 DEF Written, Bytes, EOL
<1> HIDE DEF w
<1>6. /\ input' \in Seq(Bytes) /\ Len(input') = Len(input) + n + 1
      /\ \A j \in 1..Len(input) : input'[j] = input[j]
      /\ \A p \in 1 .. n + 1 : input'[Len(input) + p] = w[p]
  <2>1. input' = input \o w /\ input \in Seq(Bytes)
    BY <1>1, <1>2 DEF TypeOK, w
  <2>2. Len(input \o w) = Len(input) + Len(w)
    BY <1>5, <2>1
  <2>3. Len(input) + Len(w) = Len(input) + n + 1
    BY <1>3, <1>5
  <2>4. \A p \in 1..Len(w) : (input \o w)[Len(input) + p] = w[p]
    BY <1>5, <2>1
  <2>5. \A j \in 1..Len(input) : (input \o w)[j] = input[j]
    BY <1>5, <2>1
  <2>6. input \o w \in Seq(Bytes)
    BY <1>5, <2>1
  <2>7. QED
    BY <1>5, <2>1, <2>2, <2>3, <2>4, <2>5, <2>6
<1>7. TypeOK'
  BY <1>1, <1>2, <1>4, <1>6 DEF TypeOK
<1>8. BufferShape'
  BY <1>1, <1>2 DEF BufferShape
<1>9. /\ Len(Unread') = Len(Unread) + n + 1 /\ Len(Unread') \in Nat
      /\ \A k \in 1 .. next - evnt : Unread'[k] = buf[evnt + k - 1]
      /\ \A k \in 1..Len(input') : Unread'[next - evnt + k] = input'[k]
  <2>1. Lengths(lens') /\ Len(Unread') = next - evnt + Len(input')
        /\ (\A k \in 1 .. next - evnt : Unread'[k] = buf[evnt + k - 1])
        /\ \A k \in 1..Len(input') : Unread'[next - evnt + k] = input'[k]
    BY <1>1, <1>7, <1>8, UnreadFactsNext
  <2>2. next - evnt + Len(input') = Len(Unread) + n + 1
    BY <1>3, <1>6
  <2>3. QED
    BY <1>3, <2>1, <2>2
<1>10. IsProlonged(lens', Unread', lens, Unread, n)
  <2>1. ASSUME NEW k \in 1..Len(Unread) PROVE Unread'[k] = Unread[k]
    <3>1. CASE k <= next - evnt
      BY <1>2, <1>3, <1>9, <3>1, UnreadFacts
    <3>2. CASE ~(k <= next - evnt)
      <4>1. k - (next - evnt) \in 1..Len(input)
            /\ k = (next - evnt) + (k - (next - evnt))
            /\ k - (next - evnt) \in 1..Len(input')
        BY <1>3, <1>6, <3>2
      <4>2. Unread[k] = input[k - (next - evnt)]
        BY <1>2, <4>1, UnreadFacts
      <4>3. Unread'[k] = input'[k - (next - evnt)]
        BY <1>9, <4>1
      <4>4. QED
        BY <1>6, <4>1, <4>2, <4>3
    <3>3. QED
      BY <3>1, <3>2
  <2>2. ASSUME NEW p \in 1 .. n + 1
        PROVE  Unread'[Len(Unread) + p]
               = <<Len(lens) + 1, IF p <= n THEN p ELSE EOL>>
    <3>1. Len(Unread) + p = next - evnt + (Len(input) + p)
          /\ Len(input) + p \in 1..Len(input')
      BY <1>3, <1>6
    <3>2. Unread'[Len(Unread) + p] = input'[Len(input) + p]
      BY <1>9, <3>1
    <3>3. QED
      BY <1>5, <1>6, <3>2
  <2>3. QED
    BY <1>4, <1>9, <2>1, <2>2 DEF IsProlonged
<1>11. IsStream(lens', Unread')
  BY <1>2, <1>3, <1>10, SendStream DEF StreamShape
<1>12. Current' = Current
  <2>1. CASE Len(Unread) = 0
    <3>1. 1 \in 1 .. n + 1 /\ Len(Unread') # 0 /\ Len(Unread) + 1 = 1
      BY <1>9, <2>1
    <3>2. Unread'[1] = <<Len(lens) + 1, IF 1 <= n THEN 1 ELSE EOL>>
      BY <1>10, <3>1 DEF IsProlonged
    <3>3. QED
      BY <2>1, <3>1, <3>2 DEF Current
  <2>2. CASE Len(Unread) # 0
    <3>1. 1 \in 1..Len(Unread) /\ Len(Unread') # 0
      BY <1>3, <1>9, <2>2
    <3>2. Unread'[1] = Unread[1]
      BY <1>10, <3>1 DEF IsProlonged
    <3>3. QED
      BY <2>2, <3>1, <3>2 DEF Current
  <2>3. QED
    BY <2>1, <2>2
<1>13. StreamShape'
  <2>1. ASSUME ~drop_next PROVE Place(lens', Unread'[1]) = 1
    <3>1. CASE Len(Unread) = 0
      <4>1. 1 \in 1 .. n + 1 /\ Len(Unread) + 1 = 1
        BY <3>1
      <4>2. Unread'[1] = <<Len(lens) + 1, IF 1 <= n THEN 1 ELSE EOL>>
        BY <1>10, <4>1 DEF IsProlonged
      <4>3. QED
        BY <1>3, <1>4, <4>2 DEF Place, IsEol, EOL
    <3>2. CASE Len(Unread) # 0
      <4>1. 1 \in 1..Len(Unread) /\ Len(Unread) > 0
        BY <1>3, <3>2
      <4>2. Unread'[1] = Unread[1] /\ Unread[1][1] \in 1..Len(lens)
        BY <1>2, <1>10, <4>1 DEF IsProlonged, StreamShape, IsStream
      <4>3. Place(lens', Unread'[1]) = Place(lens, Unread[1])
        BY <1>4, <4>2 DEF Place
      <4>4. QED
        BY <1>2, <2>1, <4>1, <4>3 DEF StreamShape
    <3>3. QED
      BY <3>1, <3>2
  <2>2. QED
    BY <1>1, <1>11, <2>1 DEF StreamShape
<1>14. Current \in 1 .. Len(lens) + 1
  BY <1>2, CurrentType
<1>15. \A i \in 1..Len(lens) :
          /\ Event(i)' = Event(i) /\ Missing(i)' = Missing(i)
          /\ Oversized(i)' = Oversized(i)
  BY <1>1, <1>4 DEF Event, Missing, Oversized
<1>16. QueuedShape'
  <2>1. PICK f \in [DOMAIN queued -> 1..Len(lens)] :
          /\ \A k \in DOMAIN queued : queued[k] = Event(f[k]) /\ f[k] < Current
          /\ \A k, m \in DOMAIN queued : k < m => f[k] < f[m]
    BY <1>2 DEF QueuedShape
  <2>2. f \in [DOMAIN queued -> 1..Len(lens')]
    BY <1>3, <1>4
  <2>3. \A k \in DOMAIN queued : queued[k] = Event(f[k])' /\ f[k] < Current'
    BY <1>12, <1>15, <2>1
  <2>4. QED
    BY <1>1, <2>1, <2>2, <2>3 DEF QueuedShape
<1>17. MissingShape'
  <2>1. ASSUME NEW i \in 1 .. Current' - 1, lens'[i] > 0, Missing(i)'
        PROVE  AfterOversized(i)'
    <3>1. i \in 1..Len(lens) /\ i \in 1 .. Current - 1
      BY <1>3, <1>12, <1>14
    <3>2. AfterOversized(i)
      BY <1>2, <1>4, <1>15, <2>1, <3>1 DEF MissingShape
    <3>3. PICK j \in 1..i : Oversized(j) /\ \A m \in j..i : Missing(m)
      BY <3>2 DEF AfterOversized
    <3>4. j \in 1..Len(lens) /\ \A m \in j..i : m \in 1..Len(lens)
      BY <1>3, <3>1
    <3>5. Oversized(j)' /\ \A m \in j..i : Missing(m)'
      BY <1>15, <3>3, <3>4
    <3>6. QED
      BY <3>5 DEF AfterOversized
  <2>2. ASSUME Gap PROVE Gap'
    <3>1. PICK j \in 1..Len(lens) :
            j <= Current /\ Oversized(j) /\ \A m \in j .. Current - 1 : Missing(m)
      BY <2>2 DEF Gap
    <3>2. j \in 1..Len(lens') /\ \A m \in j .. Current - 1 : m \in 1..Len(lens)
      BY <1>3, <1>4, <1>14
    <3>3. Oversized(j)' /\ \A m \in j .. Current' - 1 : Missing(m)'
      BY <1>12, <1>15, <3>1, <3>2
    <3>4. QED
      BY <1>12, <3>1, <3>2, <3>3 DEF Gap
  <2>3. QED
    BY <1>1, <1>2, <2>1, <2>2 DEF MissingShape
<1>18. QED
  BY <1>7, <1>8, <1>13, <1>16, <1>17 DEF Inv

\* Moving the unread bytes to the beginning of the buffer keeps them.
LEMMA ShiftStep ==
    ASSUME Inv, Shift PROVE Inv'
<1>1. /\ pc = "settle" /\ next' = next - evnt /\ curr' = curr - evnt
      /\ buf' = [k \in DOMAIN buf |-> IF k < next - evnt THEN buf[k + evnt]
                                                         ELSE buf[k]]
      /\ evnt' = 0 /\ pc' = "top"
      /\ UNCHANGED <<lens, input, done, drop_next, buffered_events, queued>>
  BY DEF Shift
<1>2. TypeOK /\ BufferShape /\ StreamShape /\ QueuedShape /\ MissingShape
  BY DEF Inv
<1> DEFINE h == next - evnt
<1>3. /\ evnt \in Nat /\ next \in Nat /\ PIPE_BUF_SIZE \in Nat
      /\ DOMAIN buf = 0..PIPE_BUF_SIZE
  BY <1>2, ReceiveAssumption DEF TypeOK
<1>4. curr = next /\ evnt <= next /\ next <= PIPE_BUF_SIZE
  BY <1>1, <1>2, <1>3 DEF BufferShape
<1>5. h \in Nat /\ h <= PIPE_BUF_SIZE /\ h + evnt = next
  BY <1>3, <1>4
<1>6. \A k \in 0..PIPE_BUF_SIZE :
         /\ buf'[k] = IF k < h THEN buf[k + evnt] ELSE buf[k]
         /\ k < h => k + evnt \in 0..PIPE_BUF_SIZE
  BY <1>1, <1>3, <1>4
<1>7. \A k \in 0..PIPE_BUF_SIZE : buf[k] \in Bytes /\ ~IsEol(buf[k])
  <2>1. \A k : k \notin curr .. next - 1
    BY <1>3, <1>4
  <2>2. QED
    BY <1>2, <2>1 DEF TypeOK, BufferShape
<1> HIDE DEF h
<1>8. \A k \in 0..PIPE_BUF_SIZE : buf'[k] \in Bytes /\ ~IsEol(buf'[k])
  BY <1>6, <1>7
<1>9. TypeOK'
  <2>1. buf' \in [0..PIPE_BUF_SIZE -> Bytes]
    BY <1>1, <1>3, <1>8
  <2>2. evnt' \in Nat /\ curr' \in Nat /\ next' \in Nat
    BY <1>1, <1>4, <1>5 DEF h
  <2>3. QED
    BY <1>1, <1>2, <2>1, <2>2 DEF TypeOK
<1>10. BufferShape'
  <2>1. evnt' <= curr' /\ curr' <= next' /\ next' <= PIPE_BUF_SIZE /\ curr' = next'
    BY <1>1, <1>4, <1>5 DEF h
  <2>2. QED
    BY <1>1, <1>2, <1>8, <2>1 DEF BufferShape
<1>11. Unread' = Unread
  <2>1. next' - evnt' = h /\ next - evnt = h
    BY <1>1, <1>5 DEF h
  <2>2. ASSUME NEW k \in 1 .. h + Len(input)
        PROVE  (IF k <= h THEN buf'[evnt' + k - 1] ELSE input'[k - h])
               = IF k <= h THEN buf[evnt + k - 1] ELSE input[k - h]
    <3>1. CASE k <= h
      <4>1. Len(input) \in Nat
        BY <1>2 DEF TypeOK
      <4>2. k - 1 \in 0..PIPE_BUF_SIZE /\ k - 1 < h
            /\ 0 + k - 1 = k - 1 /\ (k - 1) + evnt = evnt + k - 1
        BY <1>3, <1>5, <3>1, <4>1
      <4>3. buf'[k - 1] = buf[(k - 1) + evnt]
        BY <1>6, <4>2
      <4>4. QED
        BY <1>1, <3>1, <4>2, <4>3
    <3>2. CASE ~(k <= h)
      BY <1>1, <3>2
    <3>3. QED
      BY <3>1, <3>2
  <2>3. Unread' = [k \in 1 .. h + Len(input) |->
                     IF k <= h THEN buf'[evnt' + k - 1] ELSE input'[k - h]]
    BY <1>1, <2>1 DEF Unread
  <2>4. Unread = [k \in 1 .. h + Len(input) |->
                    IF k <= h THEN buf[evnt + k - 1] ELSE input[k - h]]
    BY <2>1 DEF Unread
  <2>5. QED
    BY <2>2, <2>3, <2>4, Zenon
<1>12. StreamShape' /\ Current' = Current
  BY <1>1, <1>2, <1>11, SameUnread
<1>13. QueuedShape' /\ MissingShape'
  <2>1. ~(evnt' > 0)
    BY <1>1
  <2>2. QED
    BY <1>1, <1>2, <1>12, <2>1, SameEvents DEF MissingShape
<1>14. QED
  BY <1>9, <1>10, <1>12, <1>13 DEF Inv

\* Dropping what is in the buffer leaves the current event the same, since
\* its end of line is not there; and if it was there from its beginning on, it
\* is too large.
LEMMA TooLargeStep ==
    ASSUME Inv, TooLarge PROVE Inv'
<1>1. /\ pc = "settle" /\ buffered_events = 0 /\ next = PIPE_BUF_SIZE
      /\ evnt' = 0 /\ curr' = 0 /\ next' = 0 /\ drop_next' = TRUE /\ pc' = "top"
      /\ UNCHANGED <<lens, input, buf, done, buffered_events, queued>>
  BY DEF TooLarge, DropContinuation
<1>2. TypeOK /\ BufferShape /\ StreamShape /\ QueuedShape /\ MissingShape
  BY DEF Inv
<1> DEFINE h == next - evnt
           e == EndOf(lens, Unread, 1)
<1>3. /\ evnt \in Nat /\ next \in Nat /\ PIPE_BUF_SIZE \in Nat \ {0}
      /\ curr = next /\ evnt <= next
  BY <1>1, <1>2, ReceiveAssumption DEF TypeOK, BufferShape
<1>4. /\ Lengths(lens) /\ Len(lens) \in Nat /\ Len(input) \in Nat /\ h \in Nat
      /\ Len(Unread) \in Nat /\ Len(Unread) = h + Len(input)
      /\ \A k \in 1..h : Unread[k] = buf[evnt + k - 1]
      /\ \A k \in 1..Len(input) : Unread[h + k] = input[k]
  BY <1>2, UnreadFacts
<1>5. \A k \in 0..PIPE_BUF_SIZE : ~IsEol(buf[k])
  <2>1. \A k : k \notin curr .. next - 1
    BY <1>3
  <2>2. QED
    BY <1>2, <2>1 DEF BufferShape
<1>6. TypeOK'
  BY <1>1, <1>2 DEF TypeOK
<1>7. BufferShape'
  BY <1>1, <1>2, <1>3, <1>5 DEF BufferShape
<1>8. /\ Len(Unread') = Len(input) /\ Len(Unread') \in Nat
      /\ \A k \in 1..Len(input) : Unread'[k] = input[k]
  <2>1. next' - evnt' = 0
    BY <1>1
  <2>2. \A k \in 1..Len(input) : 0 + k = k
    BY <1>4
  <2>3. /\ Len(Unread') = next' - evnt' + Len(input')
        /\ \A k \in 1..Len(input') : Unread'[next' - evnt' + k] = input'[k]
    BY <1>6, <1>7, UnreadFactsNext
  <2>4. QED
    BY <1>1, <1>4, <2>1, <2>2, <2>3
<1>9. IsTail(Unread', Unread, h)
  BY <1>4, <1>8 DEF IsTail
<1>10. IsStream(lens, Unread)
  BY <1>2 DEF StreamShape
<1>11. IsStream(lens, Unread')
  <2>1. h \in 0..Len(Unread)
    BY <1>4
  <2> HIDE DEF h
  <2>2. QED
    BY <1>4, <1>9, <1>10, <2>1, TailStream
<1>12. StreamShape'
  BY <1>1, <1>11 DEF StreamShape
<1>13. ASSUME h > 0
       PROVE  /\ e \in Nat /\ h < e /\ e <= Len(Unread)
              /\ Unread[h + 1][1] = Unread[1][1]
  <2>1. Len(Unread) > 0 /\ 1 \in 1..Len(Unread)
    BY <1>4, <1>13
  <2>2. e \in 1..Len(Unread) /\ Unread[e] = <<Unread[1][1], EOL>>
    BY <1>4, <1>10, <2>1, EndType
  <2> HIDE DEF h, e
  <2>3. IsEol(Unread[e])
    BY <2>2 DEF IsEol
  <2>4. h < e
    <3>1. SUFFICES ASSUME ~(h < e) PROVE FALSE
      OBVIOUS
    <3>2. e \in 1..h
      BY <1>4, <2>2, <3>1
    <3>3. evnt + e - 1 \in 0..PIPE_BUF_SIZE
      BY <1>1, <1>3, <3>2 DEF h
    <3>4. QED
      BY <1>4, <1>5, <2>3, <3>2, <3>3
  <2>5. h + 1 \in 1..e
    BY <1>4, <2>2, <2>4
  <2>6. Unread[h + 1]
        = Byte(lens, Unread[1][1], Place(lens, Unread[1]) + (h + 1) - 1)
    BY <1>10, <2>1, <2>5, Zenon DEF IsStream, e
  <2>7. Unread[h + 1][1] = Unread[1][1]
    BY <2>6 DEF Byte
  <2>8. QED
    BY <2>2, <2>4, <2>7
<1>14. Current' = Current
  <2>1. CASE h = 0
    <3>1. Len(Unread') = Len(Unread)
      BY <1>4, <1>8, <2>1
    <3>2. Len(Unread) # 0 => Unread'[1] = Unread[1]
      <4>1. SUFFICES ASSUME Len(Unread) # 0 PROVE Unread'[1] = Unread[1]
        OBVIOUS
      <4>2. 1 \in 1..Len(input) /\ h + 1 = 1
        BY <1>4, <2>1, <4>1
      <4>3. QED
        BY <1>4, <1>8, <4>2
    <3>3. QED
      BY <1>1, <3>1, <3>2 DEF Current
  <2>2. CASE h # 0
    <3>1. h > 0 /\ 1 \in 1..Len(input) /\ Len(Unread) # 0 /\ Len(Unread') # 0
      BY <1>4, <1>8, <1>13, <2>2
    <3>2. Unread'[1] = Unread[h + 1]
      BY <1>4, <1>8, <3>1
    <3>3. QED
      BY <1>1, <1>13, <3>1, <3>2 DEF Current
  <2>3. QED
    BY <2>1, <2>2
<1>15. Gap
  <2>1. CASE drop_next \/ evnt > 0
    BY <1>1, <1>2, <2>1 DEF MissingShape
  <2>2. CASE ~drop_next /\ ~(evnt > 0)
    <3>1. evnt = 0 /\ h = PIPE_BUF_SIZE /\ h > 0
      BY <1>1, <1>3, <2>2
    <3>2. Len(Unread) > 0 /\ 1 \in 1..Len(Unread)
      BY <1>4, <3>1
    <3>3. Place(lens, Unread[1]) = 1
      BY <1>2, <2>2, <3>2 DEF StreamShape
    <3>4. Unread[1][1] \in 1..Len(lens) /\ lens[Unread[1][1]] \in Nat
      BY <1>4, <1>10, <3>2, PlaceType
    <3>5. e = 1 + lens[Unread[1][1]] + 1 - 1
      BY <3>3 DEF EndOf
    <3>6. lens[Unread[1][1]] >= PIPE_BUF_SIZE
      BY <1>3, <1>13, <3>1, <3>4, <3>5
    <3>7. Current = Unread[1][1]
      BY <3>2 DEF Current
    <3>8. Current \in 1..Len(lens) /\ Oversized(Current)
      BY <3>4, <3>6, <3>7 DEF Oversized
    <3>9. Current <= Current /\ \A m : m \notin Current .. Current - 1
      BY <3>8
    <3>10. QED
      BY <3>8, <3>9 DEF Gap
  <2>3. QED
    BY <2>1, <2>2
<1>16. QueuedShape' /\ MissingShape'
  BY <1>1, <1>2, <1>14, <1>15, SameEvents DEF MissingShape
<1>17. QED
  BY <1>6, <1>7, <1>12, <1>16 DEF Inv

\* The search has found the end of the current event, in the buffer.
LEMMA FoundEnd ==
    ASSUME TypeOK, BufferShape, StreamShape, curr < next, IsEol(buf[Stop])
    PROVE  /\ Stop \in curr .. next - 1
           /\ Stop - evnt + 1 \in 1..Len(Unread)
           /\ IsFirstEol(Unread, Stop - evnt + 1)
<1> DEFINE s == Stop - evnt + 1
<1>1. /\ evnt \in Nat /\ curr \in Nat /\ next \in Nat /\ evnt <= curr
      /\ next <= PIPE_BUF_SIZE /\ PIPE_BUF_SIZE \in Nat
  BY ReceiveAssumption DEF TypeOK, BufferShape
<1>2. Stop \in curr..next /\ \A m \in curr .. Stop - 1 : ~IsEol(buf[m])
  BY StopFacts
<1>3. Stop # next
  <2>1. next \in 0..PIPE_BUF_SIZE /\ next \notin curr .. next - 1
    BY <1>1
  <2>2. QED
    BY <2>1 DEF BufferShape
<1>4. Stop \in curr .. next - 1 /\ Stop \in Nat
  BY <1>1, <1>2, <1>3
<1>5. Len(input) \in Nat /\ Len(Unread) = next - evnt + Len(input)
      /\ \A k \in 1 .. next - evnt : Unread[k] = buf[evnt + k - 1]
  BY UnreadFacts
<1>6. s \in 1 .. next - evnt /\ evnt + s - 1 = Stop /\ s \in 1..Len(Unread)
  BY <1>1, <1>4, <1>5
<1>7. IsEol(Unread[s])
  BY <1>5, <1>6
<1>8. ASSUME NEW m \in 1 .. s - 1 PROVE ~IsEol(Unread[m])
  <2>1. m \in 1 .. next - evnt /\ evnt + m - 1 \in 0..PIPE_BUF_SIZE
        /\ evnt + m - 1 < Stop
    BY <1>1, <1>4, <1>6
  <2>2. Unread[m] = buf[evnt + m - 1]
    BY <1>5, <2>1
  <2>3. CASE evnt + m - 1 >= curr
    <3>1. evnt + m - 1 \in curr .. Stop - 1
      BY <1>1, <1>4, <2>1, <2>3
    <3>2. QED
      BY <1>2, <2>2, <3>1
  <2>4. CASE ~(evnt + m - 1 >= curr)
    <3>1. evnt + m - 1 \notin curr .. next - 1
      BY <1>1, <2>1, <2>4
    <3>2. QED
      BY <2>1, <2>2, <3>1 DEF BufferShape
  <2>5. QED
    BY <2>3, <2>4
<1>9. QED
  BY <1>4, <1>6, <1>7, <1>8 DEF IsFirstEol

\* What follows an event that has ended is the next event.
LEMMA EndOfLineUnread ==
    ASSUME Inv, EndOfLine
    PROVE  /\ TypeOK' /\ BufferShape' /\ IsStream(lens, Unread')
           /\ Current \in 1..Len(lens) /\ Current' = Current + 1
           /\ Len(Unread') > 0 => Place(lens, Unread'[1]) = 1
<1>1. /\ pc = "search" /\ curr < next /\ IsEol(buf[Stop])
      /\ buf' = [buf EXCEPT ![Stop] = NUL]
      /\ evnt' = Stop + 1 /\ curr' = Stop + 1
      /\ UNCHANGED <<lens, input, next, done, pc>>
  BY DEF EndOfLine, After
<1>2. TypeOK /\ BufferShape /\ StreamShape
  BY DEF Inv
<1> DEFINE s == Stop - evnt + 1
           h == next - evnt
<1>3. Stop \in curr .. next - 1 /\ s \in 1..Len(Unread) /\ IsFirstEol(Unread, s)
  BY <1>1, <1>2, FoundEnd
<1>4. /\ evnt \in Nat /\ curr \in Nat /\ next \in Nat /\ evnt <= curr
      /\ next <= PIPE_BUF_SIZE /\ PIPE_BUF_SIZE \in Nat
      /\ DOMAIN buf = 0..PIPE_BUF_SIZE
  BY <1>2, ReceiveAssumption DEF TypeOK, BufferShape
<1>5. Stop \in Nat /\ Stop + 1 <= next /\ Stop \in 0..PIPE_BUF_SIZE
      /\ s \in Nat /\ evnt + s = Stop + 1
  BY <1>3, <1>4
<1>6. \A k \in 0..PIPE_BUF_SIZE : buf'[k] = IF k = Stop THEN NUL ELSE buf[k]
  BY <1>1, <1>4, <1>5
<1>7. TypeOK'
  <2>1. NUL \in Bytes
    BY DEF NUL, Bytes
  <2>2. buf' \in [0..PIPE_BUF_SIZE -> Bytes]
    BY <1>1, <1>2, <2>1 DEF TypeOK
  <2>3. drop_next' \in BOOLEAN /\ buffered_events' \in Nat
        /\ queued' \in Seq(Seq(Bytes))
    <3>1. CASE drop_next
      BY <1>2, <3>1 DEF EndOfLine, TypeOK
    <3>2. CASE ~drop_next
      <4>1. Stop - evnt \in Nat
        BY <1>3, <1>4, <1>5
      <4>2. ASSUME NEW j \in 1 .. Stop - evnt PROVE buf[evnt + j - 1] \in Bytes
        <5>1. evnt + j - 1 \in 0..PIPE_BUF_SIZE
          BY <1>4, <1>5, <4>1
        <5>2. QED
          BY <1>2, <5>1 DEF TypeOK
      <4>3. [j \in 1 .. Stop - evnt |-> buf[evnt + j - 1]] \in Seq(Bytes)
        BY <4>1, <4>2
      <4>4. queued' = Append(queued, [j \in 1 .. Stop - evnt |-> buf[evnt + j - 1]])
            /\ buffered_events' = buffered_events + 1 /\ UNCHANGED drop_next
        BY <3>2 DEF EndOfLine
      <4>5. queued \in Seq(Seq(Bytes)) /\ buffered_events \in Nat
            /\ drop_next \in BOOLEAN
        BY <1>2 DEF TypeOK
      <4>6. queued' \in Seq(Seq(Bytes))
        BY <4>3, <4>4, <4>5
      <4>7. buffered_events' \in Nat
        BY <4>4, <4>5
      <4>8. QED
        BY <4>4, <4>5, <4>6, <4>7
    <3>3. QED
      BY <3>1, <3>2
  <2>4. QED
    BY <1>1, <1>2, <1>5, <2>2, <2>3 DEF TypeOK
<1>8. BufferShape'
  <2>1. evnt' <= curr' /\ curr' <= next' /\ next' <= PIPE_BUF_SIZE
    BY <1>1, <1>4, <1>5
  <2>2. ASSUME NEW k \in 0..PIPE_BUF_SIZE, k \notin curr' .. next' - 1
        PROVE  ~IsEol(buf'[k])
    <3>1. CASE k = Stop
      BY <1>6, <3>1 DEF IsEol, NUL, EOL
    <3>2. CASE k # Stop /\ k \in curr .. Stop - 1
      BY <1>1, <1>2, <1>6, <3>2, StopFacts
    <3>3. CASE k # Stop /\ k \notin curr .. Stop - 1
      <4>1. k \notin curr .. next - 1
        BY <1>1, <1>4, <1>5, <2>2, <3>3
      <4>2. QED
        BY <1>2, <1>6, <3>3, <4>1 DEF BufferShape
    <3>4. QED
      BY <3>1, <3>2, <3>3
  <2>3. QED
    BY <1>1, <1>2, <2>1, <2>2 DEF BufferShape
<1>9. /\ Lengths(lens) /\ Len(lens) \in Nat /\ Len(input) \in Nat /\ h \in Nat
      /\ Len(Unread) \in Nat /\ Len(Unread) = h + Len(input)
      /\ \A k \in 1..h : Unread[k] = buf[evnt + k - 1]
      /\ \A k \in 1..Len(input) : Unread[h + k] = input[k]
  BY <1>2, UnreadFacts
<1>10. /\ Len(Unread') \in Nat /\ Len(Unread') = next' - evnt' + Len(input')
       /\ \A k \in 1 .. next' - evnt' : Unread'[k] = buf'[evnt' + k - 1]
       /\ \A k \in 1..Len(input') : Unread'[next' - evnt' + k] = input'[k]
  BY <1>7, <1>8, UnreadFactsNext
<1>11. next' - evnt' = h - s /\ h - s \in Nat
  BY <1>1, <1>4, <1>5
<1>12. IsTail(Unread', Unread, s)
  <2>1. Len(Unread') = Len(Unread) - s
    BY <1>1, <1>5, <1>9, <1>10, <1>11
  <2>2. ASSUME NEW k \in 1..Len(Unread') PROVE Unread'[k] = Unread[s + k]
    <3>1. CASE k <= h - s
      <4>1. k \in 1 .. next' - evnt' /\ s + k \in 1..h
            /\ evnt' + k - 1 = evnt + (s + k) - 1
            /\ evnt' + k - 1 \in 0..PIPE_BUF_SIZE /\ evnt' + k - 1 # Stop
        BY <1>1, <1>4, <1>5, <1>10, <1>11, <3>1
      <4>2. Unread'[k] = buf'[evnt' + k - 1] /\ Unread[s + k] = buf[evnt + (s + k) - 1]
        BY <1>9, <1>10, <4>1
      <4>3. QED
        BY <1>6, <4>1, <4>2
    <3>2. CASE ~(k <= h - s)
      <4>1. k - (h - s) \in 1..Len(input) /\ (h - s) + (k - (h - s)) = k
            /\ h + (k - (h - s)) = s + k
        <5>1. k \in Nat /\ k <= (h - s) + Len(input) /\ Len(input) \in Nat
          BY <1>1, <1>9, <1>10, <1>11
        <5>2. h \in Nat /\ s \in Nat /\ h - s \in Nat /\ k > h - s
          BY <1>5, <1>9, <1>11, <3>2, <5>1
        <5> HIDE DEF h, s
        <5>3. QED
          BY <5>1, <5>2
      <4>2. Unread[s + k] = input[k - (h - s)]
        BY <1>9, <4>1
      <4>3. Unread'[k] = input'[k - (h - s)]
        BY <1>1, <1>10, <1>11, <4>1
      <4>4. QED
        BY <1>1, <4>2, <4>3
    <3>3. QED
      BY <3>1, <3>2
  <2>3. QED
    BY <2>1, <2>2 DEF IsTail
<1> HIDE DEF s, h
<1>13. IsStream(lens, Unread) /\ s \in 0..Len(Unread)
  BY <1>2, <1>3, <1>9 DEF StreamShape
<1>14. IsStream(lens, Unread')
  BY <1>9, <1>12, <1>13, TailStream
<1>15. Len(Unread) # 0 /\ Current = Unread[1][1] /\ Unread[s][1] = Unread[1][1]
       /\ Current \in 1..Len(lens) /\ IsEol(Unread[s])
  <2>1. Len(Unread) # 0
    BY <1>3, <1>9
  <2>2. Unread[1][1] \in 1..Len(lens) /\ Unread[s][1] = Unread[1][1]
    BY <1>3, <1>9, <1>13, FirstEol
  <2>3. QED
    BY <1>3, <2>1, <2>2 DEF Current, IsFirstEol
<1>16. CASE s = Len(Unread)
  <2>1. Len(Unread') = 0
    BY <1>9, <1>12, <1>16 DEF IsTail
  <2>2. Unread[s][1] = Len(lens)
    BY <1>3, <1>13, <1>15, <1>16 DEF IsStream
  <2>3. Current' = Current + 1
    BY <1>1, <1>15, <2>1, <2>2 DEF Current
  <2>4. QED
    BY <1>7, <1>8, <1>14, <1>15, <2>1, <2>3
<1>17. CASE s # Len(Unread)
  <2>1. Len(Unread') # 0 /\ 1 \in 1..Len(Unread')
    BY <1>3, <1>9, <1>10, <1>12, <1>17 DEF IsTail
  <2>2. Unread'[1] = Unread[s + 1]
    BY <1>12, <2>1 DEF IsTail
  <2>3. Unread[s + 1] = Byte(lens, Current + 1, 1)
    BY <1>3, <1>13, <1>15, <1>17 DEF IsStream
  <2>4. Unread'[1][1] = Current + 1
    BY <2>2, <2>3 DEF Byte
  <2>5. Current' = Current + 1
    BY <2>1, <2>4 DEF Current
  <2>6. Current + 1 \in 1..Len(lens) /\ lens[Current + 1] \in Nat
    BY <1>9, <1>10, <1>14, <2>1, <2>4, PlaceType
  <2>7. Place(lens, Unread'[1]) = 1
    BY <2>2, <2>3, <2>6 DEF Place, Byte, IsEol, EOL
  <2>8. QED
    BY <1>7, <1>8, <1>14, <1>15, <2>5, <2>7
<1>18. QED
  BY <1>16, <1>17

\* An event that ends while its beginning was dropped is missing, in a gap.
LEMMA DropStep ==
    ASSUME Inv, EndOfLine, drop_next PROVE Inv'
<1>1. UNCHANGED <<lens, queued, buffered_events>> /\ drop_next' = FALSE
  BY DEF EndOfLine
<1>2. TypeOK /\ BufferShape /\ StreamShape /\ QueuedShape /\ MissingShape /\ Gap
  BY DEF Inv, MissingShape
<1>3. /\ TypeOK' /\ BufferShape' /\ IsStream(lens, Unread')
      /\ Current \in 1..Len(lens) /\ Current' = Current + 1
      /\ Len(Unread') > 0 => Place(lens, Unread'[1]) = 1
  BY EndOfLineUnread
<1>4. StreamShape'
  BY <1>1, <1>3 DEF StreamShape
<1>5. Len(lens) \in Nat /\ Current \in Nat
  BY <1>2, <1>3, UnreadFacts
<1>6. \A i : Event(i)' = Event(i)
  BY <1>1 DEF Event
<1>7. \A i : (Missing(i)' <=> Missing(i)) /\ (Oversized(i)' <=> Oversized(i))
  BY <1>1, <1>6 DEF Missing, Oversized
<1>8. \A i : AfterOversized(i)' <=> AfterOversized(i)
  BY <1>7 DEF AfterOversized
<1>9. QueuedShape'
  <2>1. PICK f \in [DOMAIN queued -> 1..Len(lens)] :
          /\ \A k \in DOMAIN queued : queued[k] = Event(f[k]) /\ f[k] < Current
          /\ \A k, m \in DOMAIN queued : k < m => f[k] < f[m]
    BY <1>2 DEF QueuedShape
  <2>2. \A k \in DOMAIN queued : queued[k] = Event(f[k])' /\ f[k] < Current'
    <3>1. ASSUME NEW k \in DOMAIN queued PROVE f[k] < Current'
      <4>1. f[k] \in 1..Len(lens) /\ f[k] < Current
        BY <2>1
      <4>2. QED
        BY <1>3, <1>5, <4>1
    <3>2. QED
      BY <1>6, <2>1, <3>1
  <2>3. QED
    BY <1>1, <2>1, <2>2 DEF QueuedShape
<1>10. Missing(Current)
  BY <1>2, <1>3, <1>5, NotYetQueued
<1>11. PICK j \in 1..Len(lens) :
         j <= Current /\ Oversized(j) /\ \A m \in j .. Current - 1 : Missing(m)
  BY <1>2 DEF Gap
<1>12. \A m \in j..Current : Missing(m)
  <2>1. \A m \in j..Current : m = Current \/ m \in j .. Current - 1
    BY <1>5
  <2>2. QED
    BY <1>10, <1>11, <2>1
<1>13. AfterOversized(Current)
  <2>1. j \in 1..Current
    BY <1>5, <1>11
  <2>2. QED
    BY <1>11, <1>12, <2>1 DEF AfterOversized
<1>14. Gap'
  <2>1. j <= Current' /\ Current' - 1 = Current
    BY <1>3, <1>5, <1>11
  <2>2. QED
    BY <1>1, <1>7, <1>11, <1>12, <2>1 DEF Gap
<1>15. MissingShape'
  <2>1. ASSUME NEW i \in 1 .. Current' - 1, lens[i] > 0, Missing(i)
        PROVE  AfterOversized(i)
    <3>1. i = Current \/ i \in 1 .. Current - 1
      BY <1>3, <1>5
    <3>2. QED
      BY <1>2, <1>13, <2>1, <3>1 DEF MissingShape
  <2>2. QED
    BY <1>1, <1>7, <1>8, <1>14, <2>1 DEF MissingShape
<1>16. QED
  BY <1>3, <1>4, <1>9, <1>15 DEF Inv

\* An event that ends and has its beginning is queued whole.
LEMMA QueueStep ==
    ASSUME Inv, EndOfLine, ~drop_next PROVE Inv'
<1>1. /\ queued' = Append(queued, [j \in 1 .. Stop - evnt |-> buf[evnt + j - 1]])
      /\ buffered_events' = buffered_events + 1 /\ UNCHANGED <<lens, drop_next>>
      /\ curr < next /\ IsEol(buf[Stop])
  BY DEF EndOfLine
<1>2. TypeOK /\ BufferShape /\ StreamShape /\ QueuedShape /\ MissingShape
  BY DEF Inv
<1>3. /\ TypeOK' /\ BufferShape' /\ IsStream(lens, Unread')
      /\ Current \in 1..Len(lens) /\ Current' = Current + 1
      /\ Len(Unread') > 0 => Place(lens, Unread'[1]) = 1
  BY EndOfLineUnread
<1>4. StreamShape'
  BY <1>1, <1>3 DEF StreamShape
<1>5. Len(lens) \in Nat /\ Current \in Nat /\ lens[Current] \in Nat
      /\ \A i \in 1..Len(lens) : lens[i] \in Nat
  BY <1>2, <1>3, UnreadFacts DEF Lengths
<1>6. [j \in 1 .. Stop - evnt |-> buf[evnt + j - 1]] = Event(Current)
  <2> DEFINE s == Stop - evnt + 1
  <2>1. Stop \in curr .. next - 1 /\ s \in 1..Len(Unread) /\ IsFirstEol(Unread, s)
    BY <1>1, <1>2, FoundEnd
  <2>2. /\ evnt \in Nat /\ curr \in Nat /\ next \in Nat /\ evnt <= curr
    BY <1>2 DEF TypeOK, BufferShape
  <2>3. /\ Lengths(lens) /\ Len(Unread) \in Nat /\ IsStream(lens, Unread)
        /\ \A k \in 1 .. next - evnt : Unread[k] = buf[evnt + k - 1]
    BY <1>2, UnreadFacts DEF StreamShape
  <2>4. Stop - evnt \in Nat /\ s - 1 = Stop - evnt /\ Stop - evnt <= next - evnt
        /\ s \in Nat
    BY <2>1, <2>2
  <2>5. Len(Unread) > 0 /\ Len(Unread) # 0
    BY <2>1, <2>3
  <2>6. Current = Unread[1][1] /\ Place(lens, Unread[1]) = 1
    BY <1>2, <2>5 DEF Current, StreamShape
  <2> HIDE DEF s
  <2>7. s = lens[Current] + 1 /\ \A m \in 1 .. s - 1 : Unread[m] = <<Current, m>>
    BY <2>1, <2>3, <2>6, FirstEol
  <2>8. Stop - evnt = lens[Current]
    BY <1>5, <2>4, <2>7
  <2>9. ASSUME NEW j \in 1..lens[Current]
        PROVE  buf[evnt + j - 1] = <<Current, j>>
    <3>1. j \in 1 .. s - 1
      BY <2>4, <2>8
    <3>2. j \in 1 .. next - evnt
      BY <1>5, <2>2, <2>4, <2>8
    <3>3. QED
      BY <2>3, <2>7, <3>1, <3>2
  <2>10. QED
    BY <2>8, <2>9 DEF Event
<1>7. /\ queued' = Append(queued, Event(Current)) /\ queued \in Seq(Seq(Bytes))
      /\ queued' \in Seq(Seq(Bytes))
  BY <1>1, <1>2, <1>3, <1>6 DEF TypeOK
<1> DEFINE n == Len(queued)
<1>8. /\ n \in Nat /\ DOMAIN queued = 1..n /\ DOMAIN queued' = 1 .. n + 1
      /\ queued'[n + 1] = Event(Current)
      /\ \A k \in 1..n : queued'[k] = queued[k]
  <2>1. Event(Current) \in Seq(Bytes)
    BY <1>5 DEF Event, Bytes
  <2>2. QED
    BY <1>7, <2>1
<1> HIDE DEF n
<1>9. \A i : Event(i)' = Event(i)
  BY <1>1 DEF Event
<1>10. QueuedShape'
  <2>1. PICK f \in [1..n -> 1..Len(lens)] :
          /\ \A k \in 1..n : queued[k] = Event(f[k]) /\ f[k] < Current
          /\ \A k, m \in 1..n : k < m => f[k] < f[m]
    BY <1>2, <1>8 DEF QueuedShape
  <2>2. \A k \in 1 .. n + 1 : k = n + 1 \/ k \in 1..n
    BY <1>8
  <2>3. PICK g \in [1 .. n + 1 -> 1..Len(lens)] :
          g = [k \in 1 .. n + 1 |-> IF k = n + 1 THEN Current ELSE f[k]]
    <3>1. [k \in 1 .. n + 1 |-> IF k = n + 1 THEN Current ELSE f[k]]
          \in [1 .. n + 1 -> 1..Len(lens)]
      BY <1>3, <2>1, <2>2
    <3>2. QED
      BY <3>1
  <2>4. g[n + 1] = Current /\ \A k \in 1..n : g[k] = f[k] /\ k # n + 1
    BY <1>8, <2>3
  <2>5. \A k \in 1..n : f[k] \in 1..Len(lens) /\ f[k] < Current
    BY <2>1
  <2>6. ASSUME NEW k \in 1 .. n + 1
        PROVE  queued'[k] = Event(g[k])' /\ g[k] < Current'
    <3>1. CASE k = n + 1
      BY <1>3, <1>5, <1>8, <1>9, <2>4, <3>1
    <3>2. CASE k \in 1..n
      <4>1. f[k] < Current + 1
        BY <1>5, <2>5, <3>2
      <4>2. QED
        BY <1>3, <1>8, <1>9, <2>1, <2>4, <3>2, <4>1
    <3>3. QED
      BY <2>2, <3>1, <3>2
  <2>7. ASSUME NEW k \in 1 .. n + 1, NEW m \in 1 .. n + 1, k < m
        PROVE  g[k] < g[m]
    <3>1. k \in 1..n
      BY <1>8, <2>7
    <3>2. CASE m = n + 1
      BY <2>4, <2>5, <3>1, <3>2
    <3>3. CASE m \in 1..n
      BY <2>1, <2>4, <2>7, <3>1, <3>3
    <3>4. QED
      BY <2>2, <3>2, <3>3
  <2>8. g \in [DOMAIN queued' -> 1..Len(lens')]
    BY <1>1, <1>8, <2>3
  <2>9. /\ \A k \in DOMAIN queued' : queued'[k] = Event(g[k])' /\ g[k] < Current'
        /\ \A k, m \in DOMAIN queued' : k < m => g[k] < g[m]
    BY <1>8, <2>6, <2>7
  <2>10. QED
    BY <2>8, <2>9, Zenon DEF QueuedShape
<1>11. \A i : Oversized(i)' <=> Oversized(i)
  BY <1>1 DEF Oversized
<1>12. \A i : Missing(i)' => Missing(i)
  <2>1. SUFFICES ASSUME NEW i, Missing(i)', NEW k \in DOMAIN queued
                 PROVE  queued[k] # Event(i) \/ lens[i] = 0
    BY DEF Missing
  <2>2. k \in DOMAIN queued' /\ queued'[k] = queued[k]
    BY <1>8
  <2>3. queued'[k] # Event(i)' \/ lens'[i] = 0
    BY <2>1, <2>2 DEF Missing
  <2>4. QED
    BY <1>1, <1>9, <2>2, <2>3
<1>13. ASSUME NEW i \in 1 .. Current - 1, Missing(i) PROVE Missing(i)'
  <2>1. SUFFICES ASSUME NEW k \in DOMAIN queued'
                 PROVE  queued'[k] # Event(i)' \/ lens'[i] = 0
    BY DEF Missing
  <2>2. k = n + 1 \/ k \in 1..n
    BY <1>8
  <2>3. CASE k = n + 1
    <3>1. i \in Nat /\ i \in 1..Len(lens) /\ i # Current
      BY <1>3, <1>5
    <3>2. lens[i] \in Nat
      BY <1>5, <3>1
    <3>3. lens[i] > 0 => Event(Current) # Event(i)
      BY <1>5, <3>1, <3>2, EventsDiffer
    <3>4. Event(i)' = Event(i) /\ lens'[i] = lens[i] /\ queued'[k] = Event(Current)
      BY <1>1, <1>8, <1>9, <2>3
    <3>5. QED
      BY <3>2, <3>3, <3>4
  <2>4. CASE k \in 1..n
    BY <1>1, <1>8, <1>9, <1>13, <2>4 DEF Missing
  <2>5. QED
    BY <2>2, <2>3, <2>4
<1>14. MissingShape'
  <2>1. ASSUME NEW i \in 1 .. Current' - 1, lens'[i] > 0, Missing(i)'
        PROVE  AfterOversized(i)'
    <3>1. i = Current \/ i \in 1 .. Current - 1
      BY <1>3, <1>5
    <3>2. i # Current
      <4>1. n + 1 \in DOMAIN queued'
        BY <1>8
      <4>2. queued'[n + 1] # Event(i)' \/ lens'[i] = 0
        BY <2>1, <4>1 DEF Missing
      <4>3. lens[i] \in Nat /\ lens[i] # 0
        BY <1>1, <1>3, <1>5, <2>1, <3>1
      <4>4. QED
        BY <1>1, <1>8, <1>9, <4>2, <4>3
    <3>3. AfterOversized(i)
      BY <1>1, <1>2, <1>12, <2>1, <3>1, <3>2 DEF MissingShape
    <3>4. PICK j \in 1..i : Oversized(j) /\ \A m \in j..i : Missing(m)
      BY <3>3 DEF AfterOversized
    <3>5. \A m \in j..i : m \in 1 .. Current - 1
      BY <1>5, <3>1, <3>2
    <3>6. QED
      BY <1>11, <1>13, <3>4, <3>5 DEF AfterOversized
  <2>2. ~drop_next' /\ buffered_events' # 0
    BY <1>1, <1>2 DEF TypeOK
  <2>3. QED
    BY <2>1, <2>2 DEF MissingShape
<1>15. QED
  BY <1>3, <1>4, <1>10, <1>14 DEF Inv

-----------------------------------------------------------------------------
(* The results.                                                            *)

LEMMA InvInit == ASSUME ~Recycled, Init PROVE Inv
<1> USE ReceiveAssumption
<1>1. /\ lens = <<>> /\ input = <<>> /\ evnt = 0 /\ curr = 0 /\ next = 0
      /\ done = FALSE /\ drop_next = FALSE /\ buffered_events = 0
      /\ queued = <<>> /\ pc = "top"
  BY DEF Init
<1>2. NUL \in Bytes /\ ~IsEol(NUL)
  BY DEF NUL, Bytes, IsEol, EOL
<1>3. PICK b \in [0..PIPE_BUF_SIZE -> {NUL}] : buf = [b EXCEPT ![PIPE_BUF_SIZE] = NUL]
  BY DEF Init
<1>4. buf \in [0..PIPE_BUF_SIZE -> Bytes]
      /\ \A k \in 0..PIPE_BUF_SIZE : ~IsEol(buf[k])
  BY <1>2, <1>3
<1>5. TypeOK
  BY <1>1, <1>4 DEF TypeOK
<1>6. BufferShape
  BY <1>1, <1>4 DEF BufferShape
<1>7. Len(Unread) = 0
  BY <1>1, <1>5, <1>6, UnreadFacts
<1>8. StreamShape
  BY <1>7 DEF StreamShape, IsStream
<1>9. Current = 1
  BY <1>1, <1>7 DEF Current
<1>10. QueuedShape
  <2>1. DOMAIN queued = {}
    BY <1>1
  <2>2. [k \in {} |-> 0] \in [DOMAIN queued -> 1..Len(lens)]
    BY <2>1
  <2>3. QED
    BY <2>1, <2>2 DEF QueuedShape
<1>11. MissingShape
  BY <1>1, <1>9 DEF MissingShape
<1>12. QED
  BY <1>5, <1>6, <1>8, <1>10, <1>11 DEF Inv

LEMMA InvNext == ASSUME Inv, [Next]_vars PROVE Inv'
<1>1. CASE \E n \in 0..MaxLen : Send(n)
  BY <1>1, ReceiveAssumption, SendStep
<1>2. CASE \E n \in 1..PIPE_BUF_SIZE : Read(n)
  BY <1>2, ReadStep
<1>3. CASE ReadEof
  BY <1>3, ReadEofStep
<1>4. CASE EndOfLine
  BY <1>4, DropStep, QueueStep
<1>5. CASE Partial
  BY <1>5, PartialStep
<1>6. CASE Shift
  BY <1>6, ShiftStep
<1>7. CASE TooLarge
  BY <1>7, TooLargeStep
<1>8. CASE NothingToSettle
  BY <1>8, NothingToSettleStep
<1>9. CASE Leave
  BY <1>9, LeaveStep
<1>10. CASE UNCHANGED vars
  <2>1. TypeOK' /\ BufferShape'
    BY <1>10 DEF Inv, TypeOK, BufferShape, vars
  <2>2. QED
    BY <1>10, <2>1, QuietStep DEF vars
<1>11. QED
  BY <1>1, <1>2, <1>3, <1>4, <1>5, <1>6, <1>7, <1>8, <1>9, <1>10
     DEF Next, Finished

\* At the end nothing is unread: what is left in the buffer has no end of line.
LEMMA InvDelivers == ASSUME Inv PROVE EventsDelivered
<1>1. TypeOK /\ BufferShape /\ StreamShape /\ QueuedShape /\ MissingShape
  BY DEF Inv
<1>2. Len(lens) \in Nat /\ DOMAIN lens = 1..Len(lens)
  BY <1>1 DEF TypeOK
<1>3. WholeEventsInOrder
  BY <1>1, <1>2 DEF QueuedShape, WholeEventsInOrder
<1>4. ASSUME pc = "end" PROVE Len(Unread) = 0
  <2>1. SUFFICES ASSUME Len(Unread) # 0 PROVE FALSE
    OBVIOUS
  <2>2. /\ evnt \in Nat /\ next \in Nat /\ next <= PIPE_BUF_SIZE /\ curr = next
        /\ input = <<>> /\ PIPE_BUF_SIZE \in Nat
    BY <1>1, <1>4, ReceiveAssumption DEF TypeOK, BufferShape
  <2>3. /\ Lengths(lens) /\ Len(Unread) \in Nat /\ Len(Unread) = next - evnt
        /\ \A k \in 1 .. next - evnt : Unread[k] = buf[evnt + k - 1]
    BY <1>1, <2>2, UnreadFacts
  <2>4. 1 \in 1..Len(Unread) /\ IsStream(lens, Unread)
    BY <1>1, <2>1, <2>3 DEF StreamShape
  <2> DEFINE e == EndOf(lens, Unread, 1)
  <2>5. e \in 1..Len(Unread) /\ Unread[e] = <<Unread[1][1], EOL>>
    BY <2>3, <2>4, EndType
  <2> HIDE DEF e
  <2>6. evnt + e - 1 \in 0..PIPE_BUF_SIZE /\ evnt + e - 1 \notin curr .. next - 1
    BY <2>2, <2>3, <2>5
  <2>7. Unread[e] = buf[evnt + e - 1]
    BY <2>3, <2>5
  <2>8. QED
    BY <1>1, <2>5, <2>6, <2>7 DEF BufferShape, IsEol
<1>5. OnlyAfterOversized
  <2>1. SUFFICES ASSUME pc = "end", NEW i \in DOMAIN lens, lens[i] > 0, Missing(i)
                 PROVE  AfterOversized(i)
    BY DEF OnlyAfterOversized
  <2>2. Current = Len(lens) + 1
    BY <1>4, <2>1 DEF Current
  <2>3. i \in 1 .. Current - 1
    BY <1>2, <2>2
  <2>4. QED
    BY <1>1, <2>1, <2>3 DEF MissingShape
<1>6. QED
  BY <1>3, <1>5 DEF EventsDelivered

\* receive_loop queues whole events in the order they were written, whatever
\* the size of the buffer, however the pipe cuts the stream; and when it ends,
\* an event is missing only if it is too large for the buffer or follows such
\* an event with nothing queued between them.
THEOREM EventsDeliveredCorrect == ~Recycled => (Spec => []EventsDelivered)
<1>1. SUFFICES ASSUME ~Recycled PROVE Spec => []EventsDelivered
  OBVIOUS
<1>2. Init => Inv
  BY <1>1, InvInit
<1>3. Inv /\ [Next]_vars => Inv'
  BY InvNext
<1>4. Inv => EventsDelivered
  BY InvDelivers
<1>5. QED
  BY <1>2, <1>3, <1>4, PTL DEF Spec
=============================================================================
