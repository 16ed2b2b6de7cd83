------------------------- MODULE TransactionSafety --------------------------
(***************************************************************************)
(* One transaction, for any configuration, any length of the response and  *)
(* any way to cut it into brigades: phases run in order and once, nothing  *)
(* leaves before it was inspected, what leaves is the whole response, and  *)
(* the audit log has the entries that were asked for.                      *)
(***************************************************************************)
EXTENDS Transaction, TLAPS

\* Relevance is counted exactly for what asked for an entry; content is
\* injected at both ends or at none.
Sound(m) == /\ m.wanted => m.relevant > 0
            /\ m.relevant > 0 => m.wanted
            /\ m.append = m.prepend

\* Phases: a transaction without a context has none; one that was denied is
\* intercepted; an allow action is of a phase that ran.
ContextShape ==
    /\ ~msr.exists => /\ ran = <<>> /\ denied = 0
                      /\ msr.ofStatus = "not_started" /\ msr.scope = "none"
    /\ pc \in {"connect", "early"} => ~msr.exists
    /\ pc \in {"connect", "early", "late", "insert"} => msr.phase <= 2 /\ denied = 0
    /\ denied # 0 => msr.intercepted
    /\ msr.scope # "none" => msr.phase >= 1
    /\ pc # "done" => Sound(msr)
    /\ msr.streamChanged => cfg.stream

\* The phases that ran are ascending, up to the phase of the transaction.
Ascending(r, k) == /\ r \in Seq(1..5)
                   /\ \A i \in 1..Len(r) : r[i] <= k
                   /\ \A i, j \in 1..Len(r) : i < j => r[i] < r[j]
OrderShape == Ascending(ran, msr.phase)

\* When the output filter is in the chain, and what it has kept by then.
FilterShape ==
    /\ msr.ofStatus = "not_started" =>
         msr.brigade = <<>> /\ msr.resLen = 0 /\ ~msr.skipping /\ ~msr.partial
    /\ pc \in {"connect", "early", "late", "insert"} =>
         /\ source = "handler" /\ left = page /\ sent = <<>>
         /\ msr.ofStatus = "not_started"
    /\ pc = "error" => sent = <<>>
    /\ pc # "respond" => ~inChain
    /\ inChain => msr.exists /\ msr.ofStatus # "complete"

\* The response of the handler on its way: what was sent and what is left make
\* up the page, with the content injected before it; or, while the filter
\* observes, nothing was sent and what it keeps and what is left do.
Observing == inChain /\ ~msr.skipping /\ ~msr.partial
HandlerShape ==
    pc = "respond" /\ source = "handler" =>
      /\ denied = 0
      /\ ~inChain => msr.ofStatus = "not_started" /\ sent \o left = page
      /\ Observing => /\ sent = <<>> /\ msr.phase <= 3
                      /\ msr.brigade \o left = page /\ msr.resLen = Len(msr.brigade)
      /\ inChain /\ ~Observing => sent \o left = Injected(cfg, msr.prepend, Pre) \o page

\* No unit of the response.
NoPage(s) == \A i \in 1..Len(s) : s[i] \notin 1..MaxPage

\* An error page takes the place of a response of which nothing was sent, and
\* a filter that starts again has nothing of it.
ErrorShape ==
    Buffered =>
      /\ ~msr.skipping /\ ~msr.partial
      /\ pc = "error" => msr.ofStatus = "complete" \/ msr.brigade = <<>>
      /\ source = "error" => /\ NoPage(sent) /\ NoPage(left)
                             /\ inChain => NoPage(msr.brigade)

LogShape == pc # "done" => audited = 0

Inv == /\ TypeOK /\ page = Units(Len(page)) /\ Len(page) <= MaxPage
       /\ ContextShape /\ OrderShape /\ FilterShape /\ HandlerShape /\ ErrorShape
       /\ LogShape /\ InspectedFirst /\ WholeResponse /\ AuditedWhenRelevant

-----------------------------------------------------------------------------
(* Sequences of buckets.                                                   *)

LEMMA DataFacts ==
    /\ <<>> \in Data /\ Len(<<>>) = 0
    /\ \A x \in Bucket : <<x>> \in Data
    /\ \A s \in Data : /\ Len(s) \in Nat /\ s \o <<>> = s /\ <<>> \o s = s
                       /\ Len(s) = 0 => s = <<>>
                       /\ \A i \in 1..Len(s) : s[i] \in Bucket
    /\ \A s, t \in Data : s \o t \in Data /\ Len(s \o t) = Len(s) + Len(t)
<1>1. \A s \in Data : /\ Len(s) \in Nat /\ s \o <<>> = s /\ <<>> \o s = s
                      /\ Len(s) = 0 => s = <<>>
                      /\ \A i \in 1..Len(s) : s[i] \in Bucket
  BY DEF Data
<1>2. \A s, t \in Data : s \o t \in Data /\ Len(s \o t) = Len(s) + Len(t)
  BY DEF Data
<1>3. QED
  BY <1>1, <1>2 DEF Data

LEMMA ConcatAssoc ==
    ASSUME NEW s \in Data, NEW t \in Data, NEW u \in Data
    PROVE  (s \o t) \o u = s \o (t \o u)
  BY DEF Data

LEMMA ConcatIndex ==
    ASSUME NEW s \in Data, NEW t \in Data
    PROVE  \A i \in 1..(Len(s) + Len(t)) :
             \/ i \in 1..Len(s) /\ (s \o t)[i] = s[i]
             \/ i - Len(s) \in 1..Len(t) /\ (s \o t)[i] = t[i - Len(s)]
  BY DEF Data

\* A brigade and what is left after it make up what was left before.
LEMMA CutFacts ==
    ASSUME NEW s \in Data, NEW n \in 0..Len(s)
    PROVE  /\ SubSeq(s, 1, n) \in Data /\ Len(SubSeq(s, 1, n)) = n
           /\ SubSeq(s, n + 1, Len(s)) \in Data
           /\ SubSeq(s, 1, n) \o SubSeq(s, n + 1, Len(s)) = s
           /\ n = Len(s) => SubSeq(s, 1, n) = s /\ SubSeq(s, n + 1, Len(s)) = <<>>
<1>1. Len(s) \in Nat /\ n \in Nat
  BY DataFacts
<1>2. SubSeq(s, 1, n) \in Data /\ Len(SubSeq(s, 1, n)) = n
  BY <1>1 DEF Data
<1>3. SubSeq(s, n + 1, Len(s)) \in Data /\ Len(SubSeq(s, n + 1, Len(s))) = Len(s) - n
  BY <1>1 DEF Data
<1>4. SubSeq(s, 1, n) \o SubSeq(s, n + 1, Len(s)) = s
  <2> DEFINE p == SubSeq(s, 1, n)
             q == SubSeq(s, n + 1, Len(s))
  <2>1. \A i \in 1..n : p[i] = s[i]
    BY <1>1 DEF Data
  <2>2. \A i \in 1..(Len(s) - n) : q[i] = s[n + i]
    BY <1>1 DEF Data
  <2>3. p \in Data /\ q \in Data /\ Len(p) = n /\ Len(q) = Len(s) - n
    BY <1>2, <1>3
  <2> HIDE DEF p, q
  <2>4. p \o q \in Data /\ Len(p \o q) = Len(p) + Len(q)
    BY <2>3, DataFacts, Zenon
  <2>5. \A i \in 1..Len(s) : (p \o q)[i] = s[i]
    <3> DEFINE r == p \o q
    <3>0. \A i \in 1..(Len(p) + Len(q)) :
            \/ i \in 1..Len(p) /\ r[i] = p[i]
            \/ i - Len(p) \in 1..Len(q) /\ r[i] = q[i - Len(p)]
      BY <2>3, ConcatIndex, Zenon
    <3> HIDE DEF r
    <3>3. ASSUME NEW i \in 1..Len(s) PROVE r[i] = s[i]
      <4>1. i \in 1..(Len(p) + Len(q)) /\ i \in Int
        BY <1>1, <2>3
      <4>2. \/ i \in 1..Len(p) /\ r[i] = p[i]
            \/ i - Len(p) \in 1..Len(q) /\ r[i] = q[i - Len(p)]
        BY <3>0, <4>1, Zenon
      <4>3. CASE i \in 1..n /\ r[i] = p[i]
        BY <2>1, <4>3
      <4>4. CASE i - n \in 1..(Len(s) - n) /\ r[i] = q[i - n]
        <5>1. n + (i - n) = i
          BY <1>1, <4>1
        <5>2. QED
          BY <2>2, <4>4, <5>1
      <4>5. QED
        BY <2>3, <4>2, <4>3, <4>4
    <3>4. QED
      BY <3>3 DEF r
  <2>6. Len(p \o q) = Len(s)
    BY <1>1, <2>3, <2>4
  <2> DEFINE r == p \o q
  <2>7. r \in Seq(Bucket) /\ s \in Seq(Bucket) /\ Len(r) = Len(s)
        /\ \A i \in 1..Len(s) : r[i] = s[i]
    BY <2>4, <2>5, <2>6 DEF Data
  <2> HIDE DEF r
  <2>8. r = s
    BY <2>7
  <2>9. QED
    BY <2>8 DEF p, q, r
<1>5. n = Len(s) => SubSeq(s, 1, n) = s /\ SubSeq(s, n + 1, Len(s)) = <<>>
  BY <1>1, <1>2, <1>3, <1>4, DataFacts
<1>6. QED
  BY <1>2, <1>3, <1>4, <1>5

\* The brigades a source can write.
LEMMA BrigadeFacts ==
    ASSUME left \in Data, NEW b \in Brigade
    PROVE  /\ b.data \in Data /\ b.eos \in BOOLEAN
           /\ SubSeq(left, Len(b.data) + 1, Len(left)) \in Data
           /\ b.data \o SubSeq(left, Len(b.data) + 1, Len(left)) = left
           /\ b.eos => b.data = left /\ SubSeq(left, Len(b.data) + 1, Len(left)) = <<>>
           /\ Buckets(b) = b.data \o (IF b.eos THEN <<Eos>> ELSE <<>>)
           /\ Buckets(b) \in Data
<1>1. Len(left) \in Nat
  BY DataFacts
<1>2. PICK n \in 0..Len(left) : b.data = SubSeq(left, 1, n)
  BY <1>1, TransactionBounds DEF Brigade, Brigades
<1>3. b.eos \in BOOLEAN /\ (b.eos => Len(b.data) = Len(left))
  BY DEF Brigade, Brigades
<1>4. /\ b.data \in Data /\ Len(b.data) = n
      /\ SubSeq(left, n + 1, Len(left)) \in Data
      /\ b.data \o SubSeq(left, n + 1, Len(left)) = left
      /\ n = Len(left) => b.data = left /\ SubSeq(left, n + 1, Len(left)) = <<>>
  BY <1>2, CutFacts
<1>5. <<Eos>> \in Data
  BY DataFacts DEF Bucket
<1>6. Buckets(b) = b.data \o (IF b.eos THEN <<Eos>> ELSE <<>>)
  BY DEF Buckets
<1>7. Buckets(b) \in Data
  BY <1>4, <1>5, <1>6, DataFacts
<1>8. QED
  BY <1>3, <1>4, <1>6, <1>7

-----------------------------------------------------------------------------
(* Phases and interception.                                                *)

LEMMA NewContextType ==
    ASSUME NEW c \in Configs
    PROVE  /\ NewContext(c) \in Contexts /\ Sound(NewContext(c))
           /\ NewContext(c).phase = 0 /\ NewContext(c).scope = "none"
           /\ ~NewContext(c).intercepted /\ NewContext(c).exists
           /\ NewContext(c).ofStatus = "not_started" /\ NewContext(c).brigade = <<>>
           /\ NewContext(c).resLen = 0 /\ ~NewContext(c).skipping
           /\ ~NewContext(c).partial /\ ~NewContext(c).streamChanged
           /\ NewContext(c).resbody = Null
<1>1. c.enabled \in Modes /\ <<>> \in Data
  BY ConfigsAssumption, DataFacts
<1>2. NewContext(c) \in Contexts
  BY <1>1 DEF NewContext, Contexts
<1>3. QED
  BY <1>2 DEF NewContext, Sound

\* A context stays one when fields are given values of their types.
LEMMA UpdateRelevance ==
    ASSUME NEW m \in Contexts, NEW k \in Nat, NEW w \in BOOLEAN
    PROVE  [m EXCEPT !.relevant = k, !.wanted = w] \in Contexts
  BY ZenonT(60) DEF Contexts

LEMMA UpdateInjection ==
    ASSUME NEW m \in Contexts, NEW x \in BOOLEAN, NEW y \in BOOLEAN
    PROVE  [m EXCEPT !.prepend = x, !.append = y] \in Contexts
  BY ZenonT(60) DEF Contexts

LEMMA UpdateStream ==
    ASSUME NEW m \in Contexts, NEW x \in BOOLEAN
    PROVE  [m EXCEPT !.streamChanged = x] \in Contexts
  BY ZenonT(60) DEF Contexts

LEMMA UpdateEngine ==
    ASSUME NEW m \in Contexts, NEW e \in Modes
    PROVE  [m EXCEPT !.enabled = e, !.user = e] \in Contexts
  BY ZenonT(60) DEF Contexts

LEMMA UpdateIntercept ==
    ASSUME NEW m \in Contexts, NEW a \in Denials \cup Allows, NEW x \in BOOLEAN,
           NEW y \in BOOLEAN
    PROVE  [m EXCEPT !.intercepted = TRUE, !.action = a, !.log = x, !.auditlog = y]
             \in Contexts
  BY ZenonT(60) DEF Contexts

LEMMA UpdateScope ==
    ASSUME NEW m \in Contexts, NEW k \in Nat, NEW x \in BOOLEAN,
           NEW s \in {"none", "allow", "allow_phase", "allow_request"}
    PROVE  [m EXCEPT !.relevant = k, !.intercepted = x, !.scope = s] \in Contexts
  BY ZenonT(60) DEF Contexts

LEMMA UpdatePhase ==
    ASSUME NEW m \in Contexts, NEW k \in 0..5
    PROVE  [m EXCEPT !.phase = k] \in Contexts
  BY ZenonT(60) DEF Contexts

LEMMA UpdateExists ==
    ASSUME NEW m \in Contexts, NEW x \in BOOLEAN
    PROVE  [m EXCEPT !.exists = x] \in Contexts
  BY ZenonT(60) DEF Contexts

\* What the rules of a phase and an interception leave to the filter.
SameFilter(m, n) ==
    /\ n.exists = m.exists /\ n.ofStatus = m.ofStatus /\ n.skipping = m.skipping
    /\ n.partial = m.partial /\ n.resLen = m.resLen /\ n.brigade = m.brigade
    /\ n.resbody = m.resbody

\* What the rules of a phase can have done.
RulesShape(n, c, o) ==
    /\ o.m \in Contexts /\ SameFilter(n, o.m) /\ Sound(o.m)
    /\ o.m.phase = n.phase /\ o.m.scope = n.scope
    /\ o.rc \in {-1, 0, 1}
    /\ o.rc # 1 => o.m.intercepted = n.intercepted
    /\ o.rc = 1 => /\ n.phase < 5 /\ o.m.action \in Denials \cup Allows
                   /\ o.m.auditlog => o.m.wanted
    /\ n.phase >= 4 => o.m.prepend = n.prepend
    /\ o.m.streamChanged => n.streamChanged \/ c.stream

LEMMA MatchFacts ==
    ASSUME NEW m \in Contexts, Sound(m), NEW audit \in BOOLEAN
    PROVE  /\ Match(m, audit) \in Contexts /\ SameFilter(m, Match(m, audit))
           /\ Sound(Match(m, audit)) /\ (audit => Match(m, audit).wanted)
           /\ Match(m, audit).phase = m.phase /\ Match(m, audit).scope = m.scope
           /\ Match(m, audit).intercepted = m.intercepted
           /\ Match(m, audit).prepend = m.prepend
           /\ Match(m, audit).streamChanged = m.streamChanged
<1>1. m.relevant \in Nat /\ m.wanted \in BOOLEAN
  BY DEF Contexts
<1>2. /\ (IF audit THEN m.relevant + 1 ELSE m.relevant) \in Nat
      /\ (m.wanted \/ audit) \in BOOLEAN /\ m.relevant + 1 > 0
  BY <1>1
<1>3. Match(m, audit) \in Contexts
  BY <1>2, UpdateRelevance, Zenon DEF Match
<1>4. QED
  BY <1>1, <1>2, <1>3 DEF Match, Contexts, SameFilter, Sound

LEMMA RulesFacts ==
    ASSUME NEW n \in Contexts, Sound(n), NEW c \in Configs, NEW o \in RulesOutcomes(n, c)
    PROVE  RulesShape(n, c, o)
<1>1. CASE \E rc \in {0, -1} : o = [m |-> n, rc |-> rc]
  BY <1>1 DEF RulesShape, SameFilter
<1>2. CASE \E audit \in BOOLEAN : o = [m |-> Match(n, audit), rc |-> 0]
  BY <1>2, MatchFacts DEF RulesShape
<1>3. ASSUME NEW inject \in {c.injection /\ n.phase < 4},
             o = [m |-> [n EXCEPT !.prepend = @ \/ inject, !.append = @ \/ inject],
                  rc |-> 0]
      PROVE  RulesShape(n, c, o)
  <2>1. (n.prepend \/ inject) \in BOOLEAN /\ (n.append \/ inject) \in BOOLEAN
    OBVIOUS
  <2>2. o.m \in Contexts
    BY <1>3, <2>1, UpdateInjection, Zenon
  <2>3. n.phase >= 4 => o.m.prepend = n.prepend
    <3>1. n.phase >= 4 => ~(n.phase < 4)
      <4>1. n.phase \in 0..5
        BY DEF Contexts
      <4>2. QED
        BY <4>1
    <3>2. o.m.prepend = (n.prepend \/ inject) /\ n.prepend \in BOOLEAN
      BY <1>3 DEF Contexts
    <3>3. inject = (c.injection /\ n.phase < 4)
      OBVIOUS
    <3>4. QED
      BY <3>1, <3>2, <3>3, Zenon
  <2>4. o.m.append = o.m.prepend
    BY <1>3 DEF Contexts, Sound
  <2>5. /\ SameFilter(n, o.m) /\ o.rc = 0 /\ o.m.phase = n.phase /\ o.m.scope = n.scope
        /\ o.m.intercepted = n.intercepted /\ o.m.streamChanged = n.streamChanged
        /\ o.m.wanted = n.wanted /\ o.m.relevant = n.relevant
    BY <1>3 DEF SameFilter, Contexts
  <2>6. QED
    BY <2>2, <2>3, <2>4, <2>5 DEF RulesShape, Sound
<1>4. ASSUME NEW change \in {c.stream /\ n.phase = 4},
             o = [m |-> [n EXCEPT !.streamChanged = @ \/ change], rc |-> 0]
      PROVE  RulesShape(n, c, o)
  <2>1. (n.streamChanged \/ change) \in BOOLEAN
    OBVIOUS
  <2>2. o.m \in Contexts
    BY <1>4, <2>1, UpdateStream, Zenon
  <2>3. o.m.streamChanged => n.streamChanged \/ c.stream
    BY <1>4 DEF Contexts
  <2>4. QED
    BY <1>4, <2>2, <2>3 DEF RulesShape, SameFilter, Sound, Contexts
<1>5. ASSUME NEW e \in c.ctlEngine, o = [m |-> [n EXCEPT !.enabled = e, !.user = e], rc |-> 0]
      PROVE  RulesShape(n, c, o)
  <2>1. e \in Modes
    BY ConfigsAssumption
  <2>2. o.m \in Contexts
    BY <1>5, <2>1, UpdateEngine, Zenon
  <2>3. /\ SameFilter(n, o.m) /\ o.rc = 0 /\ o.m.phase = n.phase /\ o.m.scope = n.scope
        /\ o.m.intercepted = n.intercepted /\ o.m.streamChanged = n.streamChanged
        /\ o.m.wanted = n.wanted /\ o.m.relevant = n.relevant
        /\ o.m.prepend = n.prepend /\ o.m.append = n.append
    BY <1>5 DEF SameFilter, Contexts
  <2>4. QED
    BY <2>2, <2>3 DEF RulesShape, Sound
<1>6. ASSUME NEW d \in [action : {a \in c.actions : n.phase < 5 /\ n.enabled = "On"},
                         log : BOOLEAN, auditlog : BOOLEAN],
             o = [m |-> [Match(n, d.auditlog) EXCEPT
                           !.intercepted = TRUE, !.action = d.action,
                           !.log = d.log, !.auditlog = d.auditlog], rc |-> 1]
      PROVE  RulesShape(n, c, o)
  <2> DEFINE k == Match(n, d.auditlog)
  <2>1. /\ d.action \in Denials \cup Allows /\ n.phase < 5
        /\ d.log \in BOOLEAN /\ d.auditlog \in BOOLEAN
    BY ConfigsAssumption
  <2>2. /\ k \in Contexts /\ SameFilter(n, k) /\ Sound(k) /\ (d.auditlog => k.wanted)
        /\ k.phase = n.phase /\ k.scope = n.scope /\ k.prepend = n.prepend
        /\ k.streamChanged = n.streamChanged
    BY <2>1, MatchFacts
  <2> HIDE DEF k
  <2>3. o.m = [k EXCEPT !.intercepted = TRUE, !.action = d.action, !.log = d.log,
                        !.auditlog = d.auditlog] /\ o.rc = 1
    BY <1>6 DEF k
  <2>4. o.m \in Contexts
    <3>1. [k EXCEPT !.intercepted = TRUE, !.action = d.action, !.log = d.log,
                    !.auditlog = d.auditlog] \in Contexts
      BY <2>1, <2>2, UpdateIntercept
    <3>2. QED
      BY <2>3, <3>1, Zenon
  <2>5. QED
    BY <2>1, <2>2, <2>3, <2>4 DEF RulesShape, SameFilter, Sound, Contexts
<1>7. \/ \E rc \in {0, -1} : o = [m |-> n, rc |-> rc]
      \/ \E audit \in BOOLEAN : o = [m |-> Match(n, audit), rc |-> 0]
      \/ \E inject \in {c.injection /\ n.phase < 4} :
            o = [m |-> [n EXCEPT !.prepend = @ \/ inject, !.append = @ \/ inject],
                 rc |-> 0]
      \/ \E change \in {c.stream /\ n.phase = 4} :
            o = [m |-> [n EXCEPT !.streamChanged = @ \/ change], rc |-> 0]
      \/ \E e \in c.ctlEngine : o = [m |-> [n EXCEPT !.enabled = e, !.user = e], rc |-> 0]
      \/ \E d \in [action : {a \in c.actions : n.phase < 5 /\ n.enabled = "On"},
                    log : BOOLEAN, auditlog : BOOLEAN] :
            o = [m |-> [Match(n, d.auditlog) EXCEPT
                          !.intercepted = TRUE, !.action = d.action,
                          !.log = d.log, !.auditlog = d.auditlog], rc |-> 1]
  BY Zenon DEF RulesOutcomes
<1>8. QED
  BY <1>1, <1>2, <1>3, <1>4, <1>5, <1>6, <1>7, Zenon

\* What a phase can have done, before an interception.
ProcessShape(m, phase, c, p) ==
    /\ p.m \in Contexts /\ SameFilter(m, p.m) /\ Sound(p.m)
    /\ p.ran \in BOOLEAN /\ p.rc \in {-1, 0, 1} /\ p.m.scope = m.scope
    /\ p.m.phase = m.phase \/ (p.m.phase = phase /\ m.phase < phase)
    /\ p.ran => /\ m.phase < phase /\ p.m.phase = phase
                /\ phase # 5 => ~m.intercepted
                /\ phase \in {2, 3, 4} => m.scope # "allow"
    /\ ~p.ran => p.rc = 0
    /\ phase = 5 => p.rc # 1
    /\ p.rc # 1 => p.m.intercepted = m.intercepted
    /\ p.rc = 1 => /\ p.ran /\ p.m.action \in Denials \cup Allows
                   /\ p.m.auditlog => p.m.wanted
    /\ phase >= 4 => p.m.prepend = m.prepend
    /\ p.m.streamChanged => m.streamChanged \/ c.stream

LEMMA ProcessFacts ==
    ASSUME NEW m \in Contexts, Sound(m), NEW c \in Configs, NEW phase \in 1..5,
           NEW p \in ProcessPhase(m, phase, c)
    PROVE  ProcessShape(m, phase, c, p)
<1> DEFINE n == [m EXCEPT !.phase = phase]
<1>0. phase \in 0..5 /\ phase \in Int /\ m.phase \in Int
  BY DEF Contexts
<1>1. n \in Contexts
  BY <1>0, UpdatePhase, Zenon
<1>2. /\ n.phase = phase /\ SameFilter(m, n) /\ n.scope = m.scope
      /\ n.intercepted = m.intercepted /\ n.prepend = m.prepend
      /\ n.streamChanged = m.streamChanged /\ n.append = m.append
      /\ n.wanted = m.wanted /\ n.relevant = m.relevant
  BY DEF Contexts, SameFilter
<1>3. Sound(n)
  BY <1>2 DEF Sound
<1>4. \/ p = [m |-> m, rc |-> 0, ran |-> FALSE]
      \/ /\ ~((m.intercepted /\ phase # 5) \/ m.phase >= phase)
         /\ p = [m |-> n, rc |-> 0, ran |-> FALSE]
      \/ /\ ~((m.intercepted /\ phase # 5) \/ m.phase >= phase)
         /\ ~PhaseAllowed(m, phase)
         /\ \E o \in RulesOutcomes(n, c) : p = [m |-> o.m, rc |-> o.rc, ran |-> TRUE]
  BY DEF ProcessPhase
<1> HIDE DEF n
<1>5. CASE p = [m |-> m, rc |-> 0, ran |-> FALSE]
  BY <1>5 DEF ProcessShape, SameFilter
<1>6. ASSUME ~((m.intercepted /\ phase # 5) \/ m.phase >= phase),
             p = [m |-> n, rc |-> 0, ran |-> FALSE]
      PROVE  ProcessShape(m, phase, c, p)
  <2>1. p.m = n /\ p.rc = 0 /\ p.ran = FALSE /\ m.phase < phase
    BY <1>0, <1>6
  <2>2. p.rc \in {-1, 0, 1} /\ ~(p.rc = 1)
    BY <2>1
  <2>3. ~p.ran /\ p.ran \in BOOLEAN
    BY <2>1, Zenon
  <2>4. QED
    BY <1>1, <1>2, <1>3, <2>1, <2>2, <2>3, Zenon DEF ProcessShape
<1>7. ASSUME ~((m.intercepted /\ phase # 5) \/ m.phase >= phase), ~PhaseAllowed(m, phase),
             NEW o \in RulesOutcomes(n, c), p = [m |-> o.m, rc |-> o.rc, ran |-> TRUE]
      PROVE  ProcessShape(m, phase, c, p)
  <2>1. RulesShape(n, c, o)
    BY <1>1, <1>3, RulesFacts
  <2>2. p.m = o.m /\ p.rc = o.rc /\ p.ran = TRUE /\ m.phase < phase
    BY <1>0, <1>7
  <2>3. phase # 5 => ~m.intercepted
    BY <1>7, Zenon
  <2>4. phase \in {2, 3, 4} => m.scope # "allow"
    BY <1>7 DEF PhaseAllowed
  <2>5. SameFilter(m, o.m)
    BY <1>2, <2>1 DEF RulesShape, SameFilter
  <2>6. phase = 5 => o.rc # 1
    BY <1>2, <2>1 DEF RulesShape
  <2>7. QED
    BY <1>0, <1>2, <2>1, <2>2, <2>3, <2>4, <2>5, <2>6 DEF ProcessShape, RulesShape
<1>8. QED
  BY <1>4, <1>5, <1>6, <1>7, Zenon

\* What an interception can have done.
InterceptShape(m, i) ==
    /\ i.m \in Contexts /\ SameFilter(m, i.m) /\ Sound(i.m)
    /\ i.m.phase = m.phase /\ i.m.prepend = m.prepend
    /\ i.m.streamChanged = m.streamChanged
    /\ i.status \in {"DECLINED", "denied", "dropped", "proxied"}
    /\ i.status # "DECLINED" => i.m.intercepted
    /\ i.status = "proxied" => m.phase < 3

LEMMA InterceptFacts ==
    ASSUME NEW m \in Contexts, Sound(m), m.action \in Denials \cup Allows,
           m.auditlog => m.wanted, NEW i \in PerformInterception(m)
    PROVE  InterceptShape(m, i)
<1>1. PICK s \in InterceptionStatus(m) :
        i = [status |-> s.status,
             m |-> LET level == IF m.log \/ s.forced THEN 1 ELSE 4
                   IN  [m EXCEPT
                          !.relevant = @ + (IF level <= 3 THEN 1 ELSE 0)
                                         - (IF ~m.auditlog /\ level <= 3 THEN 1 ELSE 0),
                          !.intercepted = m.action \notin Allows,
                          !.scope = IF m.action \notin Allows THEN @
                                    ELSE IF m.action = "pause" THEN "allow" ELSE m.action]]
  BY DEF PerformInterception
<1> DEFINE level == IF m.log \/ s.forced THEN 1 ELSE 4
           r == m.relevant + (IF level <= 3 THEN 1 ELSE 0)
                           - (IF ~m.auditlog /\ level <= 3 THEN 1 ELSE 0)
           x == m.action \notin Allows
           sc == IF m.action \notin Allows THEN m.scope
                 ELSE IF m.action = "pause" THEN "allow" ELSE m.action
<1>2. i.status = s.status /\ i.m = [m EXCEPT !.relevant = r, !.intercepted = x, !.scope = sc]
  BY <1>1
<1>3. s.status \in {"DECLINED", "denied", "dropped", "proxied"}
      /\ (s.status # "DECLINED" => m.action \notin Allows)
      /\ (s.status = "proxied" => m.phase < 3)
  BY DEF InterceptionStatus, Allows, Denials
<1>4. r \in Nat /\ (m.wanted => r > 0) /\ (r > 0 => m.wanted)
  <2>1. m.relevant \in Nat
    BY DEF Contexts
  <2>2. r = m.relevant \/ (r = m.relevant + 1 /\ m.auditlog)
    BY <2>1
  <2>3. QED
    BY <2>1, <2>2 DEF Sound
<1>5. sc \in {"none", "allow", "allow_phase", "allow_request"}
  <2>1. m.scope \in {"none", "allow", "allow_phase", "allow_request"}
    BY DEF Contexts
  <2>2. QED
    BY <2>1 DEF Allows
<1>6. x \in BOOLEAN
  OBVIOUS
<1> HIDE DEF r, x, sc
<1>7. i.m \in Contexts
  <2>1. [m EXCEPT !.relevant = r, !.intercepted = x, !.scope = sc] \in Contexts
    BY <1>4, <1>5, <1>6, UpdateScope, Zenon
  <2>2. QED
    BY <1>2, <2>1, Zenon
<1>8. /\ i.m.relevant = r /\ i.m.intercepted = x /\ i.m.wanted = m.wanted
      /\ i.m.append = m.append /\ i.m.prepend = m.prepend /\ i.m.phase = m.phase
      /\ i.m.streamChanged = m.streamChanged /\ SameFilter(m, i.m)
  BY <1>2 DEF Contexts, SameFilter
<1>9. i.status # "DECLINED" => x
  BY <1>2, <1>3 DEF x
<1>10. Sound(i.m)
  BY <1>4, <1>8 DEF Sound
<1>11. QED
  BY <1>2, <1>3, <1>7, <1>8, <1>9, <1>10 DEF InterceptShape

\* A phase with the interception it leads to.
PhaseShape(m, phase, c, o) ==
    /\ o.m \in Contexts /\ SameFilter(m, o.m) /\ Sound(o.m) /\ o.ran \in BOOLEAN
    /\ o.status \in {"DECLINED", "error", "denied", "dropped", "proxied"}
    /\ o.m.phase = m.phase \/ (o.m.phase = phase /\ m.phase < phase)
    /\ o.ran => /\ m.phase < phase /\ o.m.phase = phase /\ ~m.intercepted
                /\ phase \in {2, 3, 4} => m.scope # "allow"
    /\ ~o.ran => o.status = "DECLINED" /\ o.m.scope = m.scope
    /\ m.intercepted => o.m.intercepted
    /\ o.m.scope # m.scope => o.m.phase = phase
    /\ o.status \in {"denied", "dropped"} => o.m.intercepted
    /\ o.status = "proxied" => phase < 3
    /\ phase = 4 => o.m.prepend = m.prepend
    /\ o.m.streamChanged => m.streamChanged \/ c.stream

LEMMA PhaseFacts ==
    ASSUME NEW m \in Contexts, Sound(m), NEW c \in Configs, NEW phase \in 1..4,
           NEW o \in PhaseAndIntercept(m, phase, c)
    PROVE  PhaseShape(m, phase, c, o)
<1>1. PICK p \in ProcessPhase(m, phase, c) :
        o \in (IF p.rc > 0
               THEN {[m |-> i.m, status |-> i.status, ran |-> p.ran]
                       : i \in PerformInterception(p.m)}
               ELSE {[m |-> p.m, ran |-> p.ran,
                      status |-> IF p.rc < 0 THEN "error" ELSE "DECLINED"]})
  BY DEF PhaseAndIntercept
<1>2. phase \in 1..5 /\ phase # 5
  OBVIOUS
<1>3. ProcessShape(m, phase, c, p)
  BY <1>2, ProcessFacts
<1>4. CASE p.rc > 0
  <2>1. PICK i \in PerformInterception(p.m) :
               o = [m |-> i.m, status |-> i.status, ran |-> p.ran]
    BY <1>1, <1>4
  <2>2. /\ p.rc = 1 /\ p.m \in Contexts /\ Sound(p.m)
        /\ p.m.action \in Denials \cup Allows /\ (p.m.auditlog => p.m.wanted)
    BY <1>3, <1>4 DEF ProcessShape
  <2>3. InterceptShape(p.m, i)
    BY <2>2, InterceptFacts, Zenon
  <2>4. o.m = i.m /\ o.status = i.status /\ o.ran = p.ran
    BY <2>1
  <2>5. SameFilter(m, i.m)
    BY <1>3, <2>3 DEF ProcessShape, InterceptShape, SameFilter
  <2>6. QED
    BY <1>2, <1>3, <2>2, <2>3, <2>4, <2>5 DEF PhaseShape, ProcessShape, InterceptShape
<1>5. CASE ~(p.rc > 0)
  <2>1. o.m = p.m /\ o.ran = p.ran /\ o.status \in {"error", "DECLINED"}
        /\ (o.status = "error" => p.rc < 0)
    BY <1>1, <1>5
  <2>2. p.rc # 1
    BY <1>5
  <2>3. QED
    BY <1>2, <1>3, <2>1, <2>2 DEF PhaseShape, ProcessShape
<1>6. QED
  BY <1>4, <1>5

-----------------------------------------------------------------------------
(* The phases that ran.                                                    *)

LEMMA HigherPhase ==
    ASSUME NEW r, NEW k \in 0..5, Ascending(r, k), NEW k1 \in 0..5, k <= k1
    PROVE  Ascending(r, k1)
<1>1. \A i \in 1..Len(r) : r[i] \in 1..5 /\ r[i] <= k
  BY DEF Ascending
<1>2. \A i \in 1..Len(r) : r[i] <= k1
  BY <1>1
<1>3. QED
  BY <1>2 DEF Ascending

LEMMA OnePhase ==
    ASSUME NEW r, NEW k \in 0..5, Ascending(r, k), NEW p \in 1..5, k < p
    PROVE  /\ Ascending(Append(r, p), p) /\ Len(Append(r, p)) = Len(r) + 1
           /\ Append(r, p) = r \o << p >> /\ Append(r, p)[Len(r) + 1] = p
<1> DEFINE s == Append(r, p)
<1>1. r \in Seq(1..5) /\ Len(r) \in Nat
  BY DEF Ascending
<1>2. \A i \in 1..Len(r) : r[i] \in 1..5 /\ r[i] < p
  <2>1. \A i \in 1..Len(r) : r[i] \in 1..5 /\ r[i] <= k
    BY DEF Ascending
  <2>2. QED
    BY <2>1
<1>3. /\ s \in Seq(1..5) /\ Len(s) = Len(r) + 1 /\ s[Len(r) + 1] = p
      /\ \A i \in 1..Len(r) : s[i] = r[i]
  BY <1>1
<1>4. \A i, j \in 1..Len(r) : i < j => r[i] < r[j]
  BY DEF Ascending
<1>5. s = r \o << p >>
  BY <1>1
<1> HIDE DEF s
<1>6. \A i \in 1..Len(s) : s[i] <= p
  BY <1>1, <1>2, <1>3
<1>7. \A i, j \in 1..Len(s) : i < j => s[i] < s[j]
  <2> SUFFICES ASSUME NEW i \in 1..Len(s), NEW j \in 1..Len(s), i < j PROVE s[i] < s[j]
    OBVIOUS
  <2>1. i \in 1..Len(r)
    BY <1>1, <1>3
  <2>2. CASE j = Len(r) + 1
    BY <1>2, <1>3, <2>1, <2>2
  <2>3. CASE j \in 1..Len(r)
    BY <1>3, <1>4, <2>1, <2>3
  <2>4. QED
    BY <1>1, <1>3, <2>2, <2>3
<1>8. Ascending(s, p)
  BY <1>3, <1>6, <1>7 DEF Ascending
<1>9. QED
  BY <1>3, <1>5, <1>8 DEF s

\* A phase, if it ran, behind the ones that ran.
Behind(r, a, p) == r \o (IF a THEN << p >> ELSE <<>>)

LEMMA BehindFacts ==
    ASSUME NEW r, NEW k \in 0..5, Ascending(r, k), NEW k1 \in 0..5, k <= k1,
           NEW a \in BOOLEAN, NEW p \in 1..5, a => k < p /\ p <= k1
    PROVE  /\ Ascending(Behind(r, a, p), k1) /\ Len(r) <= Len(Behind(r, a, p))
           /\ ~a => Behind(r, a, p) = r
<1>1. Len(r) \in Nat
  BY DEF Ascending
<1>2. CASE a
  <2>1. k < p /\ p <= k1 /\ p \in 0..5
    BY <1>2
  <2>2. Behind(r, a, p) = r \o << p >>
    BY <1>2 DEF Behind
  <2>3. Ascending(Behind(r, a, p), p) /\ Len(Behind(r, a, p)) = Len(r) + 1
    BY <2>1, <2>2, OnePhase
  <2>4. Ascending(Behind(r, a, p), k1)
    BY <2>1, <2>3, HigherPhase
  <2>5. Len(r) <= Len(Behind(r, a, p))
    BY <1>1, <2>3
  <2>6. QED
    BY <1>2, <2>4, <2>5, Zenon
<1>3. CASE ~a
  <2>1. Behind(r, a, p) = r
    BY <1>3 DEF Behind, Ascending
  <2>2. Ascending(r, k1)
    BY HigherPhase
  <2>3. QED
    BY <1>1, <2>1, <2>2
<1>4. QED
  BY <1>2, <1>3

\* Two phases p and q that may run, from phase k over k1 to k2.
MayRun(r, k, a, p, k1, b, q, k2) ==
    /\ Ascending(r, k) /\ k \in 0..5 /\ k1 \in 0..5 /\ k2 \in 0..5 /\ k <= k1 /\ k1 <= k2
    /\ a \in BOOLEAN /\ b \in BOOLEAN /\ p \in 1..5 /\ q \in 1..5
    /\ a => k < p /\ p <= k1
    /\ b => k1 < q /\ q <= k2

LEMMA TwoPhases ==
    ASSUME NEW r, NEW k, NEW a, NEW p, NEW k1, NEW b, NEW q, NEW k2,
           MayRun(r, k, a, p, k1, b, q, k2)
    PROVE  /\ Ascending(Behind(Behind(r, a, p), b, q), k2)
           /\ Len(r) <= Len(Behind(Behind(r, a, p), b, q))
           /\ ~a /\ ~b => Behind(Behind(r, a, p), b, q) = r
<1>0. /\ Ascending(r, k) /\ k \in 0..5 /\ k1 \in 0..5 /\ k2 \in 0..5 /\ k <= k1 /\ k1 <= k2
      /\ a \in BOOLEAN /\ b \in BOOLEAN /\ p \in 1..5 /\ q \in 1..5
      /\ a => k < p /\ p <= k1
      /\ b => k1 < q /\ q <= k2
  BY Zenon DEF MayRun
<1> DEFINE t == Behind(r, a, p)
<1>1. Ascending(t, k1) /\ Len(r) <= Len(t) /\ (~a => t = r)
  BY <1>0, BehindFacts, ZenonT(60)
<1> HIDE DEF t
<1>2. /\ Ascending(Behind(t, b, q), k2) /\ Len(t) <= Len(Behind(t, b, q))
      /\ ~b => Behind(t, b, q) = t
  BY <1>0, <1>1, BehindFacts, ZenonT(60)
<1>3. Len(r) \in Nat /\ Len(t) \in Nat /\ Len(Behind(t, b, q)) \in Nat
  BY <1>0, <1>1, <1>2 DEF Ascending
<1>4. Len(r) <= Len(Behind(t, b, q))
  BY <1>1, <1>2, <1>3
<1>5. QED
  BY <1>1, <1>2, <1>4, Zenon DEF t

\* Ascending phases run in order, if nothing that ran was forbidden.
LEMMA InOrderFacts ==
    ASSUME Ascending(ran, msr.phase), NEW k \in 0..5, Ascending(ran', k),
           Len(ran) <= Len(ran'),
           ran' = ran \/ (denied = 0 /\ msr.scope # "allow")
             \/ \A i \in (Len(ran) + 1)..Len(ran') : ran'[i] = 5
    PROVE  InOrder
<1>1. Len(ran) \in Nat /\ Len(ran') \in Nat
  BY DEF Ascending
<1>2. QED
  BY <1>1 DEF Ascending, InOrder

\* A step in which no phase ran.
LEMMA NothingRan ==
    ASSUME OrderShape, ran' = ran
    PROVE  InOrder
<1>1. Len(ran) \in Nat
  BY DEF OrderShape, Ascending
<1>2. QED
  BY <1>1 DEF InOrder

-----------------------------------------------------------------------------
(* The steps in which no phase runs.                                       *)

LEMMA InitInv == Init => Inv
<1> SUFFICES ASSUME Init PROVE Inv
  OBVIOUS
<1>1. PICK n \in 0..MaxPage : page = Units(n)
  BY DEF Init
<1>2. n \in Nat /\ n <= MaxPage
  BY TransactionBounds
<1>3. page \in Data /\ Len(page) = n
  BY <1>1, <1>2 DEF Units, Data, Bucket
<1>4. page = Units(Len(page)) /\ Len(page) <= MaxPage
  BY <1>1, <1>2, <1>3
<1>5. /\ NewContext(cfg) \in Contexts /\ Sound(NewContext(cfg)) /\ NewContext(cfg).phase = 0
      /\ NewContext(cfg).scope = "none" /\ NewContext(cfg).ofStatus = "not_started"
      /\ NewContext(cfg).brigade = <<>> /\ NewContext(cfg).resLen = 0
      /\ ~NewContext(cfg).skipping /\ ~NewContext(cfg).partial
      /\ ~NewContext(cfg).streamChanged
  BY NewContextType, Zenon DEF Init
<1>6. /\ msr \in Contexts /\ Sound(msr) /\ msr.phase = 0 /\ msr.scope = "none"
      /\ msr.ofStatus = "not_started" /\ msr.brigade = <<>> /\ msr.resLen = 0
      /\ ~msr.skipping /\ ~msr.partial /\ ~msr.streamChanged /\ ~msr.exists
  <2>1. msr \in Contexts
    BY <1>5, UpdateExists, Zenon DEF Init
  <2>2. QED
    BY <1>5, <2>1 DEF Init, Contexts, Sound
<1>7. TypeOK
  <2>1. <<>> \in Data
    BY DataFacts
  <2>2. ran = <<>> /\ ran \in Seq(1..5)
    BY DEF Init
  <2>3. /\ cfg \in Configs /\ pc = "connect" /\ source = "handler" /\ left = page
        /\ inChain = FALSE /\ sent = <<>> /\ denied = 0 /\ audited = 0
    BY DEF Init
  <2>4. denied \in 0..4 /\ audited \in Nat
    BY <2>3
  <2>5. QED
    BY <1>3, <1>6, <2>1, <2>2, <2>3, <2>4, Zenon DEF TypeOK
<1>8. ContextShape
  BY <1>6 DEF Init, ContextShape
<1>9. OrderShape
  BY <1>6 DEF Init, OrderShape, Ascending
<1>10. FilterShape
  BY <1>6 DEF Init, FilterShape
<1>11. HandlerShape /\ LogShape /\ WholeResponse /\ AuditedWhenRelevant
  BY DEF Init, HandlerShape, LogShape, WholeResponse, AuditedWhenRelevant
<1>12. ErrorShape
  BY <1>6 DEF Init, ErrorShape
<1>13. InspectedFirst
  BY DEF Init, InspectedFirst, PageSent
<1>14. QED
  BY <1>4, <1>7, <1>8, <1>9, <1>10, <1>11, <1>12, <1>13 DEF Inv

LEMMA ConnectionEarlyStep ==
    ASSUME Inv, HookConnectionEarly
    PROVE  Inv' /\ InOrder
<1> USE DEF HookConnectionEarly
<1>1. TypeOK' /\ (page = Units(Len(page)))' /\ (Len(page) <= MaxPage)'
  BY DEF Inv, TypeOK
<1>2. ContextShape'
  BY DEF Inv, ContextShape
<1>3. OrderShape' /\ InOrder
  BY NothingRan DEF Inv, OrderShape
<1>4. FilterShape'
  BY DEF Inv, FilterShape
<1>5. HandlerShape' /\ LogShape'
  BY DEF Inv, HandlerShape, LogShape
<1>6. ErrorShape'
  BY DEF Inv, ErrorShape, FilterShape, Buffered
<1>7. InspectedFirst'
  BY DEF Inv, InspectedFirst, Buffered, PageSent
<1>8. WholeResponse'
  BY DEF Inv, WholeResponse, FilterShape, ToSet
<1>9. AuditedWhenRelevant'
  BY DEF Inv, AuditedWhenRelevant, ContextShape
<1>10. QED
  BY <1>1, <1>2, <1>3, <1>4, <1>5, <1>6, <1>7, <1>8, <1>9 DEF Inv

LEMMA NoContextStep ==
    ASSUME Inv, NoContextEarly
    PROVE  Inv' /\ InOrder
<1> USE DEF NoContextEarly
<1>1. TypeOK' /\ (page = Units(Len(page)))' /\ (Len(page) <= MaxPage)'
  BY DEF Inv, TypeOK
<1>2. ContextShape'
  BY DEF Inv, ContextShape
<1>3. OrderShape' /\ InOrder
  BY NothingRan DEF Inv, OrderShape
<1>4. FilterShape'
  BY DEF Inv, FilterShape
<1>5. HandlerShape' /\ LogShape' /\ WholeResponse' /\ AuditedWhenRelevant'
  BY DEF Inv, HandlerShape, LogShape, WholeResponse, AuditedWhenRelevant
<1>6. ErrorShape'
  BY DEF Inv, ErrorShape, FilterShape, Buffered
<1>7. InspectedFirst'
  BY DEF Inv, InspectedFirst, Buffered, PageSent
<1>8. QED
  BY <1>1, <1>2, <1>3, <1>4, <1>5, <1>6, <1>7 DEF Inv

LEMMA ErrorLogStep ==
    ASSUME Inv, HookErrorLog
    PROVE  Inv' /\ InOrder
<1> DEFINE n == NewContext(cfg)
<1>1. cfg \in Configs
  BY DEF Inv, TypeOK
<1>2. /\ n \in Contexts /\ Sound(n) /\ n.phase = 0 /\ n.scope = "none" /\ n.exists
      /\ n.ofStatus = "not_started" /\ n.brigade = <<>> /\ n.resLen = 0
      /\ ~n.skipping /\ ~n.partial /\ ~n.streamChanged
  BY <1>1, NewContextType, Zenon
<1>3. /\ msr' = n /\ ~msr.exists /\ pc \in {"late", "insert", "error", "respond", "log"}
      /\ UNCHANGED <<cfg, pc, source, left, inChain, sent, page, ran, denied, audited>>
  BY DEF HookErrorLog
<1> HIDE DEF n
<1>4. ran = <<>> /\ denied = 0 /\ msr.ofStatus = "not_started" /\ ~inChain
  BY <1>3, Zenon DEF Inv, ContextShape, FilterShape
<1>5. TypeOK' /\ (page = Units(Len(page)))' /\ (Len(page) <= MaxPage)'
  BY <1>2, <1>3 DEF Inv, TypeOK
<1>6. ContextShape'
  BY <1>2, <1>3, <1>4 DEF Inv, ContextShape
<1>7. OrderShape' /\ InOrder
  BY <1>2, <1>3, <1>4, NothingRan DEF Inv, OrderShape, Ascending
<1>8. FilterShape'
  BY <1>2, <1>3, <1>4 DEF Inv, FilterShape
<1>9. HandlerShape' /\ LogShape'
  BY <1>2, <1>3, <1>4 DEF Inv, HandlerShape, LogShape, Observing
<1>10. ErrorShape'
  BY <1>2, <1>3, <1>4 DEF Inv, ErrorShape, FilterShape, Buffered, NoPage
<1>11. InspectedFirst'
  BY <1>2, <1>3, <1>4 DEF InspectedFirst
<1>12. WholeResponse'
  BY <1>2, <1>3, <1>4 DEF Inv, WholeResponse, ToSet
<1>13. AuditedWhenRelevant'
  BY <1>3 DEF AuditedWhenRelevant
<1>14. QED
  BY <1>5, <1>6, <1>7, <1>8, <1>9, <1>10, <1>11, <1>12, <1>13 DEF Inv

LEMMA WithoutContextStep ==
    ASSUME Inv, HookWithoutContext
    PROVE  Inv' /\ InOrder
<1>1. /\ ~msr.exists /\ pc \in {"late", "insert", "error", "log"}
      /\ UNCHANGED <<cfg, msr, inChain, sent, page, ran, denied, audited>>
  BY DEF HookWithoutContext
<1>2. \/ /\ pc \in {"late", "insert", "log"} /\ source' = source /\ left' = left
         /\ pc = "late" => pc' = "insert"
         /\ pc = "insert" => pc' = "respond"
         /\ pc = "log" => pc' = "done"
      \/ pc = "error" /\ pc' = "respond" /\ source' = "error" /\ left' = <<Page>>
  BY DEF HookWithoutContext
<1>3. ~inChain /\ denied = 0 /\ msr.ofStatus = "not_started" /\ <<Page>> \in Data
  BY <1>1, DataFacts DEF Inv, ContextShape, FilterShape, Bucket
<1>4. TypeOK' /\ (page = Units(Len(page)))' /\ (Len(page) <= MaxPage)'
  BY <1>1, <1>2, <1>3 DEF Inv, TypeOK
<1>5. ContextShape'
  BY <1>1, <1>2 DEF Inv, ContextShape
<1>6. OrderShape' /\ InOrder
  BY <1>1, NothingRan DEF Inv, OrderShape
<1>7. FilterShape'
  BY <1>1, <1>2, <1>3 DEF Inv, FilterShape
<1>8. HandlerShape'
  <2>1. CASE pc = "insert"
    <3>1. sent = <<>> /\ left = page /\ page \in Data
      BY <2>1 DEF Inv, FilterShape, TypeOK
    <3>2. sent \o left = page
      BY <3>1, DataFacts
    <3>3. QED
      BY <1>1, <1>2, <1>3, <2>1, <3>2 DEF HandlerShape, Observing
  <2>2. CASE pc # "insert"
    BY <1>1, <1>2, <2>2 DEF HandlerShape
  <2>3. QED
    BY <2>1, <2>2
<1>9. ErrorShape'
  <2>1. NoPage(<<Page>>) /\ NoPage(<<>>)
    BY BucketsAssumption DEF NoPage
  <2>2. CASE pc = "error"
    <3>1. sent = <<>>
      BY <2>2 DEF Inv, FilterShape
    <3>2. QED
      BY <1>1, <1>2, <1>3, <2>1, <2>2, <3>1 DEF Inv, ErrorShape, Buffered
  <2>3. CASE pc # "error"
    BY <1>1, <1>2, <1>3, <2>3 DEF Inv, ErrorShape, Buffered, NoPage
  <2>4. QED
    BY <2>2, <2>3
<1>10. InspectedFirst'
  BY <1>1, <1>3 DEF InspectedFirst
<1>11. WholeResponse'
  BY <1>1, <1>2 DEF Inv, WholeResponse, ToSet
<1>12. LogShape' /\ AuditedWhenRelevant'
  BY <1>1, <1>2 DEF Inv, LogShape, AuditedWhenRelevant
<1>13. QED
  BY <1>4, <1>5, <1>6, <1>7, <1>8, <1>9, <1>10, <1>11, <1>12 DEF Inv

LEMMA InsertFilterStep ==
    ASSUME Inv, HookInsertFilter
    PROVE  Inv' /\ InOrder
<1>1. /\ pc = "insert" /\ msr.exists /\ pc' = "respond"
      /\ inChain' = (msr.enabled # "Off" /\ msr.ofStatus # "complete")
      /\ UNCHANGED <<cfg, msr, source, left, sent, page, ran, denied, audited>>
  BY DEF HookInsertFilter
<1>2. /\ source = "handler" /\ left = page /\ sent = <<>> /\ msr.ofStatus = "not_started"
      /\ msr.brigade = <<>> /\ msr.resLen = 0 /\ ~msr.skipping /\ ~msr.partial
      /\ msr.phase <= 2 /\ denied = 0 /\ page \in Data /\ msr \in Contexts
  BY <1>1 DEF Inv, FilterShape, ContextShape, TypeOK
<1>3. <<>> \o page = page /\ Len(<<>>) = 0
  BY <1>2, DataFacts
<1>4. TypeOK' /\ (page = Units(Len(page)))' /\ (Len(page) <= MaxPage)'
  BY <1>1 DEF Inv, TypeOK
<1>5. ContextShape'
  BY <1>1, <1>2 DEF Inv, ContextShape
<1>6. OrderShape' /\ InOrder
  BY <1>1, NothingRan DEF Inv, OrderShape
<1>7. FilterShape'
  BY <1>1, <1>2 DEF FilterShape
<1>8. HandlerShape'
  <2>1. msr.phase \in 0..5
    BY <1>2 DEF Contexts
  <2>2. msr.phase <= 3
    BY <1>2, <2>1
  <2>3. /\ denied' = 0 /\ msr'.ofStatus = "not_started" /\ sent' \o left' = page'
        /\ sent' = <<>> /\ msr'.phase <= 3 /\ msr'.brigade \o left' = page'
        /\ msr'.resLen = Len(msr'.brigade) /\ ~msr'.skipping /\ ~msr'.partial
    BY <1>1, <1>2, <1>3, <2>2
  <2>4. QED
    BY <2>3, Zenon DEF HandlerShape, Observing
<1>9. ErrorShape'
  BY <1>1, <1>2 DEF ErrorShape
<1>10. InspectedFirst'
  BY <1>1, <1>2 DEF InspectedFirst
<1>11. WholeResponse' /\ LogShape' /\ AuditedWhenRelevant'
  BY <1>1 DEF Inv, WholeResponse, LogShape, AuditedWhenRelevant
<1>12. QED
  BY <1>4, <1>5, <1>6, <1>7, <1>8, <1>9, <1>10, <1>11 DEF Inv

LEMMA UpdateError ==
    ASSUME NEW m \in Contexts, NEW x \in BOOLEAN
    PROVE  /\ [m EXCEPT !.isError = x] \in Contexts
           /\ SameFilter(m, [m EXCEPT !.isError = x])
<1>1. [m EXCEPT !.isError = x] \in Contexts
  BY ZenonT(60) DEF Contexts
<1>2. QED
  BY <1>1 DEF SameFilter, Contexts

\* What the steps that only note something leave to the phases too.
SamePhases(m, n) ==
    /\ n.phase = m.phase /\ n.scope = m.scope /\ n.intercepted = m.intercepted
    /\ n.prepend = m.prepend /\ n.streamChanged = m.streamChanged
    /\ Sound(m) => Sound(n)

LEMMA InsertErrorFilterStep ==
    ASSUME Inv, HookInsertErrorFilter
    PROVE  Inv' /\ InOrder
<1>1. /\ pc = "error" /\ msr.exists /\ pc' = "respond" /\ source' = "error"
      /\ left' = <<Page>> /\ inChain' \in BOOLEAN
      /\ inChain' => msr.ofStatus # "complete"
      /\ UNCHANGED <<cfg, sent, page, ran, denied, audited>>
  BY DEF HookInsertErrorFilter
<1>2. msr' = msr \/ msr' = [msr EXCEPT !.isError = msr.isError \/ inChain']
  BY DEF HookInsertErrorFilter
<1>3. msr \in Contexts /\ sent = <<>> /\ <<Page>> \in Data
  BY <1>1, DataFacts DEF Inv, TypeOK, FilterShape, Bucket
<1>4. msr' \in Contexts /\ SameFilter(msr, msr') /\ SamePhases(msr, msr')
  <2>1. CASE msr' = msr
    BY <1>3, <2>1 DEF SameFilter, SamePhases
  <2>2. CASE msr' = [msr EXCEPT !.isError = msr.isError \/ inChain']
    <3>1. (msr.isError \/ inChain') \in BOOLEAN
      OBVIOUS
    <3>2. msr' \in Contexts /\ SameFilter(msr, msr')
      BY <1>3, <2>2, <3>1, UpdateError, Zenon
    <3>3. QED
      BY <1>3, <2>2, <3>2 DEF SamePhases, Contexts, Sound
  <2>3. QED
    BY <1>2, <2>1, <2>2
<1>5. TypeOK' /\ (page = Units(Len(page)))' /\ (Len(page) <= MaxPage)'
  BY <1>1, <1>3, <1>4 DEF Inv, TypeOK
<1>6. ContextShape'
  BY <1>1, <1>4 DEF Inv, ContextShape, SameFilter, SamePhases
<1>7. OrderShape' /\ InOrder
  BY <1>1, <1>4, NothingRan DEF Inv, OrderShape, SamePhases
<1>8. FilterShape'
  BY <1>1, <1>4 DEF Inv, FilterShape, SameFilter
<1>9. HandlerShape'
  BY <1>1 DEF HandlerShape
<1>10. ErrorShape'
  <2>1. NoPage(<<Page>>) /\ NoPage(<<>>)
    BY BucketsAssumption DEF NoPage
  <2>2. Buffered => msr.ofStatus = "complete" \/ msr.brigade = <<>>
    BY <1>1 DEF Inv, ErrorShape
  <2>3. Buffered' = Buffered
    BY <1>1 DEF Buffered
  <2>4. QED
    BY <1>1, <1>3, <1>4, <2>1, <2>2, <2>3 DEF Inv, ErrorShape, SameFilter
<1>11. InspectedFirst'
  BY <1>1, <1>3 DEF InspectedFirst, PageSent
<1>12. WholeResponse' /\ LogShape' /\ AuditedWhenRelevant'
  BY <1>1 DEF Inv, WholeResponse, LogShape, AuditedWhenRelevant
<1>13. QED
  BY <1>5, <1>6, <1>7, <1>8, <1>9, <1>10, <1>11, <1>12 DEF Inv

-----------------------------------------------------------------------------
(* The hooks of the request.                                               *)

\* What every hook before the response leaves alone, and what it may do.
RequestStep(m, r, next) ==
    /\ UNCHANGED <<cfg, source, left, inChain, sent, page, audited>>
    /\ msr' = m /\ m \in Contexts /\ m.exists /\ Sound(m) /\ m.phase <= 2
    /\ m.ofStatus = "not_started" /\ m.brigade = <<>> /\ m.resLen = 0
    /\ ~m.skipping /\ ~m.partial
    /\ m.scope # "none" => m.phase >= 1
    /\ m.streamChanged => cfg.stream
    /\ ran' = r /\ Ascending(r, m.phase) /\ InOrder
    /\ denied' \in {0, 1, 2} /\ (denied' # 0 => m.intercepted)
    /\ pc' \in {"error", "log", next} /\ (pc' = next => denied' = 0)
    /\ next \in {"late", "insert"}

LEMMA RequestStepInv ==
    ASSUME Inv, pc \in {"early", "late"}, NEW m, NEW r, NEW next, RequestStep(m, r, next)
    PROVE  Inv' /\ InOrder
<1>1. /\ source = "handler" /\ left = page /\ sent = <<>> /\ ~inChain /\ audited = 0
  BY DEF Inv, FilterShape, LogShape
<1>2. TypeOK' /\ (page = Units(Len(page)))' /\ (Len(page) <= MaxPage)'
  BY DEF Inv, TypeOK, RequestStep, Ascending
<1>3. ContextShape'
  BY <1>1 DEF Inv, ContextShape, RequestStep
<1>4. OrderShape' /\ InOrder
  BY DEF RequestStep, OrderShape
<1>5. FilterShape'
  BY <1>1 DEF FilterShape, RequestStep
<1>6. HandlerShape' /\ LogShape' /\ AuditedWhenRelevant'
  BY <1>1 DEF HandlerShape, LogShape, AuditedWhenRelevant, RequestStep
<1>7. ErrorShape'
  BY <1>1 DEF ErrorShape, RequestStep
<1>8. InspectedFirst'
  BY <1>1 DEF InspectedFirst, PageSent, RequestStep
<1>9. WholeResponse'
  BY <1>1 DEF WholeResponse, RequestStep, ToSet
<1>10. QED
  BY <1>2, <1>3, <1>4, <1>5, <1>6, <1>7, <1>8, <1>9 DEF Inv

LEMMA MessageFacts ==
    ASSUME NEW m \in Contexts
    PROVE  /\ Message(m) \in Contexts /\ SameFilter(m, Message(m))
           /\ SamePhases(m, Message(m)) /\ Message(m).enabled = m.enabled
<1>1. m.relevant + 1 \in Nat /\ m.relevant + 1 > 0 /\ TRUE \in BOOLEAN
  BY DEF Contexts
<1>2. Message(m) \in Contexts
  BY <1>1, UpdateRelevance, Zenon DEF Message
<1>3. QED
  BY <1>1, <1>2 DEF Message, Contexts, SameFilter, SamePhases, Sound

LEMMA UpdateInbound ==
    ASSUME NEW m \in Contexts
    PROVE  /\ [m EXCEPT !.inbound = TRUE] \in Contexts
           /\ SameFilter(m, [m EXCEPT !.inbound = TRUE])
           /\ SamePhases(m, [m EXCEPT !.inbound = TRUE])
<1>1. [m EXCEPT !.inbound = TRUE] \in Contexts
  BY ZenonT(60) DEF Contexts
<1>2. QED
  BY <1>1 DEF Contexts, SameFilter, SamePhases, Sound

LEMMA UpdateBegun ==
    ASSUME NEW m \in Contexts, NEW e \in Modes
    PROVE  /\ [m EXCEPT !.bodyComplete = TRUE, !.enabled = e] \in Contexts
           /\ SameFilter(m, [m EXCEPT !.bodyComplete = TRUE, !.enabled = e])
           /\ SamePhases(m, [m EXCEPT !.bodyComplete = TRUE, !.enabled = e])
<1>1. [m EXCEPT !.bodyComplete = TRUE, !.enabled = e] \in Contexts
  BY ZenonT(60) DEF Contexts
<1>2. QED
  BY <1>1 DEF Contexts, SameFilter, SamePhases, Sound

LEMMA RequestEarlyStep ==
    ASSUME Inv, HookRequestEarly
    PROVE  Inv' /\ InOrder
<1> DEFINE n == NewContext(cfg)
<1>1. cfg \in Configs /\ pc = "early" /\ ~msr.exists
  BY DEF Inv, TypeOK, ContextShape, HookRequestEarly
<1>2. /\ n \in Contexts /\ Sound(n) /\ n.phase = 0 /\ n.scope = "none" /\ n.exists
      /\ n.ofStatus = "not_started" /\ n.brigade = <<>> /\ n.resLen = 0 /\ ~n.intercepted
      /\ ~n.skipping /\ ~n.partial /\ ~n.streamChanged
  BY <1>1, NewContextType, Zenon
<1>3. UNCHANGED <<cfg, source, left, inChain, sent, page, audited>> /\ ran = <<>> /\ denied = 0
  BY <1>1 DEF HookRequestEarly, Inv, ContextShape
<1>4. Ascending(ran, 0) /\ Ascending(ran, msr.phase)
  BY <1>3 DEF Ascending
<1>5. CASE ~(cfg.early /\ cfg.enabled # "Off")
  <2>1. pc' = "late" /\ msr' = n /\ ran' = ran /\ denied' = denied
    BY <1>5 DEF HookRequestEarly
  <2>2. InOrder
    BY <2>1, NothingRan DEF Inv
  <2> HIDE DEF n
  <2>3. RequestStep(n, ran, "late")
    BY <1>2, <1>3, <1>4, <2>1, <2>2 DEF RequestStep
  <2>4. QED
    BY <1>1, <2>3, RequestStepInv
<1>6. CASE cfg.early /\ cfg.enabled # "Off"
  <2>1. PICK o \in PhaseAndIntercept(n, 1, cfg) :
          LET over == /\ o.status \in {"DECLINED", "error"}
                      /\ o.m.enabled # "Off" /\ Over(cfg)
              refuse == over /\ o.m.enabled = "On" /\ cfg.reject
          IN  /\ msr' = IF over THEN Message(o.m) ELSE o.m
              /\ Ran(o, 1)
              /\ Deny(o, 1)
              /\ Continue(IF refuse THEN "refused" ELSE o.status, "late")
    BY <1>6 DEF HookRequestEarly
  <2> HIDE DEF n
  <2>2. PhaseShape(n, 1, cfg, o)
    BY <1>1, <1>2, PhaseFacts
  <2>3. /\ o.m \in Contexts /\ SameFilter(n, o.m) /\ Sound(o.m) /\ o.ran \in BOOLEAN
        /\ o.m.phase \in {0, 1} /\ (o.ran => o.m.phase = 1)
        /\ o.m.scope # "none" => o.m.phase = 1
        /\ o.status \in {"denied", "dropped"} => o.m.intercepted
        /\ o.m.streamChanged => cfg.stream
        /\ o.status \in {"DECLINED", "error", "denied", "dropped", "proxied"}
    BY <1>2, <2>2 DEF PhaseShape
  <2>4. /\ msr' \in Contexts /\ SameFilter(o.m, msr') /\ SamePhases(o.m, msr')
    <3>1. msr' = o.m \/ msr' = Message(o.m)
      BY <2>1
    <3>2. CASE msr' = o.m
      BY <2>3, <3>2 DEF SameFilter, SamePhases
    <3>3. CASE msr' = Message(o.m)
      BY <2>3, <3>3, MessageFacts, Zenon
    <3>4. QED
      BY <3>1, <3>2, <3>3
  <2>5. /\ ran' = Behind(ran, o.ran, 1)
        /\ denied' = IF o.status \in {"denied", "dropped"} THEN 1 ELSE 0
    <3>1. ran \in Seq(1..5)
      BY <1>4 DEF Ascending
    <3>2. QED
      BY <1>3, <2>1, <2>3, <3>1 DEF Ran, Deny, Behind
  <2>6. pc' \in {"error", "log", "late"} /\ (pc' = "late" => o.status \notin {"denied", "dropped"})
    BY <2>1, <2>3 DEF Continue
  <2>7. Ascending(ran', o.m.phase) /\ Len(ran) <= Len(ran')
    <3>1. o.m.phase \in 0..5 /\ 0 <= o.m.phase /\ 0 \in 0..5 /\ 1 \in 1..5
          /\ (o.ran => 0 < 1 /\ 1 <= o.m.phase)
      BY <2>3
    <3>2. Ascending(ran, 0) /\ o.ran \in BOOLEAN
      BY <1>4, <2>3
    <3>3. /\ Ascending(Behind(ran, o.ran, 1), o.m.phase)
          /\ Len(ran) <= Len(Behind(ran, o.ran, 1))
      BY <3>1, <3>2, BehindFacts, ZenonT(60)
    <3>4. QED
      BY <2>5, <3>3, Zenon
  <2>8. InOrder
    <3>1. o.m.phase \in 0..5 /\ (denied = 0 /\ msr.scope # "allow")
      <4>1. msr.scope = "none"
        BY <1>1 DEF Inv, ContextShape
      <4>2. QED
        BY <1>3, <2>3, <4>1
    <3>2. QED
      BY <1>4, <2>7, <3>1, InOrderFacts
  <2>9. RequestStep(msr', ran', "late")
    BY <1>2, <1>3, <2>3, <2>4, <2>5, <2>6, <2>7, <2>8
       DEF RequestStep, SameFilter, SamePhases
  <2>10. QED
    BY <1>1, <2>9, RequestStepInv
<1>7. QED
  BY <1>5, <1>6

\* What LateBody can have done: the limit, the body and phase 2.
LEMMA LateBodyFacts ==
    ASSUME cfg \in Configs, NEW m \in Contexts, Sound(m), NEW b \in LateBody(m)
    PROVE  \E seen \in Contexts :
             /\ SameFilter(m, seen) /\ SamePhases(m, seen)
             /\ \/ PhaseShape(seen, 2, cfg, b)
                \/ b.m = seen /\ b.status = "refused" /\ b.ran = FALSE
<1> DEFINE seen == IF Over(cfg) THEN [Message(m) EXCEPT !.inbound = TRUE] ELSE m
<1>1. seen \in Contexts /\ SameFilter(m, seen) /\ SamePhases(m, seen)
  <2>1. CASE Over(cfg)
    <3>1. /\ Message(m) \in Contexts /\ SameFilter(m, Message(m))
          /\ SamePhases(m, Message(m))
      BY MessageFacts
    <3>2. /\ seen \in Contexts /\ SameFilter(Message(m), seen)
          /\ SamePhases(Message(m), seen)
      BY <2>1, <3>1, UpdateInbound
    <3> HIDE DEF seen
    <3>3. QED
      BY <3>1, <3>2 DEF SameFilter, SamePhases
  <2>2. CASE ~Over(cfg)
    BY <2>2 DEF SameFilter, SamePhases
  <2>3. QED
    BY <2>1, <2>2
<1>2. Sound(seen)
  BY <1>1 DEF SamePhases
<1>3. /\ Message(seen) \in Contexts /\ SameFilter(seen, Message(seen))
      /\ SamePhases(seen, Message(seen))
  BY <1>1, MessageFacts
<1>4. \/ b \in PhaseAndIntercept(seen, 2, cfg)
      \/ b = [m |-> seen, status |-> "refused", ran |-> FALSE]
      \/ b = [m |-> Message(seen), status |-> "refused", ran |-> FALSE]
  BY DEF LateBody
<1> HIDE DEF seen
<1>5. CASE b \in PhaseAndIntercept(seen, 2, cfg)
  <2>1. PhaseShape(seen, 2, cfg, b)
    BY <1>1, <1>2, <1>5, PhaseFacts
  <2>2. QED
    BY <1>1, <2>1
<1>6. CASE b = [m |-> seen, status |-> "refused", ran |-> FALSE]
  <2>1. b.m = seen /\ b.status = "refused" /\ b.ran = FALSE
    BY <1>6
  <2>2. QED
    BY <1>1, <2>1
<1>7. CASE b = [m |-> Message(seen), status |-> "refused", ran |-> FALSE]
  <2>1. b.m = Message(seen) /\ b.status = "refused" /\ b.ran = FALSE
    BY <1>7
  <2>2. SameFilter(m, Message(seen)) /\ SamePhases(m, Message(seen))
    BY <1>1, <1>3 DEF SameFilter, SamePhases
  <2>3. QED
    BY <1>3, <2>1, <2>2
<1>8. QED
  BY <1>4, <1>5, <1>6, <1>7

LEMMA RequestLateStep ==
    ASSUME Inv, HookRequestLate
    PROVE  Inv' /\ InOrder
<1> DEFINE begun == [msr EXCEPT !.bodyComplete = TRUE,
                         !.enabled = IF msr.user = "unset" THEN cfg.enabled2 ELSE msr.user]
<1>1. /\ pc = "late" /\ msr.exists
      /\ UNCHANGED <<cfg, source, left, inChain, sent, page, audited>>
  BY DEF HookRequestLate
<1>2. cfg \in Configs /\ msr \in Contexts /\ Ascending(ran, msr.phase) /\ Sound(msr)
  BY <1>1 DEF Inv, TypeOK, OrderShape, ContextShape
<1>3. begun \in Contexts /\ SameFilter(msr, begun) /\ SamePhases(msr, begun)
  <2>1. (IF msr.user = "unset" THEN cfg.enabled2 ELSE msr.user) \in Modes
    BY <1>2, ConfigsAssumption DEF Contexts
  <2>2. QED
    BY <1>2, <2>1, UpdateBegun, Zenon
<1>4. \/ msr' = begun /\ pc' = "insert" /\ ran' = ran /\ denied' = denied
      \/ \E o \in IF cfg.early
                  THEN {[m |-> begun, status |-> "DECLINED", ran |-> FALSE]}
                  ELSE PhaseAndIntercept(begun, 1, cfg) :
           \/ \E b \in LateBody(o.m) :
                /\ msr' = b.m
                /\ ran' = Behind(Behind(ran, o.ran, 1), b.ran, 2)
                /\ Deny(b, 2) /\ Continue(b.status, "insert")
           \/ msr' = o.m /\ Ran(o, 1) /\ Deny(o, 1) /\ Continue(o.status, "insert")
  BY Zenon DEF HookRequestLate, Behind
<1> HIDE DEF begun
<1>5. /\ msr.phase \in 0..2 /\ denied = 0 /\ (msr.scope # "none" => msr.phase >= 1)
      /\ msr.ofStatus = "not_started" /\ msr.brigade = <<>> /\ msr.resLen = 0
      /\ ~msr.skipping /\ ~msr.partial /\ (msr.streamChanged => cfg.stream)
  BY <1>1, <1>2 DEF Inv, FilterShape, ContextShape, Contexts
<1>6. CASE msr' = begun /\ pc' = "insert" /\ ran' = ran /\ denied' = denied
  <2>1. InOrder
    BY <1>6, NothingRan DEF Inv
  <2>2. RequestStep(begun, ran, "insert")
    BY <1>1, <1>2, <1>3, <1>5, <1>6, <2>1 DEF RequestStep, SameFilter, SamePhases
  <2>3. QED
    BY <1>1, <2>2, RequestStepInv
<1>7. ASSUME NEW o \in IF cfg.early
                       THEN {[m |-> begun, status |-> "DECLINED", ran |-> FALSE]}
                       ELSE PhaseAndIntercept(begun, 1, cfg)
      PROVE  PhaseShape(begun, 1, cfg, o)
  <2>1. CASE cfg.early
    <3>1. o.m = begun /\ o.status = "DECLINED" /\ o.ran = FALSE
      BY <2>1
    <3>2. Sound(begun)
      BY <1>2, <1>3 DEF SamePhases
    <3>3. ~o.ran /\ o.ran \in BOOLEAN
      BY <3>1, Zenon
    <3>4. QED
      BY <1>3, <3>1, <3>2, <3>3 DEF PhaseShape, SameFilter
  <2>2. CASE ~cfg.early
    BY <1>2, <1>3, <2>2, PhaseFacts DEF SamePhases
  <2>3. QED
    BY <2>1, <2>2
<1>8. ASSUME NEW o, PhaseShape(begun, 1, cfg, o)
      PROVE  /\ o.m \in Contexts /\ Sound(o.m) /\ o.ran \in BOOLEAN
             /\ o.m.phase \in 0..2 /\ msr.phase <= o.m.phase
             /\ o.ran => msr.phase = 0 /\ o.m.phase = 1
             /\ ~o.ran => o.m.scope = msr.scope
             /\ o.m.scope # "none" => o.m.phase >= 1
             /\ o.status \in {"denied", "dropped"} => o.m.intercepted
             /\ o.m.streamChanged => cfg.stream
             /\ o.m.exists /\ o.m.ofStatus = "not_started" /\ o.m.brigade = <<>>
             /\ o.m.resLen = 0 /\ ~o.m.skipping /\ ~o.m.partial
             /\ o.status \in {"DECLINED", "error", "denied", "dropped", "proxied"}
  <2>1. o.m \in Contexts /\ Sound(o.m) /\ o.ran \in BOOLEAN
        /\ o.status \in {"DECLINED", "error", "denied", "dropped", "proxied"}
        /\ (o.status \in {"denied", "dropped"} => o.m.intercepted)
    BY <1>8, Zenon DEF PhaseShape
  <2>2. /\ begun.phase = msr.phase /\ begun.scope = msr.scope
        /\ begun.streamChanged = msr.streamChanged
    BY <1>3, Zenon DEF SamePhases
  <2>3. /\ o.m.phase = msr.phase \/ (o.m.phase = 1 /\ msr.phase < 1)
        /\ o.ran => msr.phase < 1 /\ o.m.phase = 1
        /\ ~o.ran => o.m.scope = msr.scope
        /\ o.m.scope # msr.scope => o.m.phase = 1
        /\ o.m.streamChanged => msr.streamChanged \/ cfg.stream
    BY <1>8, <2>2, Zenon DEF PhaseShape
  <2>4. /\ o.m.exists /\ o.m.ofStatus = "not_started" /\ o.m.brigade = <<>>
        /\ o.m.resLen = 0 /\ ~o.m.skipping /\ ~o.m.partial
    BY <1>1, <1>3, <1>5, <1>8, Zenon DEF PhaseShape, SameFilter
  <2>5. QED
    BY <1>5, <2>1, <2>3, <2>4
<1>9. ASSUME NEW o, PhaseShape(begun, 1, cfg, o), msr' = o.m, Ran(o, 1), Deny(o, 1),
             Continue(o.status, "insert")
      PROVE  Inv' /\ InOrder
  <2>1. /\ o.m \in Contexts /\ Sound(o.m) /\ o.ran \in BOOLEAN
        /\ o.m.phase \in 0..2 /\ msr.phase <= o.m.phase
        /\ o.ran => msr.phase = 0 /\ o.m.phase = 1
        /\ o.m.scope # "none" => o.m.phase >= 1
        /\ o.status \in {"denied", "dropped"} => o.m.intercepted
        /\ o.m.streamChanged => cfg.stream
        /\ o.m.exists /\ o.m.ofStatus = "not_started" /\ o.m.brigade = <<>>
        /\ o.m.resLen = 0 /\ ~o.m.skipping /\ ~o.m.partial
        /\ o.status \in {"DECLINED", "error", "denied", "dropped", "proxied"}
    BY <1>8, <1>9
  <2>2. ran' = Behind(ran, o.ran, 1)
    BY <1>2, <1>9, <2>1 DEF Ran, Behind, Ascending
  <2>3. Ascending(ran', o.m.phase) /\ Len(ran) <= Len(ran') /\ (~o.ran => ran' = ran)
    <3>1. /\ msr.phase \in 0..5 /\ o.m.phase \in 0..5 /\ 1 \in 1..5
          /\ o.ran => msr.phase < 1 /\ 1 <= o.m.phase
      BY <1>5, <2>1
    <3>2. msr.phase <= o.m.phase /\ o.ran \in BOOLEAN
      BY <2>1
    <3>3. QED
      BY <1>2, <2>2, <3>1, <3>2, BehindFacts, ZenonT(60)
  <2>4. InOrder
    <3>1. o.m.phase \in 0..5 /\ (o.ran => denied = 0 /\ msr.scope # "allow")
      BY <1>5, <2>1
    <3>2. QED
      BY <1>2, <2>3, <3>1, InOrderFacts, Zenon
  <2>5. /\ denied' = (IF o.status \in {"denied", "dropped"} THEN 1 ELSE 0)
        /\ pc' \in {"error", "log", "insert"}
        /\ (pc' = "insert" => o.status \notin {"denied", "dropped"})
    BY <1>5, <1>9, <2>1 DEF Deny, Continue
  <2>6. RequestStep(o.m, ran', "insert")
    BY <1>1, <1>9, <2>1, <2>3, <2>4, <2>5 DEF RequestStep
  <2>7. QED
    BY <1>1, <2>6, RequestStepInv
<1>10. ASSUME NEW o, PhaseShape(begun, 1, cfg, o), NEW b \in LateBody(o.m), msr' = b.m,
              ran' = Behind(Behind(ran, o.ran, 1), b.ran, 2),
              Deny(b, 2), Continue(b.status, "insert")
       PROVE  Inv' /\ InOrder
  <2>1. /\ o.m \in Contexts /\ Sound(o.m) /\ o.ran \in BOOLEAN
        /\ o.m.phase \in 0..2 /\ msr.phase <= o.m.phase
        /\ o.ran => msr.phase = 0 /\ o.m.phase = 1
        /\ ~o.ran => o.m.scope = msr.scope
        /\ o.m.scope # "none" => o.m.phase >= 1
        /\ o.m.streamChanged => cfg.stream
        /\ o.m.exists /\ o.m.ofStatus = "not_started" /\ o.m.brigade = <<>>
        /\ o.m.resLen = 0 /\ ~o.m.skipping /\ ~o.m.partial
    BY <1>8, <1>10
  <2>2. PICK seen \in Contexts :
             /\ SameFilter(o.m, seen) /\ SamePhases(o.m, seen)
             /\ \/ PhaseShape(seen, 2, cfg, b)
                \/ b.m = seen /\ b.status = "refused" /\ b.ran = FALSE
    BY <1>2, <2>1, LateBodyFacts
  <2>3. /\ seen.phase = o.m.phase /\ seen.scope = o.m.scope /\ Sound(seen)
        /\ seen.streamChanged => cfg.stream
        /\ seen.exists /\ seen.ofStatus = "not_started" /\ seen.brigade = <<>>
        /\ seen.resLen = 0 /\ ~seen.skipping /\ ~seen.partial
    BY <2>1, <2>2 DEF SameFilter, SamePhases
  <2>4. /\ b.m \in Contexts /\ Sound(b.m) /\ b.ran \in BOOLEAN
        /\ b.m.phase = o.m.phase \/ (b.m.phase = 2 /\ o.m.phase < 2)
        /\ b.ran => o.m.phase < 2 /\ b.m.phase = 2 /\ o.m.scope # "allow"
        /\ b.m.scope = o.m.scope \/ b.m.phase = 2
        /\ b.status \in {"denied", "dropped"} => b.m.intercepted
        /\ b.m.streamChanged => cfg.stream
        /\ b.m.exists /\ b.m.ofStatus = "not_started" /\ b.m.brigade = <<>>
        /\ b.m.resLen = 0 /\ ~b.m.skipping /\ ~b.m.partial
        /\ b.status \in {"DECLINED", "error", "denied", "dropped", "proxied", "refused"}
    <3>1. CASE PhaseShape(seen, 2, cfg, b)
      BY <2>3, <3>1 DEF PhaseShape, SameFilter
    <3>2. CASE b.m = seen /\ b.status = "refused" /\ b.ran = FALSE
      <4>1. ~b.ran /\ b.ran \in BOOLEAN
        BY <3>2, Zenon
      <4>2. QED
        BY <2>3, <3>2, <4>1
    <3>3. QED
      BY <2>2, <3>1, <3>2
  <2>5. /\ b.m.phase \in 0..2 /\ o.m.phase <= b.m.phase
        /\ b.m.scope # "none" => b.m.phase >= 1
    BY <2>1, <2>4
  <2>6. /\ Ascending(ran', b.m.phase) /\ Len(ran) <= Len(ran')
        /\ ~o.ran /\ ~b.ran => ran' = ran
    <3>1. /\ msr.phase \in 0..5 /\ o.m.phase \in 0..5 /\ b.m.phase \in 0..5
          /\ 1 \in 1..5 /\ 2 \in 1..5
          /\ o.ran => msr.phase < 1 /\ 1 <= o.m.phase
          /\ b.ran => o.m.phase < 2 /\ 2 <= b.m.phase
      BY <1>5, <2>1, <2>4, <2>5
    <3>2. /\ msr.phase <= o.m.phase /\ o.m.phase <= b.m.phase
          /\ o.ran \in BOOLEAN /\ b.ran \in BOOLEAN /\ Ascending(ran, msr.phase)
      BY <1>2, <2>1, <2>4, <2>5
    <3>3. /\ Ascending(Behind(Behind(ran, o.ran, 1), b.ran, 2), b.m.phase)
          /\ Len(ran) <= Len(Behind(Behind(ran, o.ran, 1), b.ran, 2))
          /\ ~o.ran /\ ~b.ran => Behind(Behind(ran, o.ran, 1), b.ran, 2) = ran
      <4>1. MayRun(ran, msr.phase, o.ran, 1, o.m.phase, b.ran, 2, b.m.phase)
        BY <3>1, <3>2, Zenon DEF MayRun
      <4>2. QED
        BY ONLY <4>1, TwoPhases
    <3>4. QED
      BY <1>10, <3>3, Zenon
  <2>7. InOrder
    <3>1. b.m.phase \in 0..5 /\ (o.ran \/ b.ran => denied = 0 /\ msr.scope # "allow")
      BY <1>5, <2>1, <2>4, <2>5
    <3>2. QED
      BY <1>2, <2>6, <3>1, InOrderFacts, Zenon
  <2>8. /\ denied' = (IF b.status \in {"denied", "dropped"} THEN 2 ELSE 0)
        /\ pc' \in {"error", "log", "insert"}
        /\ (pc' = "insert" => b.status \notin {"denied", "dropped"})
    BY <1>5, <1>10, <2>4 DEF Deny, Continue
  <2>9. RequestStep(b.m, ran', "insert")
    BY <1>1, <1>10, <2>4, <2>5, <2>6, <2>7, <2>8 DEF RequestStep
  <2>10. QED
    BY <1>1, <2>9, RequestStepInv
<1>11. QED
  BY <1>4, <1>6, <1>7, <1>9, <1>10

-----------------------------------------------------------------------------
(* Logging.                                                                *)

LEMMA UpdateLogged ==
    ASSUME NEW m \in Contexts, NEW k \in Nat, NEW x \in BOOLEAN
    PROVE  [[m EXCEPT !.relevant = k] EXCEPT !.filesKept = x] \in Contexts
<1>1. [m EXCEPT !.relevant = k] \in Contexts
  BY ZenonT(60) DEF Contexts
<1> DEFINE n == [m EXCEPT !.relevant = k]
<1> HIDE DEF n
<1>2. ASSUME n \in Contexts PROVE [n EXCEPT !.filesKept = x] \in Contexts
  BY <1>2, ZenonT(60) DEF Contexts
<1>3. QED
  BY <1>1, <1>2, Zenon DEF n

LEMMA LogStep ==
    ASSUME Inv, HookLogTransaction
    PROVE  Inv' /\ InOrder
<1>1. /\ pc = "log" /\ msr.exists /\ pc' = "done" /\ cfg \in Configs /\ msr \in Contexts
      /\ UNCHANGED <<cfg, source, left, inChain, sent, page, denied>>
  BY DEF HookLogTransaction, Inv, TypeOK
<1>2. PICK p \in ProcessPhase(msr, 5, cfg) :
         LET m == [p.m EXCEPT !.relevant = @ + StatusRelevant(p.m, cfg)]
         IN  /\ msr' = [m EXCEPT !.filesKept = \/ cfg.keepFiles = "On"
                                               \/ cfg.keepFiles = "Relevant" /\ m.relevant # 0]
             /\ audited' = audited + (IF \/ cfg.auditlog = "On"
                                         \/ cfg.auditlog = "Relevant" /\ m.relevant # 0
                                      THEN 1 ELSE 0)
             /\ Ran(p, 5)
  BY DEF HookLogTransaction
<1>3. Sound(msr) /\ audited = 0 /\ Ascending(ran, msr.phase)
  BY <1>1 DEF Inv, ContextShape, LogShape, OrderShape
<1>4. ProcessShape(msr, 5, cfg, p)
  <2>1. 5 \in 1..5
    OBVIOUS
  <2>2. QED
    BY <1>1, <1>3, <2>1, ProcessFacts, Zenon
<1> DEFINE k == p.m.relevant + StatusRelevant(p.m, cfg)
           n == [p.m EXCEPT !.relevant = k]
           x == \/ cfg.keepFiles = "On"
                \/ cfg.keepFiles = "Relevant" /\ n.relevant # 0
<1>5. /\ p.m \in Contexts /\ SameFilter(msr, p.m) /\ Sound(p.m) /\ p.ran \in BOOLEAN
      /\ p.m.scope = msr.scope /\ p.m.intercepted = msr.intercepted
      /\ p.m.prepend = msr.prepend
      /\ p.m.phase = msr.phase \/ (p.m.phase = 5 /\ msr.phase < 5)
      /\ p.ran => msr.phase < 5 /\ p.m.phase = 5
      /\ p.m.streamChanged => msr.streamChanged \/ cfg.stream
  BY <1>4 DEF ProcessShape
<1>6. /\ p.m.relevant \in Nat /\ StatusRelevant(p.m, cfg) \in {0, 1} /\ k \in Nat
      /\ k # 0 => p.m.relevant # 0 \/ cfg.relevantStatus
      /\ p.m.relevant # 0 \/ cfg.relevantStatus => k # 0
  BY <1>5 DEF Contexts, StatusRelevant
<1>7. /\ msr' = [[p.m EXCEPT !.relevant = k] EXCEPT !.filesKept = x]
      /\ audited' = (IF cfg.auditlog = "On" \/ (cfg.auditlog = "Relevant" /\ n.relevant # 0)
                     THEN 1 ELSE 0)
      /\ Ran(p, 5)
  <2>1. /\ msr' = [[p.m EXCEPT !.relevant = k] EXCEPT !.filesKept = x]
        /\ audited' = audited + (IF \/ cfg.auditlog = "On"
                                    \/ cfg.auditlog = "Relevant" /\ n.relevant # 0
                                 THEN 1 ELSE 0)
        /\ Ran(p, 5)
    BY <1>2, Zenon
  <2> HIDE DEF k, x, n
  <2>2. audited' = (IF cfg.auditlog = "On" \/ (cfg.auditlog = "Relevant" /\ n.relevant # 0)
                    THEN 1 ELSE 0)
    BY <1>3, <2>1
  <2>3. QED
    BY <2>1, <2>2, Zenon
<1>8. n.relevant = k /\ x \in BOOLEAN
  BY <1>5 DEF Contexts
<1> HIDE DEF k, x, n
<1>9. msr' \in Contexts
  BY <1>5, <1>6, <1>7, <1>8, UpdateLogged, Zenon
<1>10. /\ SameFilter(msr, msr') /\ msr'.scope = msr.scope /\ msr'.phase = p.m.phase
       /\ msr'.intercepted = msr.intercepted /\ msr'.prepend = msr.prepend
       /\ msr'.streamChanged = p.m.streamChanged /\ msr'.wanted = p.m.wanted
  BY <1>5, <1>7 DEF Contexts, SameFilter
<1>11. audited' \in {0, 1}
  BY <1>7
<1>12. ran' = Behind(ran, p.ran, 5)
  BY <1>3, <1>5, <1>7 DEF Ran, Behind, Ascending
<1>13. Ascending(ran', msr'.phase) /\ Len(ran) <= Len(ran')
  <2>1. /\ msr.phase \in 0..5 /\ p.m.phase \in 0..5 /\ msr.phase <= p.m.phase
        /\ 5 \in 1..5 /\ p.ran \in BOOLEAN /\ (p.ran => msr.phase < 5 /\ 5 <= p.m.phase)
    BY <1>1, <1>5 DEF Contexts
  <2>2. /\ Ascending(Behind(ran, p.ran, 5), p.m.phase)
        /\ Len(ran) <= Len(Behind(ran, p.ran, 5))
    <3> DEFINE a == p.ran
               k1 == p.m.phase
    <3>1. /\ Ascending(ran, msr.phase) /\ msr.phase \in 0..5 /\ k1 \in 0..5
          /\ msr.phase <= k1 /\ 5 \in 1..5 /\ a \in BOOLEAN /\ (a => msr.phase < 5 /\ 5 <= k1)
      BY <1>3, <2>1
    <3> HIDE DEF a, k1
    <3>2. Ascending(Behind(ran, a, 5), k1) /\ Len(ran) <= Len(Behind(ran, a, 5))
      BY ONLY <3>1, BehindFacts, ZenonT(60)
    <3>3. QED
      BY <3>2, Zenon DEF a, k1
  <2>3. QED
    BY <1>10, <1>12, <2>2, Zenon
<1>14. InOrder
  <2>1. msr'.phase \in 0..5
    BY <1>9 DEF Contexts
  <2>2. \A i \in (Len(ran) + 1)..Len(ran') : ran'[i] = 5
    BY <1>3, <1>7 DEF Ran, Ascending
  <2>3. QED
    BY <1>3, <1>13, <2>1, <2>2, InOrderFacts
<1>15. TypeOK' /\ (page = Units(Len(page)))' /\ (Len(page) <= MaxPage)'
  BY <1>1, <1>9, <1>11, <1>13 DEF Inv, TypeOK, Ascending
<1>16. ContextShape'
  <2>1. msr'.scope # "none" => msr'.phase >= 1
    <3>1. msr.scope # "none" => msr.phase >= 1
      BY DEF Inv, ContextShape
    <3>2. QED
      BY <1>5, <1>10, <3>1
  <2>2. QED
    BY <1>1, <1>5, <1>10, <2>1 DEF Inv, ContextShape, SameFilter
<1>17. FilterShape'
  BY <1>1, <1>10 DEF Inv, FilterShape, SameFilter
<1>18. HandlerShape' /\ LogShape'
  BY <1>1 DEF HandlerShape, LogShape
<1>19. ErrorShape'
  BY <1>1, <1>10 DEF Inv, ErrorShape, SameFilter, Buffered, NoPage
<1>20. InspectedFirst'
  BY <1>1, <1>10 DEF Inv, InspectedFirst, SameFilter, Buffered, PageSent
<1>21. WholeResponse'
  BY <1>1, <1>10 DEF Inv, WholeResponse, SameFilter, ToSet
<1>22. AuditedWhenRelevant'
  <2>1. (p.m.relevant # 0 => p.m.wanted) /\ (p.m.wanted => p.m.relevant # 0)
    BY <1>5, <1>6 DEF Sound
  <2>2. (k # 0 => p.m.wanted \/ cfg.relevantStatus) /\ (p.m.wanted \/ cfg.relevantStatus => k # 0)
    BY <1>6, <2>1, Zenon
  <2>3. cfg.auditlog = "Relevant" => audited' = (IF k # 0 THEN 1 ELSE 0)
    BY <1>7, <1>8
  <2>4. QED
    BY <1>1, <1>10, <2>2, <2>3 DEF AuditedWhenRelevant
<1>23. QED
  BY <1>13, <1>14, <1>15, <1>16, <1>17, <1>18, <1>19, <1>20, <1>21, <1>22
     DEF Inv, OrderShape

-----------------------------------------------------------------------------
(* What is sent.                                                           *)

LEMMA SpecialFacts ==
    /\ NoPage(<<>>)
    /\ \A x \in {Eos, Page, Pre, App, Stream} : x \in Bucket /\ <<x>> \in Data /\ NoPage(<<x>>)
<1>1. \A x \in {Eos, Page, Pre, App, Stream} : x \in Bucket /\ x \notin 1..MaxPage
  BY BucketsAssumption, TransactionBounds DEF Bucket
<1>2. QED
  BY <1>1, DataFacts DEF NoPage

LEMMA NoPageConcat ==
    ASSUME NEW s \in Data, NEW t \in Data
    PROVE  /\ NoPage(s) /\ NoPage(t) => NoPage(s \o t)
           /\ NoPage(s \o t) => NoPage(s) /\ NoPage(t)
<1> DEFINE u == s \o t
<1>1. /\ Len(u) = Len(s) + Len(t) /\ Len(s) \in Nat /\ Len(t) \in Nat
      /\ \A i \in 1..Len(s) : u[i] = s[i]
      /\ \A i \in 1..Len(t) : u[Len(s) + i] = t[i]
  BY DEF Data
<1>2. \A i \in 1..Len(u) : i \in 1..Len(s) \/ (i - Len(s) \in 1..Len(t) /\ u[i] = t[i - Len(s)])
  BY DEF Data
<1> HIDE DEF u
<1>3. NoPage(s) /\ NoPage(t) => NoPage(u)
  BY <1>1, <1>2 DEF NoPage
<1>4. NoPage(u) => NoPage(s)
  BY <1>1 DEF NoPage
<1>5. NoPage(u) => NoPage(t)
  <2> SUFFICES ASSUME NoPage(u), NEW i \in 1..Len(t) PROVE t[i] \notin 1..MaxPage
    BY DEF NoPage
  <2>1. Len(s) + i \in 1..Len(u) /\ u[Len(s) + i] = t[i]
    BY <1>1
  <2>2. QED
    BY <2>1 DEF NoPage
<1>6. QED
  BY <1>3, <1>4, <1>5 DEF u

LEMMA FrontFacts ==
    ASSUME NEW s \in Data, NEW x \in Bucket
    PROVE  /\ Front(s \o <<x>>) = s /\ Last(s \o <<x>>) = x /\ s \o <<x>> # <<>>
<1> DEFINE u == s \o <<x>>
           f == Front(u)
<1>1. /\ u \in Seq(Bucket) /\ Len(u) = Len(s) + 1 /\ Len(s) \in Nat /\ u[Len(s) + 1] = x
      /\ \A i \in 1..Len(s) : u[i] = s[i]
  BY DEF Data
<1> HIDE DEF u
<1>2. f = SubSeq(u, 1, Len(s))
  BY <1>1 DEF Front
<1>3. /\ f \in Seq(Bucket) /\ Len(f) = Len(s) /\ \A i \in 1..Len(s) : f[i] = u[i]
  BY <1>1, <1>2
<1> HIDE DEF f
<1>4. f = s
  BY <1>1, <1>3 DEF Data
<1>5. Last(u) = x /\ u # <<>>
  BY <1>1 DEF Last
<1>6. QED
  BY <1>4, <1>5 DEF u, f

\* The beginning of something that does not end has no end either.
LEMMA NoEosBefore ==
    ASSUME NEW s \in Data, NEW t \in Data, \A i \in 1..Len(s \o t) : (s \o t)[i] # Eos
    PROVE  Eos \notin ToSet(s)
<1> DEFINE u == s \o t
<1>1. /\ Len(u) = Len(s) + Len(t) /\ Len(s) \in Nat /\ Len(t) \in Nat
      /\ \A i \in 1..Len(s) : u[i] = s[i]
  BY DEF Data
<1>2. \A i \in 1..Len(u) : u[i] # Eos
  OBVIOUS
<1> HIDE DEF u
<1>3. \A i \in 1..Len(s) : s[i] # Eos
  BY <1>1, <1>2
<1>4. DOMAIN s = 1..Len(s)
  BY DEF Data
<1>5. QED
  BY <1>3, <1>4 DEF ToSet

\* While the response of the handler is on its way, its end was not sent.
LEMMA HandlerNoEos ==
    ASSUME Inv, pc = "respond", source = "handler"
    PROVE  Eos \notin ToSet(sent)
<1>1. sent \in Data /\ left \in Data /\ page \in Data /\ cfg \in Configs
  BY DEF Inv, TypeOK
<1>2. \A i \in 1..Len(page) : page[i] # Eos
  <2>1. page = Units(Len(page)) /\ Len(page) \in Nat
    BY <1>1, DataFacts DEF Inv
  <2>2. \A i \in 1..Len(page) : Units(Len(page))[i] = i /\ i \in Nat
    BY <2>1 DEF Units
  <2>3. QED
    BY <2>1, <2>2, BucketsAssumption
<1>3. CASE sent = <<>>
  BY <1>3 DEF ToSet
<1>4. CASE sent \o left = page
  BY <1>1, <1>2, <1>4, NoEosBefore
<1>5. CASE sent \o left = Injected(cfg, msr.prepend, Pre) \o page
  <2>1. \/ Injected(cfg, msr.prepend, Pre) = <<>>
        \/ Injected(cfg, msr.prepend, Pre) = <<Pre>>
    BY DEF Injected
  <2>2. CASE Injected(cfg, msr.prepend, Pre) = <<>>
    <3>1. sent \o left = page
      BY <1>1, <1>5, <2>2, DataFacts
    <3>2. QED
      BY <1>4, <3>1
  <2>3. CASE Injected(cfg, msr.prepend, Pre) = <<Pre>>
    <3> DEFINE u == <<Pre>> \o page
    <3>1. u = sent \o left
      BY <1>5, <2>3
    <3>2. /\ Len(u) = 1 + Len(page) /\ Len(page) \in Nat /\ u[1] = Pre
          /\ \A i \in 1..Len(u) : i = 1 \/ (i - 1 \in 1..Len(page) /\ u[i] = page[i - 1])
      BY <1>1, SpecialFacts DEF Data
    <3> HIDE DEF u
    <3>3. Pre # Eos
      BY BucketsAssumption
    <3>4. \A i \in 1..Len(u) : u[i] # Eos
      BY <1>2, <3>2, <3>3
    <3>5. QED
      BY <1>1, <3>1, <3>4, NoEosBefore
  <2>4. QED
    BY <2>1, <2>2, <2>3
<1>6. sent = <<>> \/ sent \o left = page \/ sent \o left = Injected(cfg, msr.prepend, Pre) \o page
  BY Zenon DEF Inv, HandlerShape
<1>7. QED
  BY <1>3, <1>4, <1>5, <1>6

LEMMA UnfilteredStep ==
    ASSUME Inv, RespondUnfiltered
    PROVE  Inv' /\ InOrder
<1>1. /\ pc = "respond" /\ ~inChain
      /\ UNCHANGED <<cfg, msr, source, inChain, page, ran, denied, audited>>
  BY DEF RespondUnfiltered
<1>2. PICK b \in Brigade :
         /\ sent' = sent \o Buckets(b)
         /\ left' = SubSeq(left, Len(b.data) + 1, Len(left))
         /\ pc' = IF b.eos THEN "log" ELSE pc
  BY DEF RespondUnfiltered
<1>3. sent \in Data /\ left \in Data /\ page \in Data
  BY DEF Inv, TypeOK
<1>4. /\ b.data \in Data /\ b.eos \in BOOLEAN /\ left' \in Data
      /\ b.data \o left' = left
      /\ b.eos => b.data = left /\ left' = <<>>
      /\ Buckets(b) = b.data \o (IF b.eos THEN <<Eos>> ELSE <<>>)
      /\ Buckets(b) \in Data
  BY <1>2, <1>3, BrigadeFacts
<1>5. sent' \in Data /\ pc' \in {"respond", "log"} /\ (b.eos => pc' = "log")
      /\ (~b.eos => pc' = "respond")
  BY <1>1, <1>2, <1>3, <1>4, DataFacts
<1>6. TypeOK' /\ (page = Units(Len(page)))' /\ (Len(page) <= MaxPage)'
  BY <1>1, <1>4, <1>5 DEF Inv, TypeOK
<1>7. ContextShape'
  BY <1>1, <1>5 DEF Inv, ContextShape
<1>8. OrderShape' /\ InOrder
  BY <1>1, NothingRan DEF Inv, OrderShape
<1>9. FilterShape'
  BY <1>1, <1>5 DEF Inv, FilterShape
<1>10. source = "handler" => denied = 0 /\ msr.ofStatus = "not_started" /\ sent \o left = page
  BY <1>1, Zenon DEF Inv, HandlerShape
<1>11. HandlerShape'
  <2>1. ASSUME ~b.eos PROVE sent' \o left' = sent \o left
    <3>1. Buckets(b) = b.data
      BY <1>4, <2>1, DataFacts
    <3>2. (sent \o b.data) \o left' = sent \o (b.data \o left')
      BY <1>3, <1>4, ConcatAssoc, ZenonT(60)
    <3>3. sent' = sent \o b.data /\ b.data \o left' = left
      BY <1>2, <1>4, <3>1, Zenon
    <3>4. QED
      BY <3>2, <3>3, Zenon
  <2>2. QED
    BY <1>1, <1>5, <1>10, <2>1 DEF HandlerShape, Observing
<1>12. Buffered /\ source = "error" => NoPage(sent') /\ NoPage(left')
  <2> SUFFICES ASSUME Buffered, source = "error" PROVE NoPage(sent') /\ NoPage(left')
    OBVIOUS
  <2>1. NoPage(sent) /\ NoPage(left)
    BY DEF Inv, ErrorShape
  <2>2. NoPage(b.data) /\ NoPage(left')
    BY <1>4, <2>1, NoPageConcat
  <2>3. NoPage(Buckets(b))
    <3>1. CASE b.eos
      BY <1>4, <2>2, <3>1, SpecialFacts, NoPageConcat
    <3>2. CASE ~b.eos
      BY <1>4, <2>2, <3>2, DataFacts
    <3>3. QED
      BY <3>1, <3>2
  <2>4. QED
    BY <1>2, <1>3, <1>4, <2>1, <2>2, <2>3, NoPageConcat
<1>13. ErrorShape'
  <2>1. Buffered' = Buffered
    BY <1>1 DEF Buffered
  <2>2. QED
    BY <1>1, <1>5, <1>12, <2>1 DEF Inv, ErrorShape
<1>14. InspectedFirst'
  <2>1. Buffered' = Buffered
    BY <1>1 DEF Buffered
  <2>2. PageSent' => ~NoPage(sent')
    BY DEF PageSent, NoPage
  <2>3. source \in {"handler", "error"}
    BY DEF Inv, TypeOK
  <2>4. QED
    BY <1>1, <1>10, <1>12, <2>1, <2>2, <2>3, Zenon DEF InspectedFirst
<1>15. WholeResponse'
  <2> SUFFICES ASSUME pc' \in {"log", "done"}, source = "handler"
               PROVE  sent' = Whole(FALSE, page) /\ msr.ofStatus = "not_started"
    BY <1>1 DEF WholeResponse
  <2>1. b.eos
    BY <1>4, <1>5
  <2>2. sent' = sent \o (left \o <<Eos>>)
    BY <1>2, <1>4, <2>1
  <2>3. sent' = page \o <<Eos>>
    <3>0. <<Eos>> \in Data
      BY SpecialFacts
    <3>1. (sent \o left) \o <<Eos>> = sent \o (left \o <<Eos>>)
      BY <1>3, <3>0, ConcatAssoc, ZenonT(60)
    <3>2. sent \o left = page
      BY <1>10
    <3>3. QED
      BY <2>2, <3>1, <3>2, Zenon
  <2>4. Whole(FALSE, page) = page \o <<Eos>>
    BY <1>3, DataFacts DEF Whole
  <2>5. QED
    BY <1>10, <2>3, <2>4
<1>16. LogShape' /\ AuditedWhenRelevant'
  BY <1>1, <1>5 DEF Inv, LogShape, AuditedWhenRelevant
<1>17. QED
  BY <1>6, <1>7, <1>8, <1>9, <1>11, <1>13, <1>14, <1>15, <1>16 DEF Inv

-----------------------------------------------------------------------------
(* The output filter: what it is called with.                              *)

\* What a change of the state of the filter leaves alone.
Moved(m, n) ==
    /\ n \in Contexts /\ SamePhases(m, n) /\ n.exists = m.exists
    /\ n.partial = m.partial /\ n.resLen = m.resLen /\ n.brigade = m.brigade

LEMMA MessageMoved ==
    ASSUME NEW m \in Contexts
    PROVE  /\ Moved(m, Message(m)) /\ Message(m).skipping = m.skipping
           /\ Message(m).ofStatus = m.ofStatus
  BY MessageFacts DEF Moved, SameFilter

LEMMA UpdateStatus ==
    ASSUME NEW m \in Contexts
    PROVE  /\ Moved(m, [m EXCEPT !.ofStatus = "complete"])
           /\ [m EXCEPT !.ofStatus = "complete"].ofStatus = "complete"
           /\ [m EXCEPT !.ofStatus = "complete"].skipping = m.skipping
<1> DEFINE n == [m EXCEPT !.ofStatus = "complete"]
<1>1. n \in Contexts
  BY ZenonT(60) DEF Contexts
<1>2. QED
  BY <1>1 DEF Contexts, SamePhases, Sound, Moved

LEMMA UpdateStart ==
    ASSUME NEW m \in Contexts, NEW x \in BOOLEAN, NEW y \in BOOLEAN
    PROVE  /\ Moved(m, [m EXCEPT !.ofStatus = "in_progress", !.outbound = x, !.skipping = y])
           /\ [m EXCEPT !.ofStatus = "in_progress", !.outbound = x, !.skipping = y].ofStatus
                = "in_progress"
           /\ [m EXCEPT !.ofStatus = "in_progress", !.outbound = x, !.skipping = y].skipping
                = y
<1> DEFINE n == [m EXCEPT !.ofStatus = "in_progress", !.outbound = x, !.skipping = y]
<1>1. n \in Contexts
  BY ZenonT(60) DEF Contexts
<1>2. QED
  BY <1>1 DEF Contexts, SamePhases, Sound, Moved

LEMMA FilterInitFacts ==
    ASSUME NEW m, cfg \in Configs, page \in Data
    PROVE  /\ FilterInit(m, cfg) \in {-2, 0, 1}
           /\ FilterInit(m, cfg) = 0 => ~Buffered
  BY DEF FilterInit, Buffered

\* The filter is called with the transaction, or has run phase 3 first.
CallBase(m, r) ==
    /\ m \in Contexts /\ m.exists /\ Sound(m) /\ r \in BOOLEAN
    /\ m.phase = msr.phase \/ (m.phase = 3 /\ msr.phase < 3)
    /\ r => msr.phase < 3 /\ m.phase = 3 /\ ~msr.intercepted /\ msr.scope # "allow"
    /\ ~r => m.scope = msr.scope
    /\ msr.intercepted => m.intercepted
    /\ m.scope # "none" => m.phase >= 1
    /\ m.streamChanged => cfg.stream
    /\ m.brigade = msr.brigade /\ m.resLen = msr.resLen /\ m.partial = msr.partial
CallRefused(m, s) ==
    /\ m.brigade = <<>> /\ ~m.skipping /\ ~m.partial /\ m.resLen = 0
    /\ s \in {"error", "large", "denied", "dropped"}
    /\ s \in {"denied", "dropped"} => m.intercepted
CallGoes(m, head) ==
    /\ m.ofStatus = "in_progress"
    /\ \/ m = msr /\ head = <<>> /\ msr.ofStatus = "in_progress"
       \/ /\ msr.ofStatus = "not_started" /\ (m.skipping => ~Buffered)
          /\ head = (IF m.skipping THEN Injected(cfg, m.prepend, Pre) ELSE <<>>)
CallShape(o) ==
    /\ CallBase(o.m, o.ran)
    /\ \/ o.status # "go" /\ CallRefused(o.m, o.status)
       \/ o.status = "go" /\ CallGoes(o.m, o.head)

LEMMA BaseMoves ==
    ASSUME NEW m, NEW n, NEW r, CallBase(m, r), Moved(m, n)
    PROVE  CallBase(n, r)
  BY DEF CallBase, Moved, SamePhases

LEMMA FirstCallFacts ==
    ASSUME Inv, pc = "respond", inChain, msr.ofStatus = "not_started",
           NEW o \in FirstCall(msr, cfg)
    PROVE  CallShape(o)
<1>1. /\ cfg \in Configs /\ msr \in Contexts /\ Sound(msr) /\ msr.exists /\ page \in Data
      /\ msr.scope # "none" => msr.phase >= 1
      /\ msr.streamChanged => cfg.stream
      /\ msr.brigade = <<>> /\ msr.resLen = 0 /\ ~msr.skipping /\ ~msr.partial
  BY DEF Inv, TypeOK, ContextShape, FilterShape
<1>2. PICK p \in PhaseAndIntercept(msr, 3, cfg) :
        o = IF p.status \notin {"DECLINED", "proxied"}
            THEN [m |-> IF p.status = "error" THEN p.m ELSE [p.m EXCEPT !.ofStatus = "complete"],
                  ran |-> p.ran, status |-> p.status, head |-> <<>>]
            ELSE LET rc == FilterInit(p.m, cfg)
                     n  == [p.m EXCEPT !.ofStatus = "in_progress", !.outbound = rc = -2,
                                       !.skipping = rc = 0]
                 IN  IF rc < 0
                     THEN [m |-> Message([n EXCEPT !.ofStatus = "complete"]),
                           ran |-> p.ran, status |-> "large", head |-> <<>>]
                     ELSE [m |-> n, ran |-> p.ran, status |-> "go",
                           head |-> IF n.skipping THEN Injected(cfg, n.prepend, Pre) ELSE <<>>]
  BY Zenon DEF FirstCall
<1>3. PhaseShape(msr, 3, cfg, p)
  <2>1. 3 \in 1..4
    OBVIOUS
  <2>2. QED
    BY <1>1, <2>1, PhaseFacts, Zenon
<1>4. CallBase(p.m, p.ran) /\ p.m \in Contexts
  BY <1>1, <1>3 DEF PhaseShape, SameFilter, CallBase
<1>5. /\ p.m.brigade = <<>> /\ p.m.resLen = 0 /\ ~p.m.skipping /\ ~p.m.partial
      /\ p.status \in {"DECLINED", "error", "denied", "dropped", "proxied"}
      /\ p.status \in {"denied", "dropped"} => p.m.intercepted
  BY <1>1, <1>3 DEF PhaseShape, SameFilter
<1>6. CASE p.status = "error"
  <2>1. o.m = p.m /\ o.ran = p.ran /\ o.status = "error"
    BY <1>2, <1>6
  <2>2. QED
    BY <1>4, <1>5, <2>1 DEF CallShape, CallRefused
<1>7. CASE p.status \in {"denied", "dropped"}
  <2> DEFINE n == [p.m EXCEPT !.ofStatus = "complete"]
  <2>1. o.m = n /\ o.ran = p.ran /\ o.status = p.status
    BY <1>2, <1>7
  <2>2. Moved(p.m, n) /\ n.skipping = p.m.skipping
    BY <1>4, UpdateStatus
  <2> HIDE DEF n
  <2>3. CallBase(n, p.ran)
    BY <1>4, <2>2, BaseMoves
  <2>4. CallRefused(n, p.status)
    BY <1>5, <1>7, <2>2 DEF CallRefused, Moved, SamePhases
  <2>5. p.status # "go"
    BY <1>7
  <2>6. QED
    BY <2>1, <2>3, <2>4, <2>5, Zenon DEF CallShape
<1>8. CASE p.status \in {"DECLINED", "proxied"}
  <2> DEFINE rc == FilterInit(p.m, cfg)
             n  == [p.m EXCEPT !.ofStatus = "in_progress", !.outbound = rc = -2,
                               !.skipping = rc = 0]
  <2>1. rc \in {-2, 0, 1} /\ (rc = 0 => ~Buffered)
    BY <1>1, FilterInitFacts
  <2>2. \/ rc < 0 /\ o = [m |-> Message([n EXCEPT !.ofStatus = "complete"]),
                          ran |-> p.ran, status |-> "large", head |-> <<>>]
        \/ ~(rc < 0) /\ o = [m |-> n, ran |-> p.ran, status |-> "go",
                  head |-> IF n.skipping THEN Injected(cfg, n.prepend, Pre) ELSE <<>>]
    BY <1>2, <1>8, Zenon
  <2> HIDE DEF rc
  <2>3. (rc = -2) \in BOOLEAN /\ (rc = 0) \in BOOLEAN
    OBVIOUS
  <2>4. Moved(p.m, n) /\ n.ofStatus = "in_progress" /\ n.skipping = (rc = 0)
    BY <1>4, <2>3, UpdateStart, Zenon
  <2> HIDE DEF n
  <2>5. CallBase(n, p.ran) /\ n \in Contexts
    BY <1>4, <2>4, BaseMoves DEF Moved
  <2>6. CASE rc < 0 /\ o = [m |-> Message([n EXCEPT !.ofStatus = "complete"]),
                            ran |-> p.ran, status |-> "large", head |-> <<>>]
    <3> DEFINE k == [n EXCEPT !.ofStatus = "complete"]
    <3>1. Moved(n, k) /\ k.skipping = n.skipping
      BY <2>5, UpdateStatus
    <3>2. o.m = Message(k) /\ o.ran = p.ran /\ o.status = "large"
      BY <2>6
    <3> HIDE DEF k
    <3>3. k \in Contexts
      BY <3>1 DEF Moved
    <3>4. Moved(k, Message(k)) /\ Message(k).skipping = k.skipping
      BY <3>3, MessageMoved
    <3>5. CallBase(Message(k), p.ran)
      BY <2>5, <3>1, <3>4, BaseMoves
    <3>6. ~n.skipping
      <4>1. ~(rc = 0)
        BY <2>1, <2>6
      <4>2. QED
        BY <2>4, <4>1, Zenon
    <3>7. CallRefused(Message(k), "large")
      BY <1>5, <2>4, <3>1, <3>4, <3>6 DEF CallRefused, Moved
    <3>8. o.status # "go"
      BY <3>2
    <3>9. QED
      BY <3>2, <3>5, <3>7, <3>8, Zenon DEF CallShape
  <2>7. CASE ~(rc < 0) /\ o = [m |-> n, ran |-> p.ran, status |-> "go",
                  head |-> IF n.skipping THEN Injected(cfg, n.prepend, Pre) ELSE <<>>]
    <3>1. /\ o.m = n /\ o.ran = p.ran /\ o.status = "go"
          /\ o.head = (IF n.skipping THEN Injected(cfg, n.prepend, Pre) ELSE <<>>)
      BY <2>7
    <3>2. n.skipping => ~Buffered
      BY <2>1, <2>4, Zenon
    <3>3. CallGoes(n, o.head)
      BY <2>4, <3>1, <3>2, Zenon DEF CallGoes
    <3>4. QED
      BY <2>5, <3>1, <3>3, Zenon DEF CallShape
  <2>8. QED
    BY <2>2, <2>6, <2>7
<1>9. QED
  BY <1>5, <1>6, <1>7, <1>8

LEMMA LaterCallFacts ==
    ASSUME Inv, pc = "respond", inChain, msr.ofStatus # "not_started",
           NEW o, o = [m |-> msr, ran |-> FALSE, status |-> "go", head |-> <<>>]
    PROVE  CallShape(o)
<1>1. /\ cfg \in Configs /\ msr \in Contexts /\ Sound(msr) /\ msr.exists
      /\ msr.scope # "none" => msr.phase >= 1
      /\ msr.streamChanged => cfg.stream
      /\ msr.ofStatus = "in_progress"
  BY DEF Inv, TypeOK, ContextShape, FilterShape, Contexts
<1>2. o.m = msr /\ o.ran = FALSE /\ o.status = "go" /\ o.head = <<>>
  OBVIOUS
<1>3. CallBase(msr, FALSE)
  BY <1>1, Zenon DEF CallBase
<1>4. CallGoes(msr, <<>>)
  BY <1>1, Zenon DEF CallGoes
<1>5. QED
  BY <1>2, <1>3, <1>4, Zenon DEF CallShape

-----------------------------------------------------------------------------
(* The output filter: what a call leaves behind.                           *)

Usable(m) == /\ m \in Contexts /\ m.exists /\ Sound(m)
             /\ m.scope # "none" => m.phase >= 1
             /\ m.streamChanged => cfg.stream

FilterStep(m) ==
    /\ UNCHANGED <<cfg, source, page, audited>>
    /\ msr' = m /\ Usable(m) /\ Ascending(ran', m.phase) /\ InOrder
    /\ left' \in Data /\ sent' \in Data
    /\ denied' \in 0..4 /\ (denied' # 0 => m.intercepted)
    /\ pc' \in {"error", "respond", "log"} /\ inChain' \in BOOLEAN
    /\ pc' # "respond" => ~inChain'
    /\ pc' = "error" => sent' = <<>>
    /\ inChain' => m.ofStatus # "complete"
    /\ m.ofStatus = "not_started" =>
         m.brigade = <<>> /\ m.resLen = 0 /\ ~m.skipping /\ ~m.partial

LEMMA FilterStepInv ==
    ASSUME Inv, pc = "respond", NEW m, FilterStep(m),
           HandlerShape', ErrorShape', InspectedFirst', WholeResponse'
    PROVE  Inv' /\ InOrder
<1>1. TypeOK' /\ (page = Units(Len(page)))' /\ (Len(page) <= MaxPage)'
  BY DEF Inv, TypeOK, FilterStep, Usable, Ascending
<1>2. ContextShape'
  BY DEF FilterStep, Usable, ContextShape
<1>3. OrderShape' /\ InOrder
  BY DEF FilterStep, OrderShape
<1>4. FilterShape'
  BY DEF FilterStep, Usable, FilterShape
<1>5. LogShape' /\ AuditedWhenRelevant'
  BY DEF Inv, FilterStep, LogShape, AuditedWhenRelevant
<1>6. QED
  BY <1>1, <1>2, <1>3, <1>4, <1>5 DEF Inv

\* A response that is buffered has sent nothing of the page.
LEMMA BufferedNoPage ==
    ASSUME Inv, pc = "respond", inChain, Buffered
    PROVE  NoPage(sent) /\ ~msr.skipping /\ ~msr.partial
<1>1. ~msr.skipping /\ ~msr.partial
  BY DEF Inv, ErrorShape
<1>2. source = "handler" => sent = <<>>
  BY <1>1, Zenon DEF Inv, HandlerShape, Observing
<1>3. source = "error" => NoPage(sent)
  BY DEF Inv, ErrorShape
<1>4. source \in {"handler", "error"}
  BY DEF Inv, TypeOK
<1>5. QED
  BY <1>1, <1>2, <1>3, <1>4, SpecialFacts

\* The filter gives up: send_error_bucket.
GivesUp(m, phase, s) ==
    /\ UNCHANGED <<cfg, source, page, audited>>
    /\ ErrorBucket(m, phase, s) /\ Usable(m) /\ Ascending(ran', m.phase) /\ InOrder
    /\ phase \in 0..4 /\ (phase > 0 \/ denied # 0 => m.intercepted)
    /\ m.ofStatus = "not_started" =>
         m.brigade = <<>> /\ m.resLen = 0 /\ ~m.skipping /\ ~m.partial
    /\ Buffered => ~m.skipping /\ ~m.partial /\ (m.ofStatus = "complete" \/ m.brigade = <<>>)

LEMMA GivesUpStep ==
    ASSUME Inv, pc = "respond", inChain, NEW m, NEW phase, NEW s, GivesUp(m, phase, s)
    PROVE  Inv' /\ InOrder
<1>1. /\ msr' = m /\ inChain' = FALSE /\ left' = left /\ sent' = sent
      /\ pc' = IF sent = <<>> /\ s # "dropped" THEN "error" ELSE "log"
      /\ denied' = IF phase > 0 THEN phase ELSE denied
      /\ UNCHANGED <<cfg, source, page, audited>>
  BY DEF GivesUp, ErrorBucket
<1>2. left \in Data /\ sent \in Data /\ denied \in 0..4 /\ source \in {"handler", "error"}
  BY DEF Inv, TypeOK
<1>3. pc' \in {"error", "log"} /\ (pc' = "error" => sent = <<>>)
  BY <1>1
<1>4. denied' \in 0..4 /\ (denied' # 0 => m.intercepted)
  BY <1>1, <1>2 DEF GivesUp
<1>5. FilterStep(m)
  BY <1>1, <1>2, <1>3, <1>4 DEF FilterStep, GivesUp
<1>6. HandlerShape'
  BY <1>3 DEF HandlerShape
<1>7. Buffered' = Buffered
  BY <1>1 DEF Buffered
<1>8. Buffered => NoPage(sent)
  BY BufferedNoPage
<1>9. ErrorShape'
  <2>1. Buffered /\ source = "error" => NoPage(left)
    BY DEF Inv, ErrorShape
  <2>2. Buffered => ~m.skipping /\ ~m.partial /\ (m.ofStatus = "complete" \/ m.brigade = <<>>)
    BY DEF GivesUp
  <2>3. QED
    BY <1>1, <1>7, <1>8, <2>1, <2>2 DEF ErrorShape
<1>10. InspectedFirst'
  <2>1. PageSent' => ~NoPage(sent')
    BY DEF PageSent, NoPage
  <2>2. QED
    BY <1>1, <1>7, <1>8, <2>1 DEF InspectedFirst
<1>11. WholeResponse'
  <2>1. source = "handler" => Eos \notin ToSet(sent)
    BY HandlerNoEos
  <2>2. ToSet(sent)' = ToSet(sent)
    BY <1>1 DEF ToSet
  <2>3. QED
    BY <1>1, <2>1, <2>2, Zenon DEF WholeResponse
<1>12. QED
  BY <1>5, <1>6, <1>9, <1>10, <1>11, FilterStepInv

\* The phases of a call: phase 3, if it ran, and phase 4.
LEMMA CallRan ==
    ASSUME Inv, NEW m, NEW r, CallBase(m, r), ran' = Behind(ran, r, 3)
    PROVE  Ascending(ran', m.phase) /\ InOrder
<1>1. msr \in Contexts /\ Ascending(ran, msr.phase) /\ (denied # 0 => msr.intercepted)
  BY DEF Inv, TypeOK, OrderShape, ContextShape
<1>2. msr.phase \in 0..5 /\ m.phase \in 0..5
  BY <1>1 DEF CallBase, Contexts
<1>3. /\ r \in BOOLEAN /\ msr.phase <= m.phase /\ (r => msr.phase < 3 /\ 3 <= m.phase)
      /\ r => ~msr.intercepted /\ msr.scope # "allow"
  BY <1>2 DEF CallBase
<1>4. /\ Ascending(Behind(ran, r, 3), m.phase) /\ Len(ran) <= Len(Behind(ran, r, 3))
      /\ ~r => Behind(ran, r, 3) = ran
  <2> DEFINE k == msr.phase
             k1 == m.phase
  <2>1. /\ Ascending(ran, k) /\ k \in 0..5 /\ k1 \in 0..5 /\ 3 \in 1..5 /\ r \in BOOLEAN
        /\ k <= k1 /\ (r => k < 3 /\ 3 <= k1)
    BY <1>1, <1>2, <1>3
  <2> HIDE DEF k, k1
  <2>2. /\ Ascending(Behind(ran, r, 3), k1) /\ Len(ran) <= Len(Behind(ran, r, 3))
        /\ ~r => Behind(ran, r, 3) = ran
    BY ONLY <2>1, BehindFacts, ZenonT(60)
  <2>3. QED
    BY <2>2, Zenon DEF k, k1
<1>5. r => denied = 0 /\ msr.scope # "allow"
  BY <1>1, <1>3, Zenon
<1>6. Ascending(ran', m.phase) /\ Len(ran) <= Len(ran') /\ (~r => ran' = ran)
  BY <1>4, Zenon
<1>7. InOrder
  BY <1>1, <1>2, <1>5, <1>6, InOrderFacts, Zenon
<1>8. QED
  BY <1>6, <1>7

LEMMA CallRanBoth ==
    ASSUME Inv, NEW m, NEW r, CallBase(m, r), NEW n \in Contexts, SamePhases(m, n),
           n.exists, NEW p, PhaseShape(n, 4, cfg, p),
           ran' = Behind(Behind(ran, r, 3), p.ran, 4)
    PROVE  /\ Ascending(ran', p.m.phase) /\ InOrder /\ Usable(p.m)
           /\ denied # 0 => p.m.intercepted
<1>1. msr \in Contexts /\ Ascending(ran, msr.phase) /\ (denied # 0 => msr.intercepted)
  BY DEF Inv, TypeOK, OrderShape, ContextShape
<1>2. /\ n.phase = m.phase /\ n.scope = m.scope /\ n.intercepted = m.intercepted
      /\ n.streamChanged = m.streamChanged
  BY Zenon DEF SamePhases
<1>3. /\ p.m \in Contexts /\ Sound(p.m) /\ p.ran \in BOOLEAN
      /\ p.m.phase = m.phase \/ (p.m.phase = 4 /\ m.phase < 4)
      /\ p.ran => m.phase < 4 /\ p.m.phase = 4 /\ ~m.intercepted /\ m.scope # "allow"
      /\ m.intercepted => p.m.intercepted
      /\ p.m.scope # m.scope => p.m.phase = 4
      /\ p.m.streamChanged => m.streamChanged \/ cfg.stream
      /\ p.m.exists
  BY <1>2 DEF PhaseShape, SameFilter
<1>4. msr.phase \in 0..5 /\ m.phase \in 0..5 /\ p.m.phase \in 0..5
  BY <1>1, <1>3 DEF CallBase, Contexts
<1>5. /\ r \in BOOLEAN /\ msr.phase <= m.phase /\ (r => msr.phase < 3 /\ 3 <= m.phase)
      /\ r => ~msr.intercepted /\ msr.scope # "allow"
      /\ ~r => m.scope = msr.scope
      /\ msr.intercepted => m.intercepted
      /\ m.scope # "none" => m.phase >= 1
      /\ m.streamChanged => cfg.stream
  BY <1>4 DEF CallBase
<1>6. m.phase <= p.m.phase /\ (p.ran => m.phase < 4 /\ 4 <= p.m.phase)
  BY <1>3, <1>4
<1>7. MayRun(ran, msr.phase, r, 3, m.phase, p.ran, 4, p.m.phase)
  BY <1>1, <1>3, <1>4, <1>5, <1>6 DEF MayRun
<1>8. /\ Ascending(Behind(Behind(ran, r, 3), p.ran, 4), p.m.phase)
      /\ Len(ran) <= Len(Behind(Behind(ran, r, 3), p.ran, 4))
      /\ ~r /\ ~p.ran => Behind(Behind(ran, r, 3), p.ran, 4) = ran
  BY ONLY <1>7, TwoPhases
<1>9. Ascending(ran', p.m.phase) /\ Len(ran) <= Len(ran') /\ (~r /\ ~p.ran => ran' = ran)
  BY <1>8, Zenon
<1>10. r \/ p.ran => denied = 0 /\ msr.scope # "allow"
  BY <1>1, <1>3, <1>5
<1>11. InOrder
  BY <1>1, <1>4, <1>9, <1>10, InOrderFacts, Zenon
<1>12. p.m.scope # "none" => p.m.phase >= 1
  BY <1>3, <1>4, <1>5
<1>13. denied # 0 => p.m.intercepted
  BY <1>1, <1>3, <1>5, Zenon
<1>14. Usable(p.m)
  BY <1>3, <1>5, <1>12, Zenon DEF Usable
<1>15. QED
  BY <1>9, <1>11, <1>13, <1>14

\* What the filter has of the response when it goes on with a brigade.
GoShape(m, head) ==
    /\ source = "handler" =>
         /\ denied = 0
         /\ ~m.skipping /\ ~m.partial =>
              /\ sent = <<>> /\ m.phase <= 3
              /\ m.brigade \o left = page /\ m.resLen = Len(m.brigade)
         /\ m.skipping \/ m.partial =>
              (sent \o head) \o left = Injected(cfg, m.prepend, Pre) \o page
    /\ Buffered => /\ ~m.skipping /\ ~m.partial /\ NoPage(sent)
                   /\ source = "error" => NoPage(left) /\ NoPage(m.brigade)
    /\ head \in Data /\ m.ofStatus = "in_progress"

LEMMA GoFacts ==
    ASSUME Inv, pc = "respond", inChain, NEW m, NEW r, NEW head,
           CallBase(m, r), CallGoes(m, head)
    PROVE  GoShape(m, head)
<1>1. sent \in Data /\ left \in Data /\ page \in Data /\ <<>> \in Data /\ <<Pre>> \in Data
  BY DataFacts, SpecialFacts DEF Inv, TypeOK
<1>2. Buffered => /\ NoPage(sent) /\ ~msr.skipping /\ ~msr.partial
                  /\ source = "error" => NoPage(left) /\ NoPage(msr.brigade)
  BY BufferedNoPage DEF Inv, ErrorShape
<1>3. CASE m = msr /\ head = <<>> /\ msr.ofStatus = "in_progress"
  <2>1. sent \o <<>> = sent
    BY <1>1, DataFacts
  <2>2. source = "handler" =>
         /\ denied = 0
         /\ ~msr.skipping /\ ~msr.partial =>
              /\ sent = <<>> /\ msr.phase <= 3
              /\ msr.brigade \o left = page /\ msr.resLen = Len(msr.brigade)
         /\ msr.skipping \/ msr.partial =>
              sent \o left = Injected(cfg, msr.prepend, Pre) \o page
    BY Zenon DEF Inv, HandlerShape, Observing
  <2>3. QED
    BY <1>1, <1>2, <1>3, <2>1, <2>2 DEF GoShape
<1>4. CASE /\ msr.ofStatus = "not_started" /\ (m.skipping => ~Buffered)
           /\ head = (IF m.skipping THEN Injected(cfg, m.prepend, Pre) ELSE <<>>)
  <2>1. msr.brigade = <<>> /\ msr.resLen = 0 /\ ~msr.skipping /\ ~msr.partial
    BY <1>4 DEF Inv, FilterShape
  <2>2. source = "handler" =>
         /\ denied = 0 /\ sent = <<>> /\ msr.phase <= 3 /\ msr.brigade \o left = page
    BY <2>1, Zenon DEF Inv, HandlerShape, Observing
  <2>3. m.brigade = <<>> /\ m.resLen = 0 /\ ~m.partial
    BY <2>1 DEF CallBase
  <2>4. head \in Data
    BY <1>1, <1>4 DEF Injected
  <2>5. source = "handler" => left = page /\ (sent \o head) \o left = head \o page
    <3>1. ASSUME source = "handler" PROVE left = page /\ sent = <<>>
      BY <1>1, <2>1, <2>2, <3>1, DataFacts
    <3>2. <<>> \o head = head
      BY <2>4, DataFacts
    <3>3. QED
      BY <3>1, <3>2, Zenon
  <2>6. source = "handler" => m.phase <= 3 /\ m.brigade \o left = page /\ m.resLen = Len(m.brigade)
    <3>1. msr.phase \in 0..5 /\ Len(<<>>) = 0 /\ (m.phase = msr.phase \/ m.phase = 3)
      BY DEF Inv, TypeOK, Contexts, CallBase
    <3>2. source = "handler" => m.phase <= 3
      BY <2>2, <3>1
    <3>3. QED
      BY <2>1, <2>2, <2>3, <3>1, <3>2, Zenon
  <2>7. m.skipping => head = Injected(cfg, m.prepend, Pre)
    BY <1>4
  <2>8. NoPage(m.brigade)
    BY <2>3, SpecialFacts
  <2>9. m.ofStatus = "in_progress"
    BY DEF CallGoes
  <2>10. QED
    BY <1>2, <1>4, <2>2, <2>3, <2>4, <2>5, <2>6, <2>7, <2>8, <2>9, Zenon DEF GoShape
<1>5. QED
  BY <1>3, <1>4 DEF CallGoes

-----------------------------------------------------------------------------
(* The output filter: a brigade that goes on.                              *)

LEMMA WithoutEosFacts ==
    ASSUME NEW s \in Data
    PROVE  /\ WithoutEos(s) \in Data
           /\ \A t \in Data : s = t \o <<Eos>> => WithoutEos(s) = t
<1>1. ASSUME s # <<>> PROVE Front(s) \in Data
  <2>1. Len(s) \in Nat /\ Len(s) # 0
    BY <1>1, DataFacts
  <2>2. Len(s) - 1 \in 0..Len(s) /\ Front(s) = SubSeq(s, 1, Len(s) - 1)
    BY <2>1 DEF Front
  <2>3. QED
    BY <2>2, CutFacts
<1>2. WithoutEos(s) \in Data
  BY <1>1 DEF WithoutEos
<1>3. ASSUME NEW t \in Data, s = t \o <<Eos>> PROVE WithoutEos(s) = t
  <2>1. Eos \in Bucket
    BY DEF Bucket
  <2>2. Front(s) = t /\ Last(s) = Eos /\ s # <<>>
    BY <1>3, <2>1, FrontFacts, Zenon
  <2>3. QED
    BY <2>2, Zenon DEF WithoutEos
<1>4. QED
  BY <1>2, <1>3

LEMMA UpdateResbody ==
    ASSUME NEW m \in Contexts, NEW x \in Data
    PROVE  /\ Moved(m, [m EXCEPT !.resbody = x])
           /\ [m EXCEPT !.resbody = x].ofStatus = m.ofStatus
           /\ [m EXCEPT !.resbody = x].skipping = m.skipping
           /\ [m EXCEPT !.resbody = x].resbody = x
<1> DEFINE n == [m EXCEPT !.resbody = x]
<1>1. n \in Contexts
  BY ZenonT(60) DEF Contexts
<1>2. QED
  BY <1>1 DEF Contexts, SamePhases, Sound, Moved

LEMMA FlattenFacts ==
    ASSUME NEW m \in Contexts
    PROVE  /\ Moved(m, Flatten(m)) /\ Flatten(m).ofStatus = m.ofStatus
           /\ Flatten(m).skipping = m.skipping
           /\ \A s \in Data : m.brigade = s \o <<Eos>> /\ m.resLen = Len(s) =>
                                Flatten(m).resbody = s
<1> DEFINE data == WithoutEos(m.brigade)
           k == IF m.resLen < Len(data) THEN m.resLen ELSE Len(data)
           x == SubSeq(data, 1, k)
<1>1. m.brigade \in Data /\ m.resLen \in Nat
  BY DEF Contexts
<1>2. data \in Data /\ (\A s \in Data : m.brigade = s \o <<Eos>> => data = s)
  BY <1>1, WithoutEosFacts
<1>3. Flatten(m) = [m EXCEPT !.resbody = x]
  BY DEF Flatten
<1> HIDE DEF data
<1>4. k \in 0..Len(data) /\ (m.resLen = Len(data) => k = Len(data))
  BY <1>1, <1>2, DataFacts
<1> HIDE DEF k
<1>5. x \in Data /\ (k = Len(data) => x = data)
  BY <1>2, <1>4, CutFacts
<1> HIDE DEF x
<1>6. /\ Moved(m, Flatten(m)) /\ Flatten(m).ofStatus = m.ofStatus
      /\ Flatten(m).skipping = m.skipping /\ Flatten(m).resbody = x
  BY <1>3, <1>5, UpdateResbody
<1>7. ASSUME NEW s \in Data, m.brigade = s \o <<Eos>>, m.resLen = Len(s)
      PROVE  Flatten(m).resbody = s
  BY <1>2, <1>4, <1>5, <1>6, <1>7
<1>8. QED
  BY <1>6, <1>7

LEMMA UpdateDone ==
    ASSUME NEW m \in Contexts
    PROVE  /\ Moved(m, [m EXCEPT !.doneReading = TRUE, !.ofStatus = "complete"])
           /\ [m EXCEPT !.doneReading = TRUE, !.ofStatus = "complete"].ofStatus = "complete"
           /\ [m EXCEPT !.doneReading = TRUE, !.ofStatus = "complete"].skipping = m.skipping
<1> DEFINE n == [m EXCEPT !.doneReading = TRUE, !.ofStatus = "complete"]
<1>1. n \in Contexts
  BY ZenonT(60) DEF Contexts
<1>2. QED
  BY <1>1 DEF Contexts, SamePhases, Sound, Moved

\* The injected content and the end, around a body.
LEMMA WholeFacts ==
    ASSUME NEW body \in Data, NEW f, NEW x, f /\ cfg.injection => x, x => f /\ cfg.injection
    PROVE  /\ ((Injected(cfg, f, Pre) \o body) \o Injected(cfg, f, App)) \o <<Eos>>
                = Whole(x, body)
           /\ Injected(cfg, f, Pre) \in Data /\ Injected(cfg, f, App) \in Data
<1>1. <<Pre>> \in Data /\ <<App>> \in Data /\ <<>> \in Data
  BY SpecialFacts, DataFacts
<1>2. CASE cfg.injection /\ f
  BY <1>1, <1>2 DEF Injected, Whole
<1>3. CASE ~(cfg.injection /\ f)
  BY <1>1, <1>3 DEF Injected, Whole
<1>4. QED
  BY <1>2, <1>3

LEMMA PassOnStep ==
    ASSUME Inv, pc = "respond", inChain, UNCHANGED <<cfg, source, page, audited>>,
           NEW o, NEW m, NEW head, CallBase(m, o.ran), GoShape(m, head),
           m.skipping \/ m.partial, NEW b \in Brigade, PassOn(m, o, b, head, cfg)
    PROVE  Inv' /\ InOrder
<1> DEFINE tail == IF b.eos THEN Injected(cfg, m.append, App) \o <<Eos>> ELSE <<>>
           out  == head \o b.data \o tail
           done == [m EXCEPT !.doneReading = TRUE, !.ofStatus = "complete"]
<1>1. /\ sent \in Data /\ left \in Data /\ page \in Data /\ cfg \in Configs
      /\ <<Eos>> \in Data /\ <<>> \in Data /\ denied \in 0..4 /\ m \in Contexts
      /\ head \in Data
  BY DataFacts, SpecialFacts DEF Inv, TypeOK, CallBase, GoShape
<1>2. /\ b.data \in Data /\ b.eos \in BOOLEAN
      /\ SubSeq(left, Len(b.data) + 1, Len(left)) \in Data
      /\ b.data \o SubSeq(left, Len(b.data) + 1, Len(left)) = left
      /\ b.eos => b.data = left
  BY <1>1, BrigadeFacts
<1>3. ~Buffered /\ ~Buffered'
  <2>1. ~Buffered
    BY DEF GoShape
  <2>2. QED
    BY <2>1 DEF Buffered
<1>4. ErrorShape' /\ InspectedFirst'
  BY <1>3 DEF ErrorShape, InspectedFirst
<1>5. /\ denied # 0 => m.intercepted
      /\ Usable(m) /\ m.ofStatus = "in_progress"
  <2>1. denied # 0 => msr.intercepted
    BY DEF Inv, ContextShape
  <2>2. QED
    BY <2>1 DEF CallBase, Usable, GoShape
<1>6. source = "handler" =>
        denied = 0 /\ (sent \o head) \o left = Injected(cfg, m.prepend, Pre) \o page
  BY Zenon DEF GoShape
<1>7. CASE ~b.eos
  <2>1. /\ msr' = m /\ sent' = sent \o out /\ ran' = Behind(ran, o.ran, 3)
        /\ inChain' = inChain /\ pc' = pc /\ denied' = denied
        /\ left' = SubSeq(left, Len(b.data) + 1, Len(left))
    BY <1>7, Zenon DEF PassOn, Behind
  <2>2. out = head \o b.data /\ out \in Data
    BY <1>1, <1>2, <1>7, DataFacts
  <2> HIDE DEF out
  <2>3. sent' \in Data /\ left' \in Data /\ b.data \o left' = left
    BY <1>1, <1>2, <2>1, <2>2, DataFacts
  <2>4. Ascending(ran', m.phase) /\ InOrder
    BY <2>1, CallRan, Zenon
  <2>5. FilterStep(m)
    BY <1>1, <1>5, <2>1, <2>3, <2>4 DEF FilterStep
  <2>6. HandlerShape'
    <3>1. sent' \o left' = (sent \o head) \o left
      <4>1. (sent \o head) \o b.data = sent \o (head \o b.data)
        <5>1. sent \in Data /\ head \in Data /\ b.data \in Data
          BY <1>1, <1>2
        <5>2. QED
          BY <5>1, ConcatAssoc, ZenonT(60)
      <4>2. sent \o head \in Data
        BY <1>1, DataFacts
      <4>3. ((sent \o head) \o b.data) \o left' = (sent \o head) \o (b.data \o left')
        BY <1>2, <2>3, <4>2, ConcatAssoc, ZenonT(60)
      <4>4. QED
        BY <2>1, <2>2, <2>3, <4>1, <4>3, Zenon
    <3>2. source = "handler" =>
            /\ denied' = 0 /\ inChain' /\ (m.skipping \/ m.partial)
            /\ sent' \o left' = Injected(cfg, m.prepend, Pre) \o page
      BY <1>6, <2>1, <3>1, Zenon
    <3>3. msr' = m /\ cfg' = cfg /\ page' = page /\ source' = source
      BY <2>1
    <3>4. Injected(cfg, m.prepend, Pre)' = Injected(cfg', msr'.prepend, Pre)
          /\ Injected(cfg', msr'.prepend, Pre) = Injected(cfg, m.prepend, Pre)
      BY <3>3, Zenon
    <3>5. QED
      BY <3>2, <3>3, <3>4, Zenon DEF HandlerShape, Observing
  <2>7. WholeResponse'
    BY <2>1 DEF WholeResponse
  <2>8. QED
    BY <1>4, <2>5, <2>6, <2>7, FilterStepInv
<1>8. CASE b.eos
  <2> DEFINE n == IF m.phase < 4 THEN Flatten(done) ELSE done
  <2>1. PICK p \in PhaseAndIntercept(n, 4, cfg) :
          /\ ran' = Behind(Behind(ran, o.ran, 3), p.ran, 4)
          /\ IF p.status = "DECLINED"
             THEN /\ msr' = p.m
                  /\ sent' = sent \o out
                  /\ left' = <<>>
                  /\ inChain' = FALSE
                  /\ pc' = "log"
                  /\ denied' = denied
             ELSE ErrorBucket(p.m, IF p.status = "error" THEN 0 ELSE 4, p.status)
    BY <1>8, Zenon DEF PassOn, Behind
  <2>2. Moved(m, done) /\ done.ofStatus = "complete" /\ done.skipping = m.skipping
    BY <1>1, UpdateDone
  <2>3. done \in Contexts
    BY <2>2 DEF Moved
  <2> HIDE DEF done
  <2>4. /\ Moved(done, Flatten(done)) /\ Flatten(done).ofStatus = done.ofStatus
        /\ Flatten(done).skipping = done.skipping
    BY <2>3, FlattenFacts
  <2>5. Moved(m, n) /\ n.ofStatus = "complete" /\ n.skipping = m.skipping
    BY <2>2, <2>4 DEF Moved, SamePhases
  <2> HIDE DEF n
  <2>6. n \in Contexts /\ SamePhases(m, n) /\ n.exists /\ Sound(n) /\ n.partial = m.partial
    BY <2>5 DEF Moved, SamePhases, CallBase
  <2>7. PhaseShape(n, 4, cfg, p)
    <3>1. 4 \in 1..4
      OBVIOUS
    <3>2. QED
      BY <1>1, <2>6, <3>1, PhaseFacts, Zenon
  <2>8. /\ Ascending(ran', p.m.phase) /\ InOrder /\ Usable(p.m)
        /\ denied # 0 => p.m.intercepted
    BY <2>1, <2>6, <2>7, CallRanBoth
  <2>9. /\ p.m.ofStatus = "complete" /\ p.m.prepend = m.prepend
        /\ p.status \in {"DECLINED", "error", "denied", "dropped"}
        /\ p.status \in {"denied", "dropped"} => p.m.intercepted
    BY <2>5, <2>6, <2>7 DEF PhaseShape, SameFilter, SamePhases
  <2>10. CASE p.status = "DECLINED"
    <3>1. /\ msr' = p.m /\ sent' = sent \o out /\ left' = <<>> /\ inChain' = FALSE
          /\ pc' = "log" /\ denied' = denied
      BY <2>1, <2>10
    <3> DEFINE pre == Injected(cfg, m.prepend, Pre)
               app == Injected(cfg, m.prepend, App)
    <3>2. pre \in Data /\ app \in Data
      BY <1>1, WholeFacts
    <3>3. out = (head \o left) \o (app \o <<Eos>>)
      <4>1. m.append = m.prepend
        BY DEF CallBase, Sound
      <4>2. QED
        BY <1>2, <1>8, <4>1
    <3> HIDE DEF out, pre, app
    <3>4. out \in Data /\ sent' \in Data
      BY <1>1, <3>1, <3>2, <3>3, DataFacts
    <3>5. FilterStep(p.m)
      BY <1>1, <2>8, <2>9, <3>1, <3>4 DEF FilterStep
    <3>6. HandlerShape'
      BY <3>1 DEF HandlerShape
    <3>7. source = "handler" => sent' = ((pre \o page) \o app) \o <<Eos>>
      <4> SUFFICES ASSUME source = "handler" PROVE sent' = ((pre \o page) \o app) \o <<Eos>>
        OBVIOUS
      <4>1. (sent \o head) \o left = pre \o page
        BY <1>6 DEF pre
      <4>2. head \o left \in Data /\ app \o <<Eos>> \in Data /\ pre \o page \in Data
        BY <1>1, <3>2, DataFacts
      <4>3. (sent \o (head \o left)) \o (app \o <<Eos>>) = sent \o ((head \o left) \o (app \o <<Eos>>))
        <5>1. sent \in Data
          BY <1>1
        <5>2. QED
          BY <4>2, <5>1, ConcatAssoc, ZenonT(60)
      <4>4. (sent \o head) \o left = sent \o (head \o left)
        <5>1. sent \in Data /\ head \in Data /\ left \in Data
          BY <1>1
        <5>2. QED
          BY <5>1, ConcatAssoc, ZenonT(60)
      <4>5. ((pre \o page) \o app) \o <<Eos>> = (pre \o page) \o (app \o <<Eos>>)
        <5>1. pre \o page \in Data /\ app \in Data /\ <<Eos>> \in Data
          BY <1>1, <3>2, <4>2
        <5>2. QED
          BY <5>1, ConcatAssoc, ZenonT(60)
      <4>6. QED
        BY <3>1, <3>3, <4>1, <4>3, <4>4, <4>5, Zenon
    <3>8. WholeResponse'
      <4> DEFINE x == p.m.prepend /\ cfg.injection /\ p.m.ofStatus # "not_started"
      <4>1. (m.prepend /\ cfg.injection => x) /\ (x => m.prepend /\ cfg.injection)
        BY <2>9
      <4>4. x = (msr'.prepend /\ cfg'.injection /\ msr'.ofStatus # "not_started")
            /\ page' = page /\ source' = source
        BY <3>1, Zenon
      <4> HIDE DEF x
      <4>2. ((pre \o page) \o app) \o <<Eos>> = Whole(x, page)
        BY <1>1, <4>1, WholeFacts DEF pre, app
      <4>3. source = "handler" => sent' = Whole(x, page)
        BY <3>7, <4>2, Zenon
      <4>5. QED
        BY <4>3, <4>4, Zenon DEF WholeResponse
    <3>9. QED
      BY <1>4, <3>5, <3>6, <3>8, FilterStepInv
  <2>11. CASE p.status # "DECLINED"
    <3> DEFINE ph == IF p.status = "error" THEN 0 ELSE 4
    <3>1. ErrorBucket(p.m, ph, p.status)
      BY <2>1, <2>11
    <3>2. ph \in 0..4 /\ (ph > 0 => p.m.intercepted)
      BY <2>9, <2>11
    <3> HIDE DEF ph
    <3>3. GivesUp(p.m, ph, p.status)
      BY <1>3, <2>8, <2>9, <3>1, <3>2 DEF GivesUp
    <3>4. QED
      BY <3>3, GivesUpStep
  <2>12. QED
    BY <2>10, <2>11
<1>9. QED
  BY <1>7, <1>8

-----------------------------------------------------------------------------
(* The output filter: a brigade that is kept.                              *)

LEMMA ObserveFacts ==
    ASSUME NEW m \in Contexts, left \in Data, NEW b \in Brigade, NEW limit \in Nat
    PROVE  /\ Observe(m, b, limit).over \in BOOLEAN /\ Observe(m, b, limit).len \in Nat
           /\ ~Observe(m, b, limit).over =>
                Observe(m, b, limit).len = m.resLen + Len(b.data)
<1> DEFINE size == m.resLen + Len(b.data)
           over == m.resLen + Len(Buckets(b)) > limit + 1
           len  == IF ~over THEN size
                   ELSE IF b.eos THEN limit ELSE limit + ((size - limit) % 2)
<1>1. b.data \in Data /\ b.eos \in BOOLEAN /\ Buckets(b) \in Data
  BY BrigadeFacts
<1>2. m.resLen \in Nat /\ Len(b.data) \in Nat
  BY <1>1, DataFacts DEF Contexts
<1>3. size \in Nat /\ (size - limit) % 2 \in {0, 1}
  BY <1>2
<1>4. Observe(m, b, limit) = [over |-> over, len |-> len]
  BY DEF Observe
<1>5. over \in BOOLEAN /\ (~over => len = size)
  OBVIOUS
<1> HIDE DEF over
<1>6. len \in Nat
  BY <1>3
<1> HIDE DEF len
<1>7. QED
  BY <1>4, <1>5, <1>6

WasKept(m, s, k, n) ==
    /\ n \in Contexts /\ SamePhases(m, n) /\ n.exists = m.exists
    /\ n.ofStatus = m.ofStatus /\ n.skipping = m.skipping
    /\ n.partial = m.partial /\ n.brigade = s /\ n.resLen = k

LEMMA UpdateKept ==
    ASSUME NEW m \in Contexts, NEW s \in Data, NEW k \in Nat, NEW x \in BOOLEAN,
           NEW y \in BOOLEAN
    PROVE  WasKept(m, s, k, [m EXCEPT !.brigade = s, !.resLen = k, !.outbound = x,
                                      !.doneReading = y])
<1> DEFINE n == [m EXCEPT !.brigade = s, !.resLen = k, !.outbound = x, !.doneReading = y]
<1>1. n \in Contexts
  BY ZenonT(60) DEF Contexts
<1>2. QED
  BY <1>1 DEF Contexts, SamePhases, Sound, WasKept

LEMMA UpdateTooLarge ==
    ASSUME NEW m \in Contexts
    PROVE  /\ Moved(m, [m EXCEPT !.outbound = TRUE, !.ofStatus = "complete"])
           /\ [m EXCEPT !.outbound = TRUE, !.ofStatus = "complete"].ofStatus = "complete"
           /\ [m EXCEPT !.outbound = TRUE, !.ofStatus = "complete"].skipping = m.skipping
<1> DEFINE n == [m EXCEPT !.outbound = TRUE, !.ofStatus = "complete"]
<1>1. n \in Contexts
  BY ZenonT(60) DEF Contexts
<1>2. QED
  BY <1>1 DEF Contexts, SamePhases, Sound, Moved

WasSent(m, x, y, s, n) ==
    /\ n \in Contexts /\ n.phase = m.phase /\ n.scope = m.scope
    /\ n.intercepted = m.intercepted /\ n.prepend = m.prepend
    /\ Sound(m) => Sound(n)
    /\ n.exists = m.exists /\ n.skipping = m.skipping /\ n.resbody = m.resbody
    /\ n.partial = x /\ n.streamChanged = y /\ n.ofStatus = s /\ n.brigade = <<>>

LEMMA UpdateSent ==
    ASSUME NEW m \in Contexts, NEW x \in BOOLEAN, NEW y \in BOOLEAN,
           NEW s \in {"not_started", "in_progress", "complete"}
    PROVE  WasSent(m, x, y, s, [m EXCEPT !.brigade = <<>>, !.partial = x,
                                         !.streamChanged = y, !.ofStatus = s])
<1> DEFINE n == [m EXCEPT !.brigade = <<>>, !.partial = x, !.streamChanged = y,
                          !.ofStatus = s]
<1>0. <<>> \in Data
  BY DataFacts
<1>1. n \in Contexts
  <2> DEFINE e == <<>>
  <2>1. e \in Data /\ n = [m EXCEPT !.brigade = e, !.partial = x, !.streamChanged = y,
                                    !.ofStatus = s]
    BY <1>0
  <2> HIDE DEF e
  <2>2. QED
    BY <2>1, ZenonT(60) DEF Contexts
<1>2. QED
  BY <1>1 DEF Contexts, Sound, WasSent

\* Phase 4 looks at what was kept.
KeepLooks(m, r, kept, part, p) ==
    /\ CallBase(m, r) /\ kept \in Contexts /\ SamePhases(m, kept)
    /\ kept.exists /\ kept.ofStatus = "in_progress" /\ ~kept.skipping /\ ~kept.partial
    /\ part \in BOOLEAN
    /\ LET now == IF part THEN kept ELSE [kept EXCEPT !.ofStatus = "complete"]
       IN  p \in PhaseAndIntercept(IF part \/ m.phase < 4 THEN Flatten(now) ELSE now, 4, cfg)
    /\ ran' = Behind(Behind(ran, r, 3), p.ran, 4)

\* What phase 4 has left of what was kept.
KeepLooked(m, part, p) ==
    /\ Ascending(ran', p.m.phase) /\ InOrder /\ Usable(p.m)
    /\ denied # 0 => p.m.intercepted
    /\ ~part => p.m.ofStatus = "complete"
    /\ part => p.m.ofStatus = "in_progress"
    /\ ~p.m.skipping /\ ~p.m.partial /\ p.m.prepend = m.prepend

KeepSeen(m, kept, p) ==
    /\ p.m.brigade = kept.brigade
    /\ p.status \in {"DECLINED", "error", "denied", "dropped"}
    /\ p.status \in {"denied", "dropped"} => p.m.intercepted
    /\ \A s \in Data : m.phase < 4 /\ kept.brigade = s \o <<Eos>> /\ kept.resLen = Len(s) =>
                        p.m.resbody = s

LEMMA KeepLook ==
    ASSUME Inv, NEW m, NEW r, NEW kept, NEW part, NEW p, KeepLooks(m, r, kept, part, p)
    PROVE  KeepLooked(m, part, p) /\ KeepSeen(m, kept, p)
<1> DEFINE now == IF part THEN kept ELSE [kept EXCEPT !.ofStatus = "complete"]
           n == IF part \/ m.phase < 4 THEN Flatten(now) ELSE now
<1>0. /\ cfg \in Configs /\ CallBase(m, r) /\ kept \in Contexts /\ SamePhases(m, kept)
      /\ kept.exists /\ kept.ofStatus = "in_progress" /\ ~kept.skipping /\ ~kept.partial
      /\ part \in BOOLEAN /\ ran' = Behind(Behind(ran, r, 3), p.ran, 4)
  BY DEF Inv, TypeOK, KeepLooks
<1>1. /\ Moved(kept, now) /\ now.skipping = kept.skipping
      /\ ~part => now.ofStatus = "complete"
      /\ part => now.ofStatus = "in_progress"
  <2>1. CASE part
    BY <1>0, <2>1 DEF Moved, SamePhases
  <2>2. CASE ~part
    <3>1. now = [kept EXCEPT !.ofStatus = "complete"]
      BY <2>2
    <3>2. QED
      BY <1>0, <2>2, <3>1, UpdateStatus, Zenon
  <2>3. QED
    BY <1>0, <2>1, <2>2
<1>6. p \in PhaseAndIntercept(n, 4, cfg)
  BY DEF KeepLooks
<1> HIDE DEF now
<1>2. now \in Contexts
  BY <1>1 DEF Moved
<1>3. /\ Moved(now, Flatten(now)) /\ Flatten(now).ofStatus = now.ofStatus
      /\ Flatten(now).skipping = now.skipping
      /\ \A s \in Data : now.brigade = s \o <<Eos>> /\ now.resLen = Len(s) =>
                           Flatten(now).resbody = s
  BY <1>2, FlattenFacts
<1>4. /\ n \in Contexts /\ SamePhases(m, n) /\ n.exists /\ Sound(n) /\ ~n.skipping
      /\ ~n.partial /\ n.brigade = kept.brigade /\ n.ofStatus = now.ofStatus
  BY <1>0, <1>1, <1>3 DEF Moved, SamePhases, CallBase
<1>5. \A s \in Data : m.phase < 4 /\ kept.brigade = s \o <<Eos>> /\ kept.resLen = Len(s) =>
                        n.resbody = s
  BY <1>1, <1>3 DEF Moved
<1> HIDE DEF n
<1>7. PhaseShape(n, 4, cfg, p)
  <2>1. 4 \in 1..4
    OBVIOUS
  <2>2. QED
    BY <1>0, <1>4, <1>6, <2>1, PhaseFacts, Zenon
<1>8. /\ Ascending(ran', p.m.phase) /\ InOrder /\ Usable(p.m)
      /\ denied # 0 => p.m.intercepted
  BY <1>0, <1>4, <1>7, CallRanBoth
<1>9. /\ SameFilter(n, p.m) /\ p.m.prepend = n.prepend
      /\ p.status \in {"DECLINED", "error", "denied", "dropped"}
      /\ p.status \in {"denied", "dropped"} => p.m.intercepted
  BY <1>7 DEF PhaseShape
<1>10. /\ p.m.prepend = m.prepend /\ p.m.brigade = kept.brigade
       /\ p.m.ofStatus = now.ofStatus /\ ~p.m.skipping /\ ~p.m.partial
       /\ p.m.resbody = n.resbody
  BY <1>4, <1>9 DEF SameFilter, SamePhases
<1>11. QED
  BY <1>1, <1>5, <1>8, <1>9, <1>10 DEF KeepLooked, KeepSeen

\* What a call of the filter that keeps the brigade starts from.
Keeps(m, o, b) ==
    /\ pc = "respond" /\ inChain /\ UNCHANGED <<cfg, source, page, audited>>
    /\ CallBase(m, o.ran) /\ (\E head : GoShape(m, head)) /\ ~m.skipping /\ ~m.partial
    /\ b \in Brigade

\* Over the limit, and not looked at in part.
LEMMA KeepTooLarge ==
    ASSUME Inv, NEW m, NEW o, NEW b, Keeps(m, o, b), NEW n, Moved(m, n),
           n.skipping = m.skipping, n.ofStatus = "complete", NEW s,
           ErrorBucket(n, 0, s), ran' = Behind(ran, o.ran, 3)
    PROVE  Inv' /\ InOrder
<1>1. CallBase(m, o.ran)
  BY DEF Keeps
<1>2. CallBase(n, o.ran)
  BY <1>1, BaseMoves
<1>3. Ascending(ran', n.phase) /\ InOrder
  BY <1>2, CallRan
<1>4. /\ Usable(n) /\ ~n.skipping /\ ~n.partial
      /\ denied # 0 => n.intercepted
  <2>1. denied # 0 => msr.intercepted
    BY DEF Inv, ContextShape
  <2>2. QED
    BY <1>2, <2>1 DEF CallBase, Usable, Keeps, Moved
<1>5. 0 \in 0..4 /\ ~(0 > 0)
  OBVIOUS
<1>6. GivesUp(n, 0, s)
  BY <1>3, <1>4, <1>5 DEF GivesUp, Keeps
<1>7. QED
  BY <1>6, GivesUpStep DEF Keeps

\* More of the response is to come.
LEMMA KeepMore ==
    ASSUME Inv, NEW m, NEW o, NEW b, Keeps(m, o, b), NEW kept \in Contexts,
           SamePhases(m, kept), kept.exists, kept.ofStatus = "in_progress",
           ~kept.skipping, ~kept.partial,
           kept.brigade = m.brigade \o b.data, kept.resLen = m.resLen + Len(b.data),
           msr' = kept, left' = SubSeq(left, Len(b.data) + 1, Len(left)),
           ran' = Behind(ran, o.ran, 3), UNCHANGED <<sent, inChain, pc, denied>>
    PROVE  Inv' /\ InOrder
<1>1. /\ sent \in Data /\ left \in Data /\ page \in Data /\ denied \in 0..4
      /\ m \in Contexts /\ m.brigade \in Data
  BY DEF Inv, TypeOK, Keeps, CallBase, Contexts
<1>2. /\ b.data \in Data /\ left' \in Data /\ b.data \o left' = left
  BY <1>1, BrigadeFacts DEF Keeps
<1>3. Ascending(ran', kept.phase) /\ InOrder
  <2>1. Ascending(ran', m.phase) /\ InOrder
    BY CallRan DEF Keeps
  <2>2. QED
    BY <2>1 DEF SamePhases
<1>4. /\ Usable(kept)
      /\ denied # 0 => kept.intercepted
  <2>1. denied # 0 => msr.intercepted
    BY DEF Inv, ContextShape
  <2>2. QED
    BY <2>1 DEF CallBase, Usable, Keeps, SamePhases
<1>5. FilterStep(kept)
  BY <1>1, <1>2, <1>3, <1>4 DEF FilterStep, Keeps
<1>6. PICK head : GoShape(m, head)
  BY DEF Keeps
<1>7. HandlerShape'
  <2>1. source = "handler" =>
          /\ denied = 0 /\ sent = <<>> /\ m.phase <= 3
          /\ m.brigade \o left = page /\ m.resLen = Len(m.brigade)
    BY <1>6, Zenon DEF GoShape, Keeps
  <2>2. (m.brigade \o b.data) \o left' = m.brigade \o (b.data \o left')
    BY <1>1, <1>2, ConcatAssoc
  <2>3. kept.brigade \o left' = m.brigade \o left
    BY <1>2, <2>2, Zenon
  <2>4. Len(m.brigade \o b.data) = Len(m.brigade) + Len(b.data)
    BY <1>1, <1>2, DataFacts
  <2>5. source = "handler" => kept.resLen = Len(kept.brigade)
    BY <2>1, <2>4, Zenon
  <2>6. kept.phase = m.phase
    BY DEF SamePhases
  <2>7. inChain /\ page' = page /\ source' = source
    BY DEF Keeps
  <2>8. source = "handler" =>
          /\ denied' = 0 /\ sent' = <<>> /\ msr'.phase <= 3 /\ inChain'
          /\ ~msr'.skipping /\ ~msr'.partial
          /\ msr'.brigade \o left' = page' /\ msr'.resLen = Len(msr'.brigade)
    BY <2>1, <2>3, <2>5, <2>6, <2>7, Zenon
  <2>9. QED
    BY <2>7, <2>8, Zenon DEF HandlerShape, Observing
<1>8. Buffered' = Buffered
  BY DEF Buffered, Keeps
<1>9. Buffered => /\ NoPage(sent)
                  /\ source = "error" => NoPage(left) /\ NoPage(m.brigade)
  BY <1>6 DEF GoShape
<1>10. ErrorShape'
  <2>0. NoPage(b.data \o left') => NoPage(b.data) /\ NoPage(left')
    BY <1>2, NoPageConcat
  <2>1. Buffered /\ source = "error" => NoPage(b.data) /\ NoPage(left')
    BY <1>2, <1>9, <2>0, Zenon
  <2>2. Buffered /\ source = "error" => NoPage(kept.brigade)
    BY <1>1, <1>2, <1>9, <2>1, NoPageConcat
  <2>3. pc' = "respond" /\ source' = source /\ sent' = sent
    BY DEF Keeps
  <2>4. QED
    BY <1>8, <1>9, <2>1, <2>2, <2>3 DEF ErrorShape
<1>11. InspectedFirst'
  <2>1. PageSent' => ~NoPage(sent')
    BY DEF PageSent, NoPage
  <2>2. QED
    BY <1>8, <1>9, <2>1 DEF InspectedFirst
<1>12. WholeResponse'
  BY DEF WholeResponse, Keeps
<1>13. QED
  BY <1>5, <1>7, <1>10, <1>11, <1>12, FilterStepInv DEF Keeps

\* What was kept is sent, after phase 4.
KeepSends(m, b, part, p, k) ==
    /\ k = [p.m EXCEPT !.brigade = <<>>, !.partial = part,
                       !.streamChanged = IF part THEN @ ELSE FALSE,
                       !.ofStatus = IF b.eos THEN "complete" ELSE @]
    /\ msr' = k
    /\ sent' = (sent \o Injected(cfg, p.m.prepend, Pre))
                 \o (IF part THEN p.m.brigade
                     ELSE BeforeEos(InjectStream(p.m, cfg), Injected(cfg, p.m.append, App)))
    /\ left' = SubSeq(left, Len(b.data) + 1, Len(left))
    /\ inChain' = ~b.eos
    /\ pc' = IF b.eos THEN "log" ELSE pc
    /\ denied' = denied

LEMMA KeepSendsFacts ==
    ASSUME Inv, NEW m, NEW o, NEW b, Keeps(m, o, b), NEW part \in BOOLEAN,
           part \/ b.eos, NEW p,
           KeepLooked(m, part, p), NEW k, KeepSends(m, b, part, p, k), sent' \in Data
    PROVE  /\ FilterStep(k) /\ k.prepend = m.prepend /\ k.ofStatus # "not_started"
           /\ ~k.skipping /\ k.partial = part /\ k.resbody = p.m.resbody
           /\ k.brigade = <<>>
<1> DEFINE y == IF part THEN p.m.streamChanged ELSE FALSE
           s == IF b.eos THEN "complete" ELSE p.m.ofStatus
<1>1. /\ p.m \in Contexts /\ left \in Data /\ denied \in 0..4 /\ b \in Brigade /\ Sound(p.m)
      /\ p.m.exists /\ (p.m.streamChanged => cfg.stream)
      /\ p.m.scope # "none" => p.m.phase >= 1
  BY DEF Inv, TypeOK, KeepLooked, Usable, Keeps
<1>2. left' \in Data /\ b.eos \in BOOLEAN
  BY <1>1, BrigadeFacts DEF KeepSends
<1>3. y \in BOOLEAN /\ (y => cfg.stream)
  BY <1>1 DEF Contexts
<1>4. /\ s \in {"not_started", "in_progress", "complete"} /\ s # "not_started"
      /\ ~b.eos => s = p.m.ofStatus
  BY <1>1 DEF KeepLooked, Contexts
<1>5. k = [p.m EXCEPT !.brigade = <<>>, !.partial = part, !.streamChanged = y, !.ofStatus = s]
  BY DEF KeepSends
<1> HIDE DEF y, s
<1>6. /\ k \in Contexts /\ k.phase = p.m.phase /\ k.scope = p.m.scope
      /\ k.intercepted = p.m.intercepted /\ k.prepend = p.m.prepend
      /\ Sound(k)
      /\ k.exists = p.m.exists /\ k.skipping = p.m.skipping /\ k.resbody = p.m.resbody
      /\ k.partial = part /\ k.streamChanged = y /\ k.ofStatus = s /\ k.brigade = <<>>
  <2>1. /\ p.m \in Contexts /\ part \in BOOLEAN /\ y \in BOOLEAN
        /\ s \in {"not_started", "in_progress", "complete"}
    BY <1>1, <1>3, <1>4
  <2>2. WasSent(p.m, part, y, s, k)
    BY <1>5, <2>1, UpdateSent, Zenon
  <2>3. QED
    BY <1>1, <2>2, Zenon DEF WasSent
<1>7. Usable(k)
  BY <1>1, <1>3, <1>6 DEF Usable
<1>8. /\ inChain' \in BOOLEAN /\ pc' \in {"respond", "log"} /\ (pc' # "respond" => ~inChain')
      /\ msr' = k /\ denied' = denied /\ (inChain' => ~b.eos)
  BY <1>2 DEF KeepSends, Keeps
<1>9. part => p.m.ofStatus = "in_progress"
  BY DEF KeepLooked
<1>10. inChain' => k.ofStatus # "complete"
  BY <1>4, <1>6, <1>8, <1>9
<1>11. FilterStep(k)
  BY <1>1, <1>2, <1>4, <1>6, <1>7, <1>8, <1>10 DEF FilterStep, KeepLooked, Keeps
<1>12. QED
  BY <1>4, <1>6, <1>11 DEF KeepLooked

\* The response is looked at in part: what there is of it is sent.
LEMMA SentInPart ==
    ASSUME Inv, NEW m, NEW o, NEW b, Keeps(m, o, b), cfg.ofPartial, NEW p,
           KeepLooked(m, TRUE, p), NEW k, KeepSends(m, b, TRUE, p, k),
           p.m.brigade = (m.brigade \o b.data)
                           \o (IF b.eos THEN Injected(cfg, m.append, App) \o <<Eos>> ELSE <<>>)
    PROVE  Inv' /\ InOrder
<1> DEFINE pre == Injected(cfg, m.prepend, Pre)
           app == Injected(cfg, m.prepend, App)
           x == m.brigade \o b.data
<1>1. /\ sent \in Data /\ left \in Data /\ page \in Data /\ m.brigade \in Data
      /\ <<Eos>> \in Data /\ <<>> \in Data /\ m.append = m.prepend /\ b \in Brigade
  BY SpecialFacts, DataFacts DEF Inv, TypeOK, Keeps, CallBase, Contexts, Sound
<1>2. /\ b.data \in Data /\ left' \in Data /\ b.data \o left' = left /\ b.eos \in BOOLEAN
      /\ b.eos => b.data = left
  BY <1>1, BrigadeFacts DEF KeepSends
<1>3. pre \in Data /\ app \in Data
  BY <1>1, WholeFacts
<1>4. p.m.brigade = x \o (IF b.eos THEN app \o <<Eos>> ELSE <<>>)
  BY <1>1, Zenon
<1>5. sent' = (sent \o pre) \o p.m.brigade
  <2>1. sent' = (sent \o Injected(cfg, p.m.prepend, Pre)) \o p.m.brigade
    BY DEF KeepSends
  <2>2. p.m.prepend = m.prepend
    BY DEF KeepLooked
  <2>3. QED
    BY <2>1, <2>2
<1> HIDE DEF pre, app
<1>6. x \in Data
  BY <1>1, <1>2, DataFacts
<1>7. p.m.brigade \in Data /\ sent' \in Data
  <2>1. app \o <<Eos>> \in Data /\ sent \o pre \in Data
    BY <1>1, <1>3, DataFacts
  <2>2. (IF b.eos THEN app \o <<Eos>> ELSE <<>>) \in Data
    BY <1>1, <2>1
  <2>3. p.m.brigade \in Data
    BY <1>4, <1>6, <2>2, DataFacts
  <2>4. QED
    BY <1>5, <2>1, <2>3, DataFacts
<1>8. /\ FilterStep(k) /\ k.prepend = m.prepend /\ k.ofStatus # "not_started"
      /\ ~k.skipping /\ k.partial = TRUE
  BY <1>7, KeepSendsFacts
<1>9. ~Buffered'
  BY DEF Buffered, Keeps
<1>10. ErrorShape' /\ InspectedFirst'
  BY <1>9 DEF ErrorShape, InspectedFirst
<1>11. PICK head : GoShape(m, head)
  BY DEF Keeps
<1>12. source = "handler" => denied = 0 /\ sent = <<>> /\ m.brigade \o left = page
  BY <1>11, Zenon DEF GoShape, Keeps
<1>13. <<>> \o pre = pre
  BY <1>3, DataFacts
<1>14. /\ inChain' = ~b.eos /\ pc' = (IF b.eos THEN "log" ELSE "respond")
       /\ denied' = denied /\ msr' = k /\ source' = source /\ page' = page /\ cfg' = cfg
  BY DEF KeepSends, Keeps
<1>15. HandlerShape'
  <2> SUFFICES ASSUME ~b.eos, source = "handler"
               PROVE  denied' = 0 /\ sent' \o left' = pre \o page
    <3>1. CASE b.eos \/ source # "handler"
      BY <1>14, <3>1 DEF HandlerShape
    <3>2. CASE ~b.eos /\ source = "handler"
      <4>1. denied' = 0 /\ sent' \o left' = Injected(cfg, m.prepend, Pre) \o page
        BY <3>2 DEF pre
      <4>2. inChain' /\ msr'.partial /\ msr'.prepend = m.prepend
        BY <1>2, <1>8, <1>14, <3>2
      <4>3. sent' \o left' = Injected(cfg', msr'.prepend, Pre) \o page'
        BY <1>14, <4>1, <4>2
      <4>4. QED
        BY <4>1, <4>2, <4>3, Zenon DEF HandlerShape, Observing
    <3>3. QED
      BY <1>2, <3>1, <3>2
  <2>1. sent' = pre \o x
    BY <1>4, <1>5, <1>6, <1>12, <1>13, DataFacts
  <2>2. (pre \o x) \o left' = pre \o (x \o left')
    <3>1. pre \in Data /\ x \in Data /\ left' \in Data
      BY <1>2, <1>3, <1>6
    <3> HIDE DEF x
    <3>2. QED
      BY <3>1, ConcatAssoc, ZenonT(60)
  <2>3. (m.brigade \o b.data) \o left' = m.brigade \o (b.data \o left')
    <3>1. m.brigade \in Data /\ b.data \in Data /\ left' \in Data
      BY <1>1, <1>2
    <3>2. QED
      BY <3>1, ConcatAssoc, ZenonT(60)
  <2>4. QED
    BY <1>2, <1>12, <1>14, <2>1, <2>2, <2>3
<1>16. WholeResponse'
  <2> DEFINE f == k.prepend /\ cfg.injection /\ k.ofStatus # "not_started"
  <2>1. (m.prepend /\ cfg.injection => f) /\ (f => m.prepend /\ cfg.injection)
    BY <1>8
  <2>2. f = (msr'.prepend /\ cfg'.injection /\ msr'.ofStatus # "not_started")
    BY <1>14, Zenon
  <2> HIDE DEF f
  <2>3. ((pre \o page) \o app) \o <<Eos>> = Whole(f, page)
    BY <1>1, <2>1, WholeFacts DEF pre, app
  <2>4. ASSUME b.eos, source = "handler" PROVE sent' = Whole(f, page)
    <3>1. x = page
      BY <1>2, <1>12, <2>4
    <3>2. sent' = pre \o (page \o (app \o <<Eos>>))
      BY <1>4, <1>5, <1>12, <1>13, <2>4, <3>1
    <3>3. /\ app \o <<Eos>> \in Data /\ pre \o page \in Data /\ pre \in Data
          /\ page \in Data /\ app \in Data /\ <<Eos>> \in Data
      BY <1>1, <1>3, DataFacts
    <3>4. (pre \o page) \o (app \o <<Eos>>) = pre \o (page \o (app \o <<Eos>>))
      BY <3>3, ConcatAssoc, ZenonT(60)
    <3>5. ((pre \o page) \o app) \o <<Eos>> = (pre \o page) \o (app \o <<Eos>>)
      <4>1. pre \o page \in Data /\ app \in Data /\ <<Eos>> \in Data
        BY <3>3
      <4>2. QED
        BY <4>1, ConcatAssoc, ZenonT(60)
    <3>6. QED
      BY <2>3, <3>2, <3>4, <3>5, Zenon
  <2>5. pc' \in {"log", "done"} => b.eos
    BY <1>2, <1>14
  <2>6. QED
    BY <1>14, <2>2, <2>4, <2>5, Zenon DEF WholeResponse
<1>17. QED
  BY <1>8, <1>10, <1>15, <1>16, FilterStepInv DEF Keeps

\* The whole response was kept: it is sent, or what a rule has made of it.
LEMMA SentWhole ==
    ASSUME Inv, NEW m, NEW o, NEW b, Keeps(m, o, b), b.eos, NEW p,
           KeepLooked(m, FALSE, p), NEW k, KeepSends(m, b, FALSE, p, k),
           p.m.brigade = (m.brigade \o b.data) \o <<Eos>>,
           source = "handler" => p.m.resbody = page
    PROVE  Inv' /\ InOrder
<1> DEFINE pre == Injected(cfg, m.prepend, Pre)
           app == Injected(cfg, m.prepend, App)
           x == m.brigade \o b.data
           body == IF p.m.streamChanged /\ cfg.injection THEN <<Stream>> ELSE x
<1>1. /\ sent \in Data /\ left \in Data /\ page \in Data /\ m.brigade \in Data
      /\ <<Eos>> \in Data /\ <<>> \in Data /\ b \in Brigade /\ <<Stream>> \in Data
      /\ Eos \in Bucket
  BY SpecialFacts, DataFacts DEF Inv, TypeOK, Keeps, CallBase, Contexts
<1>2. /\ b.data \in Data /\ left' = <<>> /\ b.eos \in BOOLEAN /\ b.data = left
  BY <1>1, BrigadeFacts DEF KeepSends
<1>3. pre \in Data /\ app \in Data
  BY <1>1, WholeFacts
<1>4. p.m.prepend = m.prepend /\ p.m.append = m.prepend /\ (p.m.streamChanged => cfg.stream)
  BY DEF KeepLooked, Usable, Sound
<1>5. x \in Data /\ body \in Data
  BY <1>1, <1>2, DataFacts
<1>6. InjectStream(p.m, cfg) = body \o <<Eos>>
  <2>1. <<Stream>> \o <<Eos>> = <<Stream, Eos>>
    <3> DEFINE u == <<Stream>> \o <<Eos>>
               v == <<Stream, Eos>>
    <3>1. /\ u \in Seq(Bucket) /\ Len(u) = 2 /\ u[1] = Stream /\ u[2] = Eos
          /\ v \in Seq(Bucket) /\ Len(v) = 2 /\ v[1] = Stream /\ v[2] = Eos
      BY SpecialFacts
    <3> HIDE DEF u, v
    <3>2. u = v
      BY <3>1
    <3>3. QED
      BY <3>2 DEF u, v
  <2>2. QED
    BY <2>1 DEF InjectStream
<1>7. sent' = (sent \o pre) \o ((body \o app) \o <<Eos>>)
  <2>1. sent' = (sent \o Injected(cfg, p.m.prepend, Pre))
                  \o BeforeEos(InjectStream(p.m, cfg), Injected(cfg, p.m.append, App))
    BY DEF KeepSends
  <2>2. sent' = (sent \o pre) \o BeforeEos(body \o <<Eos>>, app)
    BY <1>4, <1>6, <2>1
  <2> HIDE DEF body
  <2>3. Front(body \o <<Eos>>) = body
    BY <1>1, <1>5, FrontFacts, Zenon
  <2> HIDE DEF pre, app
  <2>4. BeforeEos(body \o <<Eos>>, app) = (body \o app) \o <<Eos>>
    BY <2>3, Zenon DEF BeforeEos
  <2>5. QED
    BY <2>2, <2>4, Zenon
<1> HIDE DEF pre, app, body, x
<1>8. /\ sent \o pre \in Data /\ body \o app \in Data /\ (body \o app) \o <<Eos>> \in Data
      /\ sent' \in Data
  <2>1. sent \o pre \in Data /\ body \o app \in Data
    BY <1>1, <1>3, <1>5, DataFacts
  <2>2. (body \o app) \o <<Eos>> \in Data
    BY <1>1, <2>1, DataFacts
  <2>3. QED
    BY <1>7, <2>1, <2>2, DataFacts
<1>9. /\ FilterStep(k) /\ k.prepend = m.prepend /\ k.ofStatus # "not_started"
      /\ ~k.skipping /\ k.partial = FALSE /\ k.resbody = p.m.resbody
  <2> DEFINE part == FALSE
  <2>1. /\ part \in BOOLEAN /\ (part \/ b.eos) /\ KeepLooked(m, part, p)
        /\ KeepSends(m, b, part, p, k) /\ sent' \in Data
    BY <1>8
  <2> HIDE DEF part
  <2>2. /\ FilterStep(k) /\ k.prepend = m.prepend /\ k.ofStatus # "not_started"
        /\ ~k.skipping /\ k.partial = part /\ k.resbody = p.m.resbody
    BY <2>1, KeepSendsFacts
  <2>3. QED
    BY <2>2 DEF part
<1>10. PICK head : GoShape(m, head)
  BY DEF Keeps
<1>11. source = "handler" => denied = 0 /\ sent = <<>> /\ x = page
  BY <1>2, <1>10, Zenon DEF GoShape, Keeps, x
<1>12. /\ inChain' = FALSE /\ pc' = "log" /\ denied' = denied /\ msr' = k
       /\ source' = source /\ page' = page /\ cfg' = cfg
  BY DEF KeepSends, Keeps
<1>13. HandlerShape'
  BY <1>12 DEF HandlerShape
<1>14. Buffered' = Buffered
  BY DEF Buffered, Keeps
<1>15. Buffered /\ source = "error" => NoPage(sent')
  <2> SUFFICES ASSUME Buffered, source = "error" PROVE NoPage(sent')
    OBVIOUS
  <2>1. NoPage(sent) /\ NoPage(left) /\ NoPage(m.brigade)
    BY <1>10 DEF GoShape
  <2>2. NoPage(x)
    BY <1>1, <1>2, <2>1, NoPageConcat DEF x
  <2>3. NoPage(<<Stream>>) /\ NoPage(<<Eos>>) /\ NoPage(<<>>) /\ NoPage(<<Pre>>) /\ NoPage(<<App>>)
    BY SpecialFacts
  <2>4. NoPage(body) /\ NoPage(pre) /\ NoPage(app)
    BY <2>2, <2>3 DEF body, pre, app, Injected
  <2>5. NoPage(sent \o pre)
    BY <1>1, <1>3, <2>1, <2>4, NoPageConcat
  <2>6. NoPage(body \o app)
    BY <1>3, <1>5, <2>4, NoPageConcat
  <2>7. NoPage((body \o app) \o <<Eos>>)
    BY <1>1, <1>8, <2>3, <2>6, NoPageConcat
  <2>8. QED
    BY <1>7, <1>8, <2>5, <2>7, NoPageConcat
<1>16. source \in {"handler", "error"}
  BY DEF Inv, TypeOK
<1>17. ErrorShape'
  BY <1>2, <1>9, <1>12, <1>14, <1>15, SpecialFacts DEF ErrorShape
<1>18. InspectedFirst'
  <2>1. PageSent' => ~NoPage(sent')
    BY DEF PageSent, NoPage
  <2>2. CASE source = "error"
    BY <1>12, <1>14, <1>15, <2>1, <2>2 DEF InspectedFirst
  <2>3. CASE source = "handler"
    BY <1>9, <1>11, <1>12, <2>3 DEF InspectedFirst
  <2>4. QED
    BY <1>16, <2>2, <2>3
<1>19. WholeResponse'
  <2> DEFINE f == k.prepend /\ cfg.injection /\ k.ofStatus # "not_started"
  <2>1. (m.prepend /\ cfg.injection => f) /\ (f => m.prepend /\ cfg.injection)
    BY <1>9
  <2>2. f = (msr'.prepend /\ cfg'.injection /\ msr'.ofStatus # "not_started")
    BY <1>12, Zenon
  <2> HIDE DEF f
  <2>3. ((pre \o body) \o app) \o <<Eos>> = Whole(f, body)
    BY <1>5, <2>1, WholeFacts DEF pre, app
  <2>4. ASSUME source = "handler" PROVE sent' = Whole(f, body)
    <3>1. <<>> \o pre = pre
      BY <1>3, DataFacts
    <3>2. sent' = pre \o ((body \o app) \o <<Eos>>)
      BY <1>7, <1>11, <2>4, <3>1, Zenon
    <3>3. /\ pre \o body \in Data /\ pre \in Data /\ body \o app \in Data
          /\ body \in Data /\ app \in Data /\ <<Eos>> \in Data
      BY <1>1, <1>3, <1>5, <1>8, DataFacts
    <3>4. (pre \o body) \o app = pre \o (body \o app)
      <4>1. pre \in Data /\ body \in Data /\ app \in Data
        BY <3>3
      <4>2. QED
        BY <4>1, ConcatAssoc, ZenonT(60)
    <3>5. (pre \o (body \o app)) \o <<Eos>> = pre \o ((body \o app) \o <<Eos>>)
      <4>1. pre \in Data /\ body \o app \in Data /\ <<Eos>> \in Data
        BY <3>3
      <4>2. QED
        BY <4>1, ConcatAssoc, ZenonT(60)
    <3>6. QED
      BY <2>3, <3>2, <3>4, <3>5, Zenon
  <2>5. (body = <<Stream>> /\ cfg.stream /\ cfg.injection) \/ body = x
    BY <1>4 DEF body
  <2>6. source = "handler" => \/ sent' = Whole(f, page)
                              \/ cfg.stream /\ cfg.injection /\ sent' = Whole(f, <<Stream>>)
    BY <1>11, <2>4, <2>5, Zenon
  <2>7. QED
    BY <1>12, <2>2, <2>6, Zenon DEF WholeResponse
<1>20. QED
  BY <1>9, <1>13, <1>17, <1>18, <1>19, FilterStepInv DEF Keeps

LEMMA KeepStep ==
    ASSUME Inv, NEW m, NEW o, NEW b, Keeps(m, o, b), Keep(m, o, b, cfg)
    PROVE  Inv' /\ InOrder
<1> DEFINE see  == Observe(m, b, cfg.ofLimit)
           part == see.over /\ cfg.ofPartial
           end  == IF b.eos THEN (IF part THEN Injected(cfg, m.append, App) ELSE <<>>) \o <<Eos>>
                   ELSE <<>>
           x    == m.brigade \o b.data
           kept == [m EXCEPT !.brigade = @ \o b.data \o end, !.resLen = see.len,
                             !.outbound = @ \/ see.over, !.doneReading = b.eos]
           now  == IF part THEN kept ELSE [kept EXCEPT !.ofStatus = "complete"]
           look == IF part \/ m.phase < 4 THEN Flatten(now) ELSE now
           large == [m EXCEPT !.outbound = TRUE, !.ofStatus = "complete"]
<1>1. /\ cfg \in Configs /\ m \in Contexts /\ left \in Data /\ b \in Brigade
      /\ m.brigade \in Data /\ m.outbound \in BOOLEAN /\ m.resLen \in Nat
      /\ <<Eos>> \in Data /\ <<>> \in Data /\ ~m.skipping /\ ~m.partial
      /\ m.exists /\ CallBase(m, o.ran)
  BY SpecialFacts, DataFacts DEF Inv, TypeOK, Keeps, CallBase, Contexts
<1>2. /\ b.data \in Data /\ b.eos \in BOOLEAN
      /\ b.eos => b.data = left
  BY <1>1, BrigadeFacts
<1>3. /\ see.over \in BOOLEAN /\ see.len \in Nat
      /\ ~see.over => see.len = m.resLen + Len(b.data)
      /\ cfg.ofPartial \in BOOLEAN
  BY <1>1, ObserveFacts, ConfigsAssumption
<1>4. PICK head : GoShape(m, head)
  BY DEF Keeps
<1>5. m.ofStatus = "in_progress"
  BY <1>4 DEF GoShape
<1>6. CASE see.over /\ ~cfg.ofPartial
  <2>1. ErrorBucket(Message(large), 0, "large") /\ ran' = Behind(ran, o.ran, 3)
    BY <1>6 DEF Keep, Behind
  <2>2. Moved(m, large) /\ large.ofStatus = "complete" /\ large.skipping = m.skipping
    BY <1>1, UpdateTooLarge
  <2> HIDE DEF large
  <2>3. /\ Moved(large, Message(large)) /\ Message(large).skipping = large.skipping
        /\ Message(large).ofStatus = large.ofStatus
    BY <2>2, MessageMoved DEF Moved
  <2>4. /\ Moved(m, Message(large)) /\ Message(large).skipping = m.skipping
        /\ Message(large).ofStatus = "complete"
    BY <2>2, <2>3 DEF Moved, SamePhases
  <2>5. QED
    BY <2>1, <2>4, KeepTooLarge
<1>7. CASE ~(see.over /\ ~cfg.ofPartial)
  <2>1. part \in BOOLEAN /\ (part => cfg.ofPartial) /\ (~part => ~see.over)
    BY <1>3, <1>7
  <2>2. x \in Data /\ end \in Data /\ x \o end \in Data
    <3>1. Injected(cfg, m.append, App) \in Data
      BY <1>1, SpecialFacts DEF Injected
    <3>2. x \in Data /\ end \in Data
      BY <1>1, <1>2, <3>1, DataFacts
    <3>3. QED
      BY <3>2, DataFacts
  <2>3. /\ part => end = IF b.eos THEN Injected(cfg, m.append, App) \o <<Eos>> ELSE <<>>
        /\ ~part => end = IF b.eos THEN <<Eos>> ELSE <<>>
    BY <1>1, DataFacts
  <2>4. kept = [m EXCEPT !.brigade = x \o end, !.resLen = see.len,
                         !.outbound = m.outbound \/ see.over, !.doneReading = b.eos]
    OBVIOUS
  <2>5. (m.outbound \/ see.over) \in BOOLEAN
    BY <1>1, <1>3
  <2> HIDE DEF x, end, part, kept
  <2>6. /\ kept \in Contexts /\ SamePhases(m, kept) /\ kept.exists = m.exists
        /\ kept.ofStatus = m.ofStatus /\ kept.skipping = m.skipping
        /\ kept.partial = m.partial /\ kept.brigade = x \o end /\ kept.resLen = see.len
    <3> DEFINE s == x \o end
               len == see.len
               over == m.outbound \/ see.over
               eos == b.eos
    <3>1. /\ m \in Contexts /\ s \in Data /\ len \in Nat /\ over \in BOOLEAN /\ eos \in BOOLEAN
          /\ kept = [m EXCEPT !.brigade = s, !.resLen = len, !.outbound = over,
                              !.doneReading = eos]
      BY <1>1, <1>2, <1>3, <2>2, <2>4, <2>5, Zenon
    <3> HIDE DEF s, len, over, eos
    <3>2. WasKept(m, s, len, kept)
      BY ONLY <3>1, UpdateKept, Zenon
    <3>3. QED
      BY <3>2 DEF s, len, WasKept
  <2>7. CASE ~part /\ ~b.eos
    <3>1. /\ msr' = kept
          /\ left' = SubSeq(left, Len(b.data) + 1, Len(left))
          /\ ran' = Behind(ran, o.ran, 3)
          /\ UNCHANGED <<sent, inChain, pc, denied>>
      BY <1>7, <2>7 DEF Keep, Behind, part, kept, end
    <3>2. kept.brigade = m.brigade \o b.data
      BY <2>2, <2>3, <2>6, <2>7, DataFacts DEF x
    <3>3. kept.resLen = m.resLen + Len(b.data)
      BY <1>3, <2>1, <2>6, <2>7
    <3>4. /\ kept \in Contexts /\ SamePhases(m, kept) /\ kept.exists
          /\ kept.ofStatus = "in_progress" /\ ~kept.skipping /\ ~kept.partial
      BY <1>1, <1>5, <2>6
    <3>5. QED
      BY <3>1, <3>2, <3>3, <3>4, KeepMore
  <2>8. CASE part \/ b.eos
    <3>1. PICK p \in PhaseAndIntercept(look, 4, cfg) :
             /\ ran' = Behind(Behind(ran, o.ran, 3), p.ran, 4)
             /\ IF p.status # "DECLINED"
                THEN ErrorBucket(p.m, IF p.status = "error" THEN 0 ELSE 4, p.status)
                ELSE KeepSends(m, b, part, p,
                       [p.m EXCEPT !.brigade = <<>>, !.partial = part,
                                   !.streamChanged = IF part THEN @ ELSE FALSE,
                                   !.ofStatus = IF b.eos THEN "complete" ELSE @])
      BY <1>7, <2>8 DEF Keep, Behind, KeepSends, part, kept, end
    <3>2. /\ kept \in Contexts /\ SamePhases(m, kept) /\ kept.exists
          /\ kept.ofStatus = "in_progress" /\ ~kept.skipping /\ ~kept.partial
      BY <1>1, <1>5, <2>6
    <3>3. KeepLooks(m, o.ran, kept, part, p)
      BY <1>1, <2>1, <3>1, <3>2 DEF KeepLooks
    <3>4. /\ KeepLooked(m, part, p)
          /\ p.m.brigade = kept.brigade
          /\ p.status \in {"DECLINED", "error", "denied", "dropped"}
          /\ p.status \in {"denied", "dropped"} => p.m.intercepted
          /\ \A s \in Data : m.phase < 4 /\ kept.brigade = s \o <<Eos>> /\ kept.resLen = Len(s) =>
                              p.m.resbody = s
      <4>1. KeepLooked(m, part, p) /\ KeepSeen(m, kept, p)
        BY <3>3, KeepLook, Zenon
      <4>2. QED
        BY <4>1 DEF KeepSeen
    <3>5. CASE p.status # "DECLINED"
      <4> DEFINE phase == IF p.status = "error" THEN 0 ELSE 4
      <4>1. ErrorBucket(p.m, phase, p.status)
        BY <3>1, <3>5
      <4>2. phase \in 0..4 /\ (phase > 0 => p.m.intercepted)
        BY <3>4, <3>5
      <4> HIDE DEF phase
      <4>3. Buffered => p.m.ofStatus = "complete"
        BY <2>1, <3>4 DEF Buffered, KeepLooked
      <4>4. GivesUp(p.m, phase, p.status)
        BY <2>1, <3>4, <4>1, <4>2, <4>3 DEF GivesUp, KeepLooked, Keeps
      <4>5. QED
        BY <4>4, GivesUpStep DEF Keeps
    <3>6. CASE p.status = "DECLINED"
      <4> DEFINE k == [p.m EXCEPT !.brigade = <<>>, !.partial = part,
                                   !.streamChanged = IF part THEN @ ELSE FALSE,
                                   !.ofStatus = IF b.eos THEN "complete" ELSE @]
      <4>1. KeepSends(m, b, part, p, k)
        BY <3>1, <3>6
      <4> HIDE DEF k
      <4>2. CASE part
        <5>1. part = TRUE
          BY <2>1, <4>2
        <5>2. KeepSends(m, b, TRUE, p, k) /\ KeepLooked(m, TRUE, p) /\ cfg.ofPartial
          BY <2>1, <3>4, <4>1, <4>2, <5>1
        <5>3. p.m.brigade = (m.brigade \o b.data)
                  \o (IF b.eos THEN Injected(cfg, m.append, App) \o <<Eos>> ELSE <<>>)
          BY <2>3, <2>6, <3>4, <4>2 DEF x
        <5>4. QED
          BY <5>2, <5>3, SentInPart
      <4>3. CASE ~part
        <5>1. part = FALSE /\ b.eos
          BY <2>1, <2>8, <4>3
        <5>2. KeepSends(m, b, FALSE, p, k) /\ KeepLooked(m, FALSE, p)
          BY <3>4, <4>1, <5>1
        <5>3. kept.brigade = x \o <<Eos>>
          BY <2>3, <2>6, <4>3, <5>1
        <5>4. kept.resLen = m.resLen + Len(b.data) /\ Len(x) = Len(m.brigade) + Len(b.data)
          BY <1>1, <1>2, <1>3, <2>1, <2>6, <4>3, DataFacts DEF x
        <5>5. ASSUME source = "handler" PROVE p.m.resbody = page
          <6>1. m.phase <= 3 /\ m.brigade \o left = page /\ m.resLen = Len(m.brigade)
            BY <1>1, <1>4, <5>5 DEF GoShape
          <6>2. x = page
            BY <1>2, <5>1, <6>1 DEF x
          <6>3. m.phase < 4
            BY <1>1, <6>1 DEF Contexts
          <6>4. kept.resLen = Len(x)
            BY <5>4, <6>1
          <6>5. QED
            BY <2>2, <3>4, <5>3, <6>2, <6>3, <6>4
        <5>6. p.m.brigade = (m.brigade \o b.data) \o <<Eos>>
          BY <3>4, <5>3 DEF x
        <5>7. QED
          BY <5>1, <5>2, <5>5, <5>6, SentWhole
      <4>4. QED
        BY <4>2, <4>3
    <3>7. QED
      BY <3>5, <3>6
  <2>9. QED
    BY <2>1, <1>2, <2>7, <2>8
<1>8. QED
  BY <1>6, <1>7

LEMMA OutputFilterStep ==
    ASSUME Inv, OutputFilter
    PROVE  Inv' /\ InOrder
<1>1. pc = "respond" /\ inChain /\ UNCHANGED <<cfg, source, page, audited>>
  BY DEF OutputFilter
<1>2. PICK b \in Brigade,
           o \in IF msr.ofStatus = "not_started" THEN FirstCall(msr, cfg)
                 ELSE {[m |-> msr, ran |-> FALSE, status |-> "go", head |-> <<>>]} :
         IF o.status # "go"
         THEN /\ ErrorBucket(o.m, IF o.status \in {"error", "large"} THEN 0 ELSE 3, o.status)
              /\ ran' = Behind(ran, o.ran, 3)
         ELSE IF o.m.skipping \/ o.m.partial
         THEN PassOn(o.m, o, b, o.head, cfg)
         ELSE \/ Keep(o.m, o, b, cfg)
              \/ /\ ErrorBucket(Message([o.m EXCEPT !.ofStatus = "complete"]), 0, "error")
                 /\ ran' = Behind(ran, o.ran, 3)
  BY DEF OutputFilter, Behind
<1>3. CallShape(o)
  <2>1. CASE msr.ofStatus = "not_started"
    BY <1>1, <1>2, <2>1, FirstCallFacts
  <2>2. CASE msr.ofStatus # "not_started"
    BY <1>1, <1>2, <2>2, LaterCallFacts
  <2>3. QED
    BY <2>1, <2>2
<1>4. CallBase(o.m, o.ran)
  BY <1>3, Zenon DEF CallShape
<1>5. CASE o.status # "go"
  <2> DEFINE phase == IF o.status \in {"error", "large"} THEN 0 ELSE 3
  <2>1. CallRefused(o.m, o.status)
    BY <1>3, <1>5, Zenon DEF CallShape
  <2>2. ErrorBucket(o.m, phase, o.status) /\ ran' = Behind(ran, o.ran, 3)
    BY <1>2, <1>5, Zenon
  <2>3. phase \in 0..4 /\ (phase > 0 => o.m.intercepted)
    BY <2>1 DEF CallRefused
  <2> HIDE DEF phase
  <2>4. Ascending(ran', o.m.phase) /\ InOrder
    BY <1>4, <2>2, CallRan
  <2>5. Usable(o.m) /\ (denied # 0 => o.m.intercepted)
    BY <1>4 DEF Usable, CallBase, Inv, ContextShape
  <2>6. o.m.brigade = <<>> /\ ~o.m.skipping /\ ~o.m.partial /\ o.m.resLen = 0
    BY <2>1 DEF CallRefused
  <2>7. GivesUp(o.m, phase, o.status)
    BY <1>1, <2>2, <2>3, <2>4, <2>5, <2>6 DEF GivesUp
  <2>8. QED
    BY <1>1, <2>7, GivesUpStep
<1>6. CASE o.status = "go"
  <2>1. GoShape(o.m, o.head)
    BY <1>1, <1>3, <1>4, <1>6, GoFacts DEF CallShape
  <2>2. CASE o.m.skipping \/ o.m.partial
    <3>1. PassOn(o.m, o, b, o.head, cfg)
      BY <1>2, <1>6, <2>2, Zenon
    <3>2. QED
      BY <1>1, <1>4, <2>1, <2>2, <3>1, PassOnStep
  <2>3. CASE ~(o.m.skipping \/ o.m.partial)
    <3>1. Keeps(o.m, o, b)
      BY <1>1, <1>4, <2>1, <2>3, Zenon DEF Keeps
    <3>2. CASE Keep(o.m, o, b, cfg)
      BY <3>1, <3>2, KeepStep
    <3>3. CASE /\ ErrorBucket(Message([o.m EXCEPT !.ofStatus = "complete"]), 0, "error")
               /\ ran' = Behind(ran, o.ran, 3)
      <4> DEFINE n == [o.m EXCEPT !.ofStatus = "complete"]
      <4>1. o.m \in Contexts
        BY <1>4 DEF CallBase
      <4>2. Moved(o.m, n) /\ n.ofStatus = "complete" /\ n.skipping = o.m.skipping
        BY <4>1, UpdateStatus
      <4>3. ErrorBucket(Message(n), 0, "error")
        BY <3>3
      <4> HIDE DEF n
      <4>4. /\ Moved(n, Message(n)) /\ Message(n).skipping = n.skipping
            /\ Message(n).ofStatus = n.ofStatus
        BY <4>2, MessageMoved DEF Moved
      <4>5. /\ Moved(o.m, Message(n)) /\ Message(n).skipping = o.m.skipping
            /\ Message(n).ofStatus = "complete"
        BY <4>2, <4>4 DEF Moved, SamePhases
      <4>6. QED
        BY <3>1, <3>3, <4>3, <4>5, KeepTooLarge
    <3>4. QED
      BY <1>2, <1>6, <2>3, <3>2, <3>3, Zenon
  <2>4. QED
    BY <2>2, <2>3
<1>7. QED
  BY <1>5, <1>6

-----------------------------------------------------------------------------
(* The theorems.                                                           *)

LEMMA NextInv == Inv /\ [Next]_vars => Inv' /\ [InOrder]_vars
<1> SUFFICES ASSUME Inv, [Next]_vars PROVE Inv' /\ [InOrder]_vars
  OBVIOUS
<1>1. CASE HookConnectionEarly
  BY <1>1, ConnectionEarlyStep
<1>2. CASE NoContextEarly
  BY <1>2, NoContextStep
<1>3. CASE HookErrorLog
  BY <1>3, ErrorLogStep
<1>4. CASE HookWithoutContext
  BY <1>4, WithoutContextStep
<1>5. CASE HookRequestEarly
  BY <1>5, RequestEarlyStep
<1>6. CASE HookRequestLate
  BY <1>6, RequestLateStep
<1>7. CASE HookInsertFilter
  BY <1>7, InsertFilterStep
<1>8. CASE HookInsertErrorFilter
  BY <1>8, InsertErrorFilterStep
<1>9. CASE RespondUnfiltered
  BY <1>9, UnfilteredStep
<1>10. CASE OutputFilter
  BY <1>10, OutputFilterStep
<1>11. CASE HookLogTransaction
  BY <1>11, LogStep
<1>12. CASE UNCHANGED vars
  <2>1. /\ cfg' = cfg /\ msr' = msr /\ pc' = pc /\ source' = source /\ left' = left
        /\ inChain' = inChain /\ sent' = sent /\ page' = page /\ ran' = ran
        /\ denied' = denied /\ audited' = audited
    BY <1>12 DEF vars
  <2>2. /\ TypeOK' /\ (page = Units(Len(page)))' /\ (Len(page) <= MaxPage)'
        /\ ContextShape' /\ OrderShape' /\ LogShape' /\ AuditedWhenRelevant'
    BY <2>1 DEF Inv, TypeOK, ContextShape, OrderShape, LogShape, AuditedWhenRelevant
  <2>3. FilterShape' /\ HandlerShape' /\ ErrorShape'
    BY <2>1 DEF Inv, FilterShape, HandlerShape, Observing, ErrorShape, Buffered
  <2>4. InspectedFirst' /\ WholeResponse'
    BY <2>1 DEF Inv, InspectedFirst, Buffered, PageSent, WholeResponse
  <2>5. QED
    BY <1>12, <2>2, <2>3, <2>4 DEF Inv
<1>13. QED
  BY <1>1, <1>2, <1>3, <1>4, <1>5, <1>6, <1>7, <1>8, <1>9, <1>10, <1>11, <1>12
     DEF Next, Done

\* Every field of the transaction keeps its type, whatever the rules do.
THEOREM TypeCorrect == Spec => []TypeOK
<1>1. Inv => TypeOK
  BY DEF Inv
<1>2. QED
  BY InitInv, NextInv, <1>1, PTL DEF Spec

\* modsecurity_process_phase: the rules of a phase run once and in the order of
\* the phases, only phase 5 after an interception or "allow", for any
\* configuration and any response.
THEOREM PhasesInOrderCorrect == Spec => PhasesInOrder
  BY InitInv, NextInv, PTL DEF Spec, PhasesInOrder

\* output_filter: nothing of a buffered response is sent before phase 4 has
\* seen all of it, and nothing of it once a rule has denied the transaction.
THEOREM InspectedFirstCorrect == Spec => []InspectedFirst
<1>1. Inv => InspectedFirst
  BY DEF Inv
<1>2. QED
  BY InitInv, NextInv, <1>1, PTL DEF Spec

\* output_filter and send_of_brigade: a response that comes to its end is the
\* page of the handler, or the stream a rule has put in its place, with the
\* injected content at both ends, however it was cut into brigades.
THEOREM WholeResponseCorrect == Spec => []WholeResponse
<1>1. Inv => WholeResponse
  BY DEF Inv
<1>2. QED
  BY InitInv, NextInv, <1>1, PTL DEF Spec

\* modsecurity_process_phase_logging: with the audit engine at RelevantOnly the
\* entry is there exactly for the transactions something has made relevant.
THEOREM AuditedWhenRelevantCorrect == Spec => []AuditedWhenRelevant
<1>1. Inv => AuditedWhenRelevant
  BY DEF Inv
<1>2. QED
  BY InitInv, NextInv, <1>1, PTL DEF Spec
=============================================================================
