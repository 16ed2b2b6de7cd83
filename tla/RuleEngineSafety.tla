-------------------------- MODULE RuleEngineSafety --------------------------
(***************************************************************************)
(* The walk over the rules of a phase, proved for any number of directives *)
(* and any arguments of skip: when no skipAfter leads into a chain, exactly*)
(* the rules run that the directives call for.                             *)
(***************************************************************************)
EXTENDS RuleEngine, FiniteSetTheorems, SequenceTheorems, WellFoundedInduction, TLAPS

(* The directives.                                                         *)

RuleRecords ==
    [no : Nat, id : Numbers \cup {Marker, None}, chained : BOOLEAN, skip : Nat,
     skipAfter : Numbers \cup {Marker, None}, head : Nat, placeholder : BOOLEAN]

TraceRecords == [no : Nat, outcome : Outcomes]

ListOf(s, S) == s \in Seq(S)

Given == 1..Len(directives)
Chain(d) == directives[d].head

TypeInv ==
    /\ ListOf(directives, RuleRecords) /\ Len(directives) <= MaxDirectives
    /\ ListOf(rules, RuleRecords)
    /\ i \in Nat /\ i >= 1 /\ i <= Len(rules) + 1
    /\ skip \in Nat /\ engine \in BOOLEAN /\ sawStarter \in BOOLEAN /\ skipped \in BOOLEAN
    /\ mode \in {"NEXT_RULE", "NEXT_CHAIN", "SKIP_RULES"}
    /\ stage \in {"config", "phase", "end"}

\* A directive knows its number; a marker is in no chain, a rule in the chain
\* of its head, and only a head has an id and may skip.
DirectiveShape ==
    \A d \in Given :
       /\ directives[d].no = d
       /\ directives[d].placeholder =>
             /\ directives[d].id = Marker /\ Chain(d) = 0 /\ ~directives[d].chained
             /\ directives[d].skipAfter = None
       /\ ~directives[d].placeholder =>
             /\ Chain(d) \in 1..d /\ directives[d].id = IF Chain(d) = d THEN d ELSE None
             /\ Chain(d) # d => directives[d].skipAfter = None

\* A chain is the rules from its head on that are chained, and one more.
ChainShape ==
    \A d \in Given : ~directives[d].placeholder =>
       /\ ~directives[Chain(d)].placeholder /\ Chain(Chain(d)) = Chain(d)
       /\ \A e \in Chain(d) .. d - 1 : /\ directives[e].chained
                                       /\ ~directives[e].placeholder
                                       /\ Chain(e) = Chain(d)
       /\ Chain(d) = d /\ d > 1 => ~directives[d - 1].chained

MarkerShape ==
    \A d \in Given : directives[d].placeholder /\ d > 1 => ~directives[d - 1].chained

\* skipAfter with an id names a single rule that comes later, or nothing.
TargetShape ==
    \A d \in Given : directives[d].skipAfter \in Numbers =>
       /\ directives[d].skipAfter > d
       /\ directives[d].skipAfter \in Given =>
             LET t == directives[d].skipAfter IN Chain(t) = t => ~directives[t].chained
       /\ directives[d].skipAfter \notin Given => directives[d].skipAfter \in awaited

\* Whole chains are removed, none that is still open.
GoneShape ==
    /\ gone \subseteq Given
    /\ \A d \in gone : ~directives[d].placeholder
    /\ \A d \in Given : ~directives[d].placeholder => (d \in gone <=> Chain(d) \in gone)
    /\ \A d \in gone : directives[d].chained => d < Len(directives)

(* The array.                                                              *)

Copied(d) == [directives[d] EXCEPT !.placeholder = TRUE]

\* An entry is a directive that is left, or the place of a single rule.
EntryShape ==
    \A k \in 1..Len(rules) :
       LET d == rules[k].no IN
          /\ d \in Given
          /\ \/ rules[k] = directives[d] /\ d \notin gone
             \/ /\ ~directives[d].placeholder /\ Chain(d) = d /\ ~directives[d].chained
                /\ rules[k] = Copied(d)

Before(a, b) == a.no < b.no \/ (a.no = b.no /\ ~a.placeholder /\ b.placeholder)

OrderShape == \A m, n \in 1..Len(rules) : m < n => Before(rules[m], rules[n])

\* Nothing is missing: what is left, and the place of what is named.
PlacedShape ==
    /\ \A d \in Given \ gone : \E k \in 1..Len(rules) : rules[k] = directives[d]
    /\ \A d \in Given : directives[d].skipAfter \in Given =>
          LET t == directives[d].skipAfter IN
          Chain(t) = t => \E k \in 1..Len(rules) : rules[k] = Copied(t)

(* The loop.                                                               *)

\* The directive passed last.
Here == IF i = 1 THEN 0 ELSE rules[i - 1].no

ChainedAt(h) == h > 0 /\ directives[h].chained
InChain == ChainedAt(Here)

\* The rules that are left behind directive b.
RulesAfter(b) == {d \in Given : d > b /\ ~directives[d].placeholder /\ d \notin gone}

IsFirst(e, S) == (S = {} /\ e = End) \/ (e \in S /\ \A s \in S : e <= s)

StartShape ==
    stage = "config" => /\ trace = <<>> /\ i = 1 /\ mode = "NEXT_RULE" /\ skip = 0
                        /\ ~skipped /\ ~sawStarter /\ engine

TraceShape ==
    /\ ListOf(trace, TraceRecords)
    /\ trace # <<>> /\ stage # "end" =>
          LET d == trace[Len(trace)].no IN
          d \in Given /\ ~directives[d].placeholder /\ d \notin gone /\ d <= Here

\* Behind directive h, rule e is expected; skip, skipped, sawStarter and
\* skipAfter are sk, sd, ss and sa.
RunsNext(e, h, sk, sd, ss, sa) ==
    /\ sk = 0 => IsFirst(e, RulesAfter(h))
    /\ sk > 0 => ~ChainedAt(h) /\ e = UnitAfter(h, sk)
    /\ sd <=> ChainedAt(h) /\ directives[Chain(h)].skipAfter # None
    /\ sd => ss /\ sa = directives[Chain(h)].skipAfter

LeavesChain(e, h, sk, sd) == ChainedAt(h) /\ ~sd /\ e = UnitAfter(ChainEnd(h), sk)

\* Rule d matched last, and no place of sa was passed since.
Skips(e, h, sk, ss, sa, d, passed) ==
    /\ sk = 0 /\ sa # None /\ sa = directives[Chain(d)].skipAfter
    /\ ss /\ ChainedAt(h) => IsFirst(e, RulesAfter(h)) /\ d = h
    /\ ~(ss /\ ChainedAt(h)) =>
          /\ e = AfterTarget(d, sa)
          /\ \A k \in 1..passed : rules[k].placeholder /\ rules[k].id = sa => rules[k].no <= d

NextRuleShape ==
    mode = "NEXT_RULE" => RunsNext(Expected, Here, skip, skipped, sawStarter, skipAfter)
NextChainShape ==
    mode = "NEXT_CHAIN" => LeavesChain(Expected, Here, skip, skipped)
SkipShape ==
    mode = "SKIP_RULES" =>
       /\ trace # <<>>
       /\ Skips(Expected, Here, skip, sawStarter, skipAfter, trace[Len(trace)].no, i - 1)

LoopShape ==
    stage # "end" =>
       /\ ~engine => Expected = End
       /\ engine => NextRuleShape /\ NextChainShape /\ SkipShape

ConfigInv == /\ DirectiveShape /\ ChainShape /\ MarkerShape /\ TargetShape /\ GoneShape
             /\ EntryShape /\ OrderShape /\ PlacedShape

Inv == TypeInv /\ ConfigInv /\ StartShape /\ TraceShape /\ LoopShape
-----------------------------------------------------------------------------
(* Numbers and lists.                                                      *)

LEMMA Least ==
    ASSUME NEW T, T \subseteq Nat, T # {}
    PROVE  \E m \in T : \A k1 \in T : m <= k1
<1> DEFINE Below(n) == 1..n
           Sets == {Below(n) : n \in T}
<1>1. Sets \subseteq FiniteSubsetsOf(Nat)
  BY FS_Interval DEF FiniteSubsetsOf
<1>2. Sets # {}
  OBVIOUS
<1>3. PICK x \in Sets : \A y \in Sets : ~ (<<y, x>> \in StrictSubsetOrdering(Nat))
  BY <1>1, <1>2, FS_StrictSubsetOrderingWellFounded, WFMin
<1>4. PICK m \in T : x = Below(m)
  OBVIOUS
<1>5. ASSUME NEW j \in T, j < m PROVE FALSE
  <2>1. Below(j) \in Sets /\ Below(j) \subseteq Below(m) /\ Below(j) # Below(m)
    <3>1. m \in Below(m) /\ m \notin Below(j)
      BY <1>5
    <3>2. QED
      BY <1>5, <3>1
  <2>2. <<Below(j), x>> \in StrictSubsetOrdering(Nat)
    BY <2>1, <1>1, <1>4 DEF StrictSubsetOrdering, FiniteSubsetsOf
  <2>3. QED
    BY <2>1, <2>2, <1>3
<1>6. QED
  BY <1>5

LEMMA MinIs ==
    ASSUME NEW T, T \subseteq Nat, T # {}
    PROVE  Min(T) \in T /\ \A k1 \in T : Min(T) <= k1
<1>1. \E m \in T : \A k1 \in T : m <= k1
  BY Least
<1>2. QED
  BY <1>1 DEF Min

LEMMA MaxIs ==
    ASSUME NEW N \in Nat, NEW T, T \subseteq 0..N, T # {}
    PROVE  Max(T) \in T /\ \A k1 \in T : Max(T) >= k1
<1> DEFINE Rest == {N - t : t \in T}
<1>1. Rest \subseteq Nat /\ Rest # {}
  <2>1. \A t \in T : N - t \in Nat
    OBVIOUS
  <2>2. QED
    BY <2>1
<1>2. PICK m \in Rest : \A k1 \in Rest : m <= k1
  BY <1>1, Least
<1>3. PICK t \in T : m = N - t
  OBVIOUS
<1>4. ASSUME NEW k1 \in T PROVE t >= k1
  <2>1. N - k1 \in Rest
    OBVIOUS
  <2>2. QED
    BY <1>2, <1>3, <2>1
<1>5. QED
  BY <1>3, <1>4 DEF Max

LEMMA ListElement ==
    ASSUME NEW S, NEW s, ListOf(s, S)
    PROVE  /\ Len(s) \in Nat /\ DOMAIN s = 1..Len(s)
           /\ \A j \in 1..Len(s) : s[j] \in S
  BY DEF ListOf

LEMMA ListAppend ==
    ASSUME NEW S, NEW s, ListOf(s, S), NEW e \in S
    PROVE  /\ ListOf(Append(s, e), S)
           /\ Len(Append(s, e)) = Len(s) + 1
           /\ Append(s, e)[Len(s) + 1] = e
           /\ \A j \in 1..Len(s) : Append(s, e)[j] = s[j]
  BY DEF ListOf

LEMMA ListAppendTwo ==
    ASSUME NEW S, NEW s, ListOf(s, S), NEW a \in S, NEW b \in S
    PROVE  /\ ListOf(s \o <<a, b>>, S)
           /\ Len(s \o <<a, b>>) = Len(s) + 2
           /\ (s \o <<a, b>>)[Len(s) + 1] = a
           /\ (s \o <<a, b>>)[Len(s) + 2] = b
           /\ \A j \in 1..Len(s) : (s \o <<a, b>>)[j] = s[j]
<1>1. s \in Seq(S) /\ <<a, b>> \in Seq(S) /\ Len(<<a, b>>) = 2
  BY DEF ListOf
<1>2. Len(s) \in Nat
  BY <1>1
<1>3. QED
  BY <1>1, <1>2, ConcatProperties DEF ListOf

\* What is left of a list without the places from a to b.
CutOut(s, a, b) == SubSeq(s, 1, a - 1) \o SubSeq(s, b + 1, Len(s))

LEMMA ListCut ==
    ASSUME NEW S, NEW s, ListOf(s, S), NEW a \in 1..Len(s), NEW b \in a..Len(s),
           NEW r, r = CutOut(s, a, b)
    PROVE  /\ ListOf(r, S) /\ Len(r) = Len(s) - (b - a + 1)
           /\ \A k \in 1..(a - 1) : r[k] = s[k]
           /\ \A k \in a..Len(r) : r[k] = s[k + (b - a + 1)]
<1> DEFINE p == SubSeq(s, 1, a - 1)
           q == SubSeq(s, b + 1, Len(s))
<1>1. Len(s) \in Nat /\ \A j \in 1..Len(s) : s[j] \in S
  BY ListElement
<1>2. /\ p \in Seq(S) /\ Len(p) = a - 1
      /\ \A j \in 1 .. a - 1 : p[j] = s[j]
  <2>1. \A j \in 1 .. a - 1 : s[j] \in S
    BY <1>1
  <2>2. p \in Seq(S) /\ (Len(p) = IF 1 <= a - 1 THEN a - 1 - 1 + 1 ELSE 0)
        /\ \A j \in 1 .. a - 1 - 1 + 1 : p[j] = s[1 + j - 1]
    BY <1>1, <2>1, SubSeqProperties
  <2>3. QED
    BY <1>1, <2>2
<1>3. /\ q \in Seq(S) /\ Len(q) = Len(s) - b
      /\ \A j \in 1 .. Len(s) - b : q[j] = s[b + j]
  <2>1. \A j \in b + 1 .. Len(s) : s[j] \in S
    BY <1>1
  <2>2. q \in Seq(S) /\ (Len(q) = IF b + 1 <= Len(s) THEN Len(s) - (b + 1) + 1 ELSE 0)
        /\ \A j \in 1 .. Len(s) - (b + 1) + 1 : q[j] = s[(b + 1) + j - 1]
    BY <1>1, <2>1, SubSeqProperties
  <2>3. QED
    BY <1>1, <2>2
<1> HIDE DEF p, q
<1>4. /\ p \o q \in Seq(S) /\ Len(p \o q) = Len(p) + Len(q)
      /\ \A k \in 1 .. Len(p) + Len(q) :
            (p \o q)[k] = IF k <= Len(p) THEN p[k] ELSE q[k - Len(p)]
  BY <1>2, <1>3, ConcatProperties
<1>5. r = p \o q
  BY DEF p, q, CutOut
<1>6. /\ Len(s) \in Int /\ a \in Int /\ b \in Int /\ 1 <= a /\ a <= b /\ b <= Len(s)
      /\ Len(p) = a - 1 /\ Len(q) = Len(s) - b /\ Len(r) = Len(s) - (b - a + 1)
  <2>1. Len(s) \in Int /\ a \in Int /\ b \in Int /\ 1 <= a /\ a <= b /\ b <= Len(s)
    BY <1>1
  <2>2. Len(r) = (a - 1) + (Len(s) - b)
    BY <1>2, <1>3, <1>4, <1>5
  <2>3. Len(p) = a - 1 /\ Len(q) = Len(s) - b
    BY <1>2, <1>3
  <2>4. Len(r) = Len(s) - (b - a + 1)
    <3> DEFINE n == Len(s)  lr == Len(r)
    <3> SUFFICES lr = n - (b - a + 1)
      OBVIOUS
    <3>1. n \in Int /\ a \in Int /\ b \in Int /\ lr = (a - 1) + (n - b)
      BY <2>1, <2>2
    <3> HIDE DEF n, lr
    <3>2. QED
      BY <3>1
  <2>5. QED
    BY <2>1, <2>3, <2>4
<1>7. \A k \in 1..(a - 1) : r[k] = s[k]
  <2> TAKE k \in 1..(a - 1)
  <2>1. k \in 1 .. Len(p) + Len(q) /\ k <= Len(p)
    BY <1>6
  <2>2. r[k] = p[k]
    BY <1>4, <1>5, <2>1
  <2>3. QED
    BY <1>2, <2>2
<1>8. \A k \in a..Len(r) : r[k] = s[k + (b - a + 1)]
  <2> TAKE k \in a..Len(r)
  <2>1. /\ k \in 1 .. Len(p) + Len(q) /\ ~(k <= Len(p))
        /\ k - Len(p) \in 1 .. Len(s) - b
        /\ b + (k - Len(p)) = k + (b - a + 1)
    <3> DEFINE n == Len(s)  lp == Len(p)  lq == Len(q)  lr == Len(r)
    <3>1. /\ n \in Int /\ a \in Int /\ b \in Int /\ 1 <= a /\ a <= b /\ b <= n
          /\ lp = a - 1 /\ lq = n - b /\ lr = n - (b - a + 1) /\ k \in a..lr
      BY <1>6
    <3> HIDE DEF n, lp, lq, lr
    <3>2. /\ k \in 1 .. lp + lq /\ ~(k <= lp) /\ k - lp \in 1 .. n - b
          /\ b + (k - lp) = k + (b - a + 1)
      BY <3>1
    <3>3. QED
      BY <3>2 DEF n, lp, lq, lr
  <2>2. r[k] = q[k - Len(p)]
    BY <1>4, <1>5, <2>1
  <2>3. q[k - Len(p)] = s[b + (k - Len(p))]
    BY <1>3, <2>1
  <2>4. QED
    BY <2>1, <2>2, <2>3
<1>9. QED
  BY <1>4, <1>5, <1>6, <1>7, <1>8 DEF ListOf
-----------------------------------------------------------------------------
(* How directives build the array.                                         *)

LEMMA DirectiveTypes ==
    ASSUME TypeInv
    PROVE  /\ Len(directives) \in Nat /\ MaxDirectives \in Nat
           /\ Given \subseteq Nat \ {0} /\ Given \subseteq Numbers
           /\ \A d \in Given : directives[d] \in RuleRecords
           /\ Len(rules) \in Nat
           /\ \A k \in 1..Len(rules) : rules[k] \in RuleRecords
<1>1. /\ Len(directives) \in Nat /\ Len(rules) \in Nat
      /\ \A d \in 1..Len(directives) : directives[d] \in RuleRecords
      /\ \A k \in 1..Len(rules) : rules[k] \in RuleRecords
  BY ListElement DEF TypeInv
<1>2. QED
  BY <1>1, RuleBounds DEF TypeInv, Given, Numbers

LEMMA NamesApart ==
    /\ MaxDirectives \in Nat /\ MaxSkip \in Nat
    /\ Marker \notin Numbers /\ None \notin Numbers /\ Marker # 0 /\ None # 0
    /\ None # Marker
<1>1. 0 \in 0..MaxDirectives /\ Numbers \subseteq 0..MaxDirectives
  BY RuleBounds DEF Numbers
<1>2. QED
  BY <1>1, RuleBounds

\* The last rule written wants another one.
Open == Len(directives) > 0 /\ directives[Len(directives)].chained

LEMMA StarterIs ==
    ASSUME TypeInv, DirectiveShape, MarkerShape
    PROVE  TmpChainStarter = IF Open THEN Chain(Len(directives)) ELSE 0
<1> DEFINE n == Len(directives)
           written == {d \in 1..n : ~directives[d].placeholder}
           last == directives[Max(written)]
<1>1. n \in Nat /\ Given = 1..n
  BY DirectiveTypes DEF Given
<1>2. TmpChainStarter = IF written # {} /\ last.chained THEN last.head ELSE 0
  BY DEF TmpChainStarter
<1>3. written # {} => Max(written) \in written /\ \A d \in written : Max(written) >= d
  <2>1. written \subseteq 0..n
    BY <1>1
  <2>2. QED
    BY <1>1, <2>1, MaxIs
<1>4. CASE Open
  <2>1. n \in Given /\ directives[n].chained
    BY <1>1, <1>4 DEF Open
  <2>2. n \in written
    BY <1>1, <2>1 DEF DirectiveShape
  <2>3. Max(written) = n
    BY <1>1, <1>3, <2>2
  <2>4. QED
    BY <1>2, <1>4, <2>1, <2>2, <2>3 DEF Chain
<1>5. CASE ~Open
  <2> SUFFICES ASSUME written # {} PROVE ~last.chained
    BY <1>2, <1>5
  <2> DEFINE m == Max(written)
  <2>1. m \in 1..n /\ \A d \in written : m >= d
    BY <1>3
  <2>2. CASE m = n
    <3>1. last = directives[Len(directives)]
      BY <2>2
    <3>2. Len(directives) > 0
      <4> HIDE DEF m
      <4>1. QED
        BY <1>1, <2>1, <2>2
    <3>3. QED
      BY <1>5, <3>1, <3>2 DEF Open
  <2>3. CASE m # n
    <3>1. m + 1 \in Given /\ m + 1 \notin written /\ m + 1 > 1 /\ (m + 1) - 1 = m
      BY <1>1, <2>1, <2>3
    <3>2. directives[m + 1].placeholder
      BY <1>1, <3>1
    <3>3. QED
      BY <3>1, <3>2 DEF MarkerShape
  <2>4. QED
    BY <2>2, <2>3
<1>6. QED
  BY <1>4, <1>5

\* A directive r is added; c entries go into the array.
Added(r, c) ==
    /\ Len(directives') = Len(directives) + 1
    /\ directives'[Len(directives) + 1] = r
    /\ \A d \in Given : directives'[d] = directives[d]
    /\ c \in {1, 2} /\ Len(rules') = Len(rules) + c
    /\ rules'[Len(rules) + 1] = r
    /\ \A k \in 1..Len(rules) : rules'[k] = rules[k]
    /\ c = 2 => /\ ~r.placeholder /\ r.head = r.no /\ ~r.chained
                /\ rules'[Len(rules) + 2] = [r EXCEPT !.placeholder = TRUE]
    /\ gone' = gone

AddedRule(r, c) ==
    /\ ~r.placeholder
    /\ Open => /\ r.head = Chain(Len(directives)) /\ r.id = None /\ r.skipAfter = None
    /\ ~Open => r.head = r.no /\ r.id = r.no
    /\ r.skipAfter \in Numbers => r.skipAfter > r.no /\ r.skipAfter \in awaited'
    /\ r.id = r.no /\ r.no \in awaited => c = 2 /\ ~r.chained
    /\ \A t \in Numbers : t \in awaited /\ t # r.no => t \in awaited'

AddedMarker(r) ==
    /\ r.placeholder /\ r.id = Marker /\ r.head = 0 /\ ~r.chained
    /\ r.skipAfter = None /\ ~Open
    /\ \A t \in Numbers : t \in awaited => t \in awaited'

LEMMA AddRuleAdds ==
    ASSUME TypeInv, DirectiveShape, MarkerShape, SplitsChains = {},
           NEW ch \in BOOLEAN, NEW sk \in 0..MaxSkip,
           NEW after \in Numbers \cup {Marker, None}, AddRule(ch, sk, after)
    PROVE  /\ TypeInv' /\ Len(directives) < MaxDirectives
           /\ \E r \in RuleRecords, c \in {1, 2} :
                 r.no = Len(directives) + 1 /\ Added(r, c) /\ AddedRule(r, c)
<1> DEFINE no == Len(directives) + 1
           start == TmpChainStarter
           r == Rule(no, ch, sk, after, IF start = 0 THEN no ELSE start)
           copy == [r EXCEPT !.placeholder = TRUE]
<1>1. /\ Len(directives) \in Nat /\ Len(rules) \in Nat /\ no \in Numbers
      /\ Len(directives) < MaxDirectives /\ sk \in Nat
  BY DirectiveTypes, NamesApart DEF AddRule, Numbers
<1>2. /\ Open => start = Chain(Len(directives)) /\ start \in 1..Len(directives)
      /\ ~Open => start = 0
  <2>1. Open => Len(directives) \in Given /\ ~directives[Len(directives)].placeholder
    BY <1>1 DEF Open, DirectiveShape, Given
  <2>2. Open => Chain(Len(directives)) \in 1..Len(directives)
    BY <2>1 DEF DirectiveShape
  <2>3. QED
    BY <2>2, StarterIs
<1>3. /\ r \in RuleRecords /\ r.no = no /\ r.chained = ch /\ r.skipAfter = after
      /\ r.head = (IF Open THEN start ELSE no) /\ r.id = (IF Open THEN None ELSE no)
      /\ ~r.placeholder
  BY <1>1, <1>2 DEF Rule, RuleRecords
<1>4. /\ copy \in RuleRecords
  BY <1>3 DEF RuleRecords
<1> HIDE DEF r
<1>5. /\ start # 0 => after = None
      /\ ~(ch /\ start = 0 /\ no \in awaited)
      /\ after \in Numbers => after > no
      /\ directives' = Append(directives, r)
      /\ rules' = rules \o Placed(r)
      /\ awaited' = (awaited \cup ({after} \ {None})) \ {r.id}
      /\ gone' = gone /\ UNCHANGED <<stage, loop, engine>>
  BY DEF AddRule, r
<1>6. /\ ListOf(directives', RuleRecords) /\ Len(directives') = no
      /\ directives'[no] = r /\ \A d \in Given : directives'[d] = directives[d]
  <2>1. ListOf(directives, RuleRecords)
    BY DEF TypeInv
  <2>2. QED
    BY <1>3, <1>5, <2>1, ListAppend DEF Given
<1>7. after # r.id \/ r.id = None
  BY <1>1, <1>3, <1>5, NamesApart DEF Numbers
<1>8. PICK c \in {1, 2} :
         /\ ListOf(rules', RuleRecords) /\ Len(rules') = Len(rules) + c
         /\ rules'[Len(rules) + 1] = r
         /\ \A k \in 1..Len(rules) : rules'[k] = rules[k]
         /\ c = 2 => r.id # None /\ r.id \in awaited /\ rules'[Len(rules) + 2] = copy
         /\ r.id # None /\ r.id \in awaited => c = 2
  <2>1. ListOf(rules, RuleRecords)
    BY DEF TypeInv
  <2>2. CASE r.id # None /\ r.id \in awaited
    <3>1. rules' = rules \o <<r, copy>>
      BY <1>3, <1>5, <2>2 DEF Placed
    <3>2. /\ ListOf(rules', RuleRecords) /\ Len(rules') = Len(rules) + 2
          /\ rules'[Len(rules) + 1] = r /\ rules'[Len(rules) + 2] = copy
          /\ \A k \in 1..Len(rules) : rules'[k] = rules[k]
      <4> HIDE DEF copy
      <4>1. QED
        BY <1>3, <1>4, <2>1, <3>1, ListAppendTwo
    <3>3. QED
      BY <2>2, <3>2
  <2>3. CASE ~(r.id # None /\ r.id \in awaited)
    <3>1. rules' = rules \o <<r>>
      BY <1>3, <1>5, <1>7, <2>3 DEF Placed
    <3>2. rules' = Append(rules, r)
      BY <1>3, <2>1, <3>1 DEF ListOf
    <3>3. QED
      BY <1>3, <2>1, <2>3, <3>2, ListAppend
  <2>4. QED
    BY <2>2, <2>3
<1>9. c = 2 => ~r.placeholder /\ r.head = r.no /\ ~r.chained
  BY <1>2, <1>3, <1>5, <1>8
<1>10. TypeInv'
  <2>1. Len(directives') <= MaxDirectives
    BY <1>1, <1>6, NamesApart
  <2>2. i' = i /\ skip' = skip /\ sawStarter' = sawStarter /\ skipped' = skipped
        /\ mode' = mode /\ engine' = engine /\ stage' = stage
    BY <1>5 DEF loop
  <2>3. i <= Len(rules') + 1
    BY <1>1, <1>8 DEF TypeInv
  <2>4. QED
    BY <1>6, <1>8, <2>1, <2>2, <2>3 DEF TypeInv
<1>11. Added(r, c)
  BY <1>5, <1>6, <1>8, <1>9 DEF Added
<1>12. AddedRule(r, c)
  <2>1. after \in Numbers => after > r.no /\ after \in awaited'
    BY <1>3, <1>5, <1>1, NamesApart DEF Numbers
  <2>2. r.id = r.no /\ r.no \in awaited => c = 2 /\ ~r.chained
    BY <1>1, <1>3, <1>8, <1>9, NamesApart
  <2>3. \A t \in Numbers : t \in awaited /\ t # r.no => t \in awaited'
    BY <1>3, <1>5, NamesApart
  <2>4. Open => start # 0
    BY <1>1, <1>2
  <2>5. QED
    BY <1>2, <1>3, <1>5, <2>1, <2>2, <2>3, <2>4 DEF AddedRule
<1>13. QED
  BY <1>1, <1>3, <1>10, <1>11, <1>12

LEMMA AddMarkerAdds ==
    ASSUME TypeInv, DirectiveShape, MarkerShape, SplitsChains = {}, AddMarker
    PROVE  /\ TypeInv' /\ Len(directives) < MaxDirectives
           /\ \E r \in RuleRecords, c \in {1, 2} :
                 r.no = Len(directives) + 1 /\ Added(r, c) /\ AddedMarker(r)
<1> DEFINE no == Len(directives) + 1
           r == [Rule(no, FALSE, 0, None, 0) EXCEPT !.id = Marker, !.placeholder = TRUE]
<1>1. /\ Len(directives) \in Nat /\ Len(rules) \in Nat /\ no \in Numbers
      /\ Len(directives) < MaxDirectives
  BY DirectiveTypes, NamesApart DEF AddMarker, Numbers
<1>2. ~Open
  <2>1. Open => Len(directives) \in Given /\ ~directives[Len(directives)].placeholder
    BY <1>1 DEF Open, DirectiveShape, Given
  <2>2. Open => Chain(Len(directives)) \in 1..Len(directives)
    BY <2>1 DEF DirectiveShape
  <2>3. TmpChainStarter = 0
    BY DEF AddMarker
  <2>4. QED
    BY <1>1, <2>2, <2>3, StarterIs
<1>3. /\ r \in RuleRecords /\ r.no = no /\ ~r.chained /\ r.skipAfter = None
      /\ r.head = 0 /\ r.id = Marker /\ r.placeholder
  <2> DEFINE base == Rule(no, FALSE, 0, None, 0)
  <2>1. no \in Nat /\ no \in Numbers
    BY <1>1
  <2>2. /\ base \in RuleRecords /\ base.no = no /\ ~base.chained /\ base.skipAfter = None
        /\ base.head = 0
    BY <2>1 DEF Rule, RuleRecords
  <2> HIDE DEF base
  <2>3. r = [base EXCEPT !.id = Marker, !.placeholder = TRUE]
    BY DEF base
  <2> HIDE DEF r
  <2>4. QED
    BY <2>2, <2>3 DEF RuleRecords
<1> HIDE DEF r
<1>4. /\ directives' = Append(directives, r) /\ rules' = Append(rules, r)
      /\ awaited' = awaited \ {Marker} /\ gone' = gone
      /\ UNCHANGED <<stage, loop, engine>>
  BY DEF AddMarker, r
<1>5. ListOf(directives, RuleRecords) /\ ListOf(rules, RuleRecords)
  BY DEF TypeInv
<1>6. /\ ListOf(directives', RuleRecords) /\ Len(directives') = no
      /\ directives'[no] = r /\ \A d \in Given : directives'[d] = directives[d]
  BY <1>3, <1>4, <1>5, ListAppend DEF Given
<1>7. /\ ListOf(rules', RuleRecords) /\ Len(rules') = Len(rules) + 1
      /\ rules'[Len(rules) + 1] = r /\ \A k \in 1..Len(rules) : rules'[k] = rules[k]
  BY <1>3, <1>4, <1>5, ListAppend
<1>8. TypeInv'
  <2>1. Len(directives') <= MaxDirectives
    BY <1>1, <1>6, NamesApart
  <2>2. i' = i /\ skip' = skip /\ sawStarter' = sawStarter /\ skipped' = skipped
        /\ mode' = mode /\ engine' = engine /\ stage' = stage
    BY <1>4 DEF loop
  <2>3. i <= Len(rules') + 1
    BY <1>1, <1>7 DEF TypeInv
  <2>4. QED
    BY <1>6, <1>7, <2>1, <2>2, <2>3 DEF TypeInv
<1>9. Added(r, 1)
  <2>1. 1 \in {1, 2} /\ 1 # 2
    OBVIOUS
  <2>2. QED
    BY <1>4, <1>6, <1>7, <2>1 DEF Added
<1>10. AddedMarker(r)
  BY <1>2, <1>3, <1>4, NamesApart DEF AddedMarker
<1>11. QED
  BY <1>1, <1>3, <1>8, <1>9, <1>10

\* A rule or a marker is added.
Adding(r, c) ==
    /\ r \in RuleRecords /\ c \in {1, 2} /\ r.no = Len(directives) + 1
    /\ Len(directives) < MaxDirectives
    /\ Added(r, c) /\ (AddedRule(r, c) \/ AddedMarker(r))

LEMMA AddingFacts ==
    ASSUME TypeInv, NEW r, NEW c, Adding(r, c)
    PROVE  /\ Given' = Given \cup {r.no} /\ r.no \notin Given
           /\ r.no \in Numbers /\ r.no > 0 /\ r.no \in Nat
           /\ \A d \in Given : d < r.no /\ d \in Nat /\ d > 0
           /\ \A d \in Given : directives'[d] = directives[d]
           /\ directives'[r.no] = r
           /\ Open => r.no - 1 \in Given /\ directives[r.no - 1].chained /\ r.no > 1
           /\ ~Open /\ r.no > 1 => r.no - 1 \in Given /\ ~directives[r.no - 1].chained
<1> DEFINE n == Len(directives)
<1>1. n \in Nat /\ Given = 1..n /\ MaxDirectives \in Nat
  BY DirectiveTypes DEF Given
<1>2. r.no = n + 1 /\ n < MaxDirectives /\ Len(directives') = n + 1
      /\ directives'[n + 1] = r /\ \A d \in Given : directives'[d] = directives[d]
  BY DEF Adding, Added
<1>3. Given' = 1 .. n + 1
  BY <1>2 DEF Given
<1>4. Open <=> n > 0 /\ directives[n].chained
  BY DEF Open
<1> HIDE DEF n
<1>5. Given' = Given \cup {r.no} /\ r.no \notin Given /\ r.no \in Numbers /\ r.no > 0
      /\ r.no \in Nat /\ r.no - 1 = n
      /\ \A d \in Given : d < r.no /\ d \in Nat /\ d > 0
  BY <1>1, <1>2, <1>3 DEF Numbers
<1>6. n > 0 => n \in Given
  BY <1>1
<1>7. r.no > 1 => n > 0
  BY <1>1, <1>2
<1>8. n > 0 => r.no > 1
  BY <1>1, <1>2
<1>9. QED
  BY <1>2, <1>4, <1>5, <1>6, <1>7, <1>8

LEMMA AddDirectiveShape ==
    ASSUME TypeInv, DirectiveShape, NEW r, NEW c, Adding(r, c)
    PROVE  DirectiveShape'
<1>1. /\ Given' = Given \cup {r.no} /\ directives'[r.no] = r
      /\ r.no \in Nat /\ r.no > 0
      /\ \A d \in Given : directives'[d] = directives[d]
  BY AddingFacts
<1> SUFFICES ASSUME NEW d \in Given'
             PROVE  /\ directives'[d].no = d
                    /\ directives'[d].placeholder =>
                          /\ directives'[d].id = Marker /\ directives'[d].head = 0
                          /\ ~directives'[d].chained /\ directives'[d].skipAfter = None
                    /\ ~directives'[d].placeholder =>
                          /\ directives'[d].head \in 1..d
                          /\ directives'[d].id = IF directives'[d].head = d THEN d ELSE None
                          /\ directives'[d].head # d => directives'[d].skipAfter = None
  BY DEF DirectiveShape, Chain
<1>2. CASE d \in Given
  BY <1>1, <1>2 DEF DirectiveShape, Chain
<1>3. CASE d = r.no
  <2>1. directives'[d] = r
    BY <1>1, <1>3
  <2>2. CASE AddedMarker(r)
    BY <1>3, <2>1, <2>2 DEF AddedMarker
  <2>3. CASE AddedRule(r, c) /\ ~Open
    <3>1. r.head = r.no /\ r.id = r.no /\ ~r.placeholder
      BY <2>3 DEF AddedRule
    <3>2. QED
      BY <1>1, <1>3, <2>1, <3>1
  <2>4. CASE AddedRule(r, c) /\ Open
    <3>1. r.head = Chain(Len(directives)) /\ r.id = None /\ r.skipAfter = None /\ ~r.placeholder
      BY <2>4 DEF AddedRule
    <3>2. /\ r.no - 1 \in Given /\ directives[r.no - 1].chained
          /\ r.no - 1 = Len(directives) /\ Len(directives) \in Nat
      BY <2>4, AddingFacts, DirectiveTypes DEF Adding
    <3>3. Chain(Len(directives)) \in 1..Len(directives)
      BY <3>2 DEF DirectiveShape
    <3>4. r.head \in 1..d /\ r.head # d
      BY <1>1, <1>3, <3>1, <3>2, <3>3
    <3>5. QED
      BY <1>3, <2>1, <3>1, <3>4
  <2>5. QED
    BY <2>2, <2>3, <2>4 DEF Adding
<1>4. QED
  BY <1>1, <1>2, <1>3

LEMMA AddMarkerShape ==
    ASSUME TypeInv, DirectiveShape, MarkerShape, NEW r, NEW c, Adding(r, c)
    PROVE  MarkerShape'
<1>1. /\ Given' = Given \cup {r.no} /\ directives'[r.no] = r
      /\ \A d \in Given : directives'[d] = directives[d]
      /\ ~Open /\ r.no > 1 => r.no - 1 \in Given /\ ~directives[r.no - 1].chained
  BY AddingFacts
<1>2. \A d \in Given : d > 1 => d - 1 \in Given
  BY DirectiveTypes DEF Given
<1> SUFFICES ASSUME NEW d \in Given', directives'[d].placeholder, d > 1
             PROVE  ~directives'[d - 1].chained
  BY DEF MarkerShape
<1>3. CASE d \in Given
  <2>1. directives[d].placeholder /\ d - 1 \in Given
    BY <1>1, <1>2, <1>3
  <2>2. QED
    BY <1>1, <1>3, <2>1 DEF MarkerShape
<1>4. CASE d = r.no
  <2>1. ~Open
    BY <1>1, <1>4 DEF Adding, AddedRule, AddedMarker
  <2>2. QED
    BY <1>1, <1>4, <2>1
<1>5. QED
  BY <1>1, <1>3, <1>4

LEMMA AddChainShape ==
    ASSUME TypeInv, DirectiveShape, ChainShape, NEW r, NEW c, Adding(r, c)
    PROVE  ChainShape'
<1>1. /\ Given' = Given \cup {r.no} /\ directives'[r.no] = r /\ r.no \notin Given
      /\ r.no \in Nat /\ r.no > 0
      /\ \A d \in Given : directives'[d] = directives[d]
      /\ \A d \in Given : d < r.no /\ d \in Nat /\ d > 0
      /\ Open => r.no - 1 \in Given /\ directives[r.no - 1].chained /\ r.no > 1
      /\ ~Open /\ r.no > 1 => r.no - 1 \in Given /\ ~directives[r.no - 1].chained
  BY AddingFacts
<1>2. \A d \in Given : \A e \in 1..d : e \in Given
  BY DirectiveTypes DEF Given
<1> SUFFICES ASSUME NEW d \in Given', ~directives'[d].placeholder
             PROVE  LET h == directives'[d].head IN
                    /\ ~directives'[h].placeholder /\ directives'[h].head = h
                    /\ \A e \in h .. d - 1 : /\ directives'[e].chained
                                             /\ ~directives'[e].placeholder
                                             /\ directives'[e].head = h
                    /\ h = d /\ d > 1 => ~directives'[d - 1].chained
  BY DEF ChainShape, Chain
<1>3. CASE d \in Given
  <2> DEFINE h == Chain(d)
  <2>1. directives'[d] = directives[d] /\ ~directives[d].placeholder /\ d \in Nat
    BY <1>1, <1>3
  <2>2. h \in 1..d
    BY <1>3, <2>1 DEF DirectiveShape
  <2>3. h \in Given /\ \A e \in h .. d - 1 : e \in Given
    BY <1>2, <1>3, <2>1, <2>2
  <2>4. d > 1 => d - 1 \in Given
    BY <1>2, <1>3, <2>1
  <2>5. /\ ~directives[h].placeholder /\ Chain(h) = h
        /\ \A e \in h .. d - 1 : /\ directives[e].chained /\ ~directives[e].placeholder
                                 /\ Chain(e) = h
        /\ h = d /\ d > 1 => ~directives[d - 1].chained
    BY <1>3, <2>1 DEF ChainShape
  <2>6. directives'[d].head = h
    BY <2>1 DEF Chain
  <2> HIDE DEF h
  <2>7. QED
    BY <1>1, <2>3, <2>4, <2>5, <2>6 DEF Chain
<1>4. CASE d = r.no /\ ~Open
  <2>1. r.head = r.no
    BY <1>1, <1>4 DEF Adding, AddedRule, AddedMarker
  <2>2. \A e \in d .. d - 1 : FALSE
    BY <1>1, <1>4
  <2>3. d > 1 => ~directives'[d - 1].chained
    BY <1>1, <1>4
  <2>4. QED
    BY <1>1, <1>4, <2>1, <2>2, <2>3
<1>5. CASE d = r.no /\ Open
  <2> DEFINE b == r.no - 1
             h == Chain(b)
  <2>1. b \in Given /\ directives[b].chained /\ b = Len(directives) /\ b \in Nat /\ d - 1 = b
    BY <1>1, <1>5, DirectiveTypes DEF Adding
  <2>2. ~directives[b].placeholder
    BY <2>1 DEF DirectiveShape
  <2>3. r.head = h /\ h \in 1..b
    <3>1. AddedRule(r, c)
      BY <1>5 DEF Adding, AddedMarker
    <3>2. QED
      BY <1>5, <2>1, <2>2, <3>1 DEF AddedRule, DirectiveShape
  <2>4. /\ ~directives[h].placeholder /\ Chain(h) = h
        /\ \A e \in h .. b - 1 : /\ directives[e].chained /\ ~directives[e].placeholder
                                 /\ Chain(e) = h
    BY <2>1, <2>2 DEF ChainShape
  <2>5. h \in Given /\ \A e \in h .. b : e \in Given
    BY <1>2, <2>1, <2>3
  <2>6. \A e \in h .. b : /\ directives[e].chained /\ ~directives[e].placeholder
                          /\ Chain(e) = h
    <3> TAKE e \in h .. b
    <3>1. e = b \/ e \in h .. b - 1
      BY <2>1, <2>3
    <3>2. QED
      BY <2>1, <2>2, <2>4, <3>1
  <2>7. h # d /\ directives'[d].head = h
    BY <1>1, <1>5, <2>1, <2>3
  <2> HIDE DEF h, b
  <2>8. QED
    BY <1>1, <2>1, <2>4, <2>5, <2>6, <2>7 DEF Chain
<1>6. QED
  BY <1>1, <1>3, <1>4, <1>5

LEMMA AddTargetShape ==
    ASSUME TypeInv, DirectiveShape, TargetShape, NEW r, NEW c, Adding(r, c)
    PROVE  TargetShape'
<1>1. /\ Given' = Given \cup {r.no} /\ directives'[r.no] = r /\ r.no \notin Given
      /\ r.no \in Numbers
      /\ \A d \in Given : directives'[d] = directives[d] /\ d < r.no
  BY AddingFacts
<1>2. \A d \in Given' : directives'[d].skipAfter \in Numbers =>
         directives'[d].skipAfter > d
  <2>1. r.skipAfter \in Numbers => r.skipAfter > r.no
    BY NamesApart DEF Adding, AddedRule, AddedMarker
  <2>2. QED
    BY <1>1, <2>1 DEF TargetShape
<1>3. ASSUME NEW d \in Given, directives[d].skipAfter \in Numbers, NEW t, t = directives[d].skipAfter
      PROVE  /\ t \in Given' => (directives'[t].head = t => ~directives'[t].chained)
             /\ t \notin Given' => t \in awaited'
  <2>1. CASE t \in Given
    BY <1>1, <1>3, <2>1 DEF TargetShape, Chain
  <2>2. CASE t \notin Given
    <3>1. t \in awaited
      BY <1>3, <2>2 DEF TargetShape
    <3>2. CASE t = r.no
      <4>1. r.head = t => ~r.chained
        <5>1. CASE AddedRule(r, c)
          <6> SUFFICES ASSUME r.head = r.no PROVE ~r.chained
            BY <3>2
          <6>1. CASE ~Open
            BY <3>1, <3>2, <5>1, <6>1 DEF AddedRule
          <6>2. CASE Open
            <7>1. r.no - 1 \in Given /\ Len(directives) = r.no - 1 /\ Len(directives) \in Nat
                  /\ directives[r.no - 1].chained
              BY <6>2, AddingFacts, DirectiveTypes DEF Adding
            <7>2. Chain(Len(directives)) \in 1..Len(directives)
              BY <7>1 DEF DirectiveShape
            <7>3. r.head # r.no
              BY <5>1, <6>2, <7>1, <7>2 DEF AddedRule
            <7>4. QED
              BY <7>3
          <6>3. QED
            BY <6>1, <6>2
        <5>2. CASE AddedMarker(r)
          BY <5>2 DEF AddedMarker
        <5>3. QED
          BY <5>1, <5>2 DEF Adding
      <4>2. QED
        BY <1>1, <3>2, <4>1
    <3>3. CASE t # r.no
      BY <1>1, <1>3, <2>2, <3>1, <3>3 DEF Adding, AddedRule, AddedMarker
    <3>4. QED
      BY <3>2, <3>3
  <2>3. QED
    BY <2>1, <2>2
<1>4. ASSUME r.skipAfter \in Numbers, NEW t, t = r.skipAfter
      PROVE  t \notin Given' /\ t \in awaited'
  <2>1. t > r.no /\ t \in awaited'
    BY <1>4, NamesApart DEF Adding, AddedRule, AddedMarker
  <2>2. t # r.no /\ t \notin Given
    <3>1. \A d \in Given : d < r.no /\ d \in Nat
      BY AddingFacts
    <3>2. r.no \in Nat
      BY AddingFacts
    <3>3. QED
      BY <2>1, <3>1, <3>2
  <2>3. QED
    BY <1>1, <2>1, <2>2
<1>5. \A d \in Given' : directives'[d].skipAfter \in Numbers =>
         /\ directives'[d].skipAfter \in Given' =>
               LET t == directives'[d].skipAfter
               IN  directives'[t].head = t => ~directives'[t].chained
         /\ directives'[d].skipAfter \notin Given' => directives'[d].skipAfter \in awaited'
  BY <1>1, <1>3, <1>4
<1>6. QED
  BY <1>2, <1>5 DEF TargetShape, Chain

LEMMA AddGoneShape ==
    ASSUME TypeInv, DirectiveShape, GoneShape, NEW r, NEW c, Adding(r, c)
    PROVE  GoneShape'
<1>1. /\ Given' = Given \cup {r.no} /\ directives'[r.no] = r /\ r.no \notin Given
      /\ \A d \in Given : directives'[d] = directives[d]
      /\ Open => r.no - 1 \in Given /\ directives[r.no - 1].chained
  BY AddingFacts
<1>2. gone' = gone /\ Len(directives') = Len(directives) + 1 /\ Len(directives) \in Nat
      /\ r.no = Len(directives) + 1
  BY DirectiveTypes DEF Adding, Added
<1>3. gone \subseteq Given /\ r.no \notin gone
  BY <1>1 DEF GoneShape
<1>4. \A d \in gone : ~directives'[d].placeholder /\ (directives'[d].chained => d < Len(directives'))
  BY <1>1, <1>2, <1>3, DirectiveTypes DEF GoneShape
<1>5. ASSUME ~r.placeholder PROVE r.head \notin gone
  <2>1. CASE ~Open
    <3>1. r.head = r.no
      BY <1>5, <2>1 DEF Adding, AddedRule, AddedMarker
    <3>2. QED
      BY <1>3, <3>1
  <2>2. CASE Open
    <3> DEFINE b == Len(directives)
    <3>1. b \in Given /\ directives[b].chained /\ ~directives[b].placeholder
      BY <1>1, <1>2, <2>2 DEF DirectiveShape
    <3>2. b \notin gone
      BY <1>2, <3>1 DEF GoneShape
    <3>3. r.head = Chain(b)
      BY <1>5, <2>2 DEF Adding, AddedRule, AddedMarker
    <3>4. QED
      BY <3>1, <3>2, <3>3 DEF GoneShape
  <2>3. QED
    BY <2>1, <2>2
<1>6. \A d \in Given' : ~directives'[d].placeholder => (d \in gone <=> directives'[d].head \in gone)
  <2> TAKE d \in Given'
  <2>1. CASE d \in Given
    BY <1>1, <2>1 DEF GoneShape, Chain
  <2>2. CASE d = r.no
    BY <1>1, <1>3, <1>5, <2>2
  <2>3. QED
    BY <1>1, <2>1, <2>2
<1>7. QED
  BY <1>1, <1>2, <1>3, <1>4, <1>6 DEF GoneShape, Chain

LEMMA CopiedFields ==
    ASSUME TypeInv, NEW d \in Given
    PROVE  /\ Copied(d) \in RuleRecords /\ Copied(d).placeholder
           /\ Copied(d).no = directives[d].no /\ Copied(d).id = directives[d].id
           /\ Copied(d).chained = directives[d].chained
<1>1. directives[d] \in RuleRecords
  BY DirectiveTypes
<1>2. QED
  BY <1>1 DEF Copied, RuleRecords

\* The entries of the array after an addition.
LEMMA AddingEntries ==
    ASSUME TypeInv, NEW r, NEW c, Adding(r, c)
    PROVE  /\ \A k \in 1..Len(rules) : k \in 1..Len(rules') /\ rules'[k] = rules[k]
           /\ Len(rules) + 1 \in 1..Len(rules') /\ rules'[Len(rules) + 1] = r
           /\ c = 2 => Len(rules) + 2 \in 1..Len(rules')
           /\ \A k \in 1..Len(rules') :
                 \/ k \in 1..Len(rules)
                 \/ k = Len(rules) + 1
                 \/ c = 2 /\ k = Len(rules) + 2
           /\ c = 2 => /\ ~r.placeholder /\ r.head = r.no /\ ~r.chained
                       /\ rules'[Len(rules) + 2] = [r EXCEPT !.placeholder = TRUE]
           /\ Len(rules) \in Nat
<1> DEFINE m == Len(rules)
           m2 == Len(rules')
<1>1. m \in Nat /\ c \in {1, 2} /\ m2 = m + c
  BY DirectiveTypes DEF Adding, Added
<1>2. /\ rules'[m + 1] = r /\ \A k \in 1..m : rules'[k] = rules[k]
      /\ c = 2 => /\ ~r.placeholder /\ r.head = r.no /\ ~r.chained
                  /\ rules'[m + 2] = [r EXCEPT !.placeholder = TRUE]
  BY DEF Adding, Added
<1> HIDE DEF m, m2
<1>3. /\ \A k \in 1..m : k \in 1..m2
      /\ m + 1 \in 1..m2 /\ (c = 2 => m + 2 \in 1..m2)
      /\ \A k \in 1..m2 : k \in 1..m \/ k = m + 1 \/ (c = 2 /\ k = m + 2)
  BY <1>1
<1>4. QED
  BY <1>1, <1>2, <1>3 DEF m, m2

LEMMA AddEntryShape ==
    ASSUME TypeInv, DirectiveShape, GoneShape, EntryShape, NEW r, NEW c, Adding(r, c)
    PROVE  EntryShape'
<1>1. /\ Given' = Given \cup {r.no} /\ directives'[r.no] = r /\ r.no \notin Given
      /\ \A d \in Given : directives'[d] = directives[d]
  BY AddingFacts
<1>2. gone' = gone /\ r.no \notin gone
  BY <1>1 DEF Adding, Added, GoneShape
<1> SUFFICES ASSUME NEW k \in 1..Len(rules')
             PROVE  LET d == rules'[k].no IN
                    /\ d \in Given'
                    /\ \/ rules'[k] = directives'[d] /\ d \notin gone'
                       \/ /\ ~directives'[d].placeholder /\ directives'[d].head = d
                          /\ ~directives'[d].chained
                          /\ rules'[k] = [directives'[d] EXCEPT !.placeholder = TRUE]
  BY DEF EntryShape, Chain, Copied
<1>3. CASE k \in 1..Len(rules)
  <2>1. rules'[k] = rules[k]
    BY <1>3, AddingEntries
  <2> DEFINE d == rules[k].no
  <2>2. /\ d \in Given
        /\ \/ rules[k] = directives[d] /\ d \notin gone
           \/ /\ ~directives[d].placeholder /\ directives[d].head = d
              /\ ~directives[d].chained
              /\ rules[k] = [directives[d] EXCEPT !.placeholder = TRUE]
    BY <1>3 DEF EntryShape, Chain, Copied
  <2>3. directives'[d] = directives[d] /\ rules'[k].no = d
    BY <1>1, <2>1, <2>2
  <2> HIDE DEF d
  <2>4. QED
    BY <1>1, <1>2, <2>1, <2>2, <2>3
<1>4. CASE k = Len(rules) + 1
  <2>1. rules'[k] = r
    BY <1>4, AddingEntries
  <2>2. QED
    BY <1>1, <1>2, <2>1
<1>5. CASE c = 2 /\ k = Len(rules) + 2
  <2>1. rules'[k] = [r EXCEPT !.placeholder = TRUE]
        /\ ~r.placeholder /\ r.head = r.no /\ ~r.chained
    BY <1>5, AddingEntries
  <2>2. rules'[k].no = r.no
    BY <2>1 DEF Adding, RuleRecords
  <2>3. QED
    BY <1>1, <2>1, <2>2
<1>6. QED
  BY <1>3, <1>4, <1>5, AddingEntries

LEMMA AddOrderShape ==
    ASSUME TypeInv, EntryShape, OrderShape, NEW r, NEW c, Adding(r, c)
    PROVE  OrderShape'
<1>1. \A d \in Given : d < r.no
  BY AddingFacts
<1>2. \A k \in 1..Len(rules) : rules[k].no < r.no
  BY <1>1 DEF EntryShape
<1>3. /\ Len(rules) \in Nat
      /\ \A k \in 1..Len(rules) : rules'[k] = rules[k]
      /\ rules'[Len(rules) + 1] = r
      /\ \A k \in 1..Len(rules') : k \in 1..Len(rules) \/ k = Len(rules) + 1
                                   \/ (c = 2 /\ k = Len(rules) + 2)
      /\ c = 2 => ~r.placeholder /\ rules'[Len(rules) + 2] = [r EXCEPT !.placeholder = TRUE]
  BY AddingEntries
<1>4. c = 2 => rules'[Len(rules) + 2].no = r.no /\ rules'[Len(rules) + 2].placeholder
  BY <1>3 DEF Adding, RuleRecords
<1> SUFFICES ASSUME NEW m \in 1..Len(rules'), NEW n \in 1..Len(rules'), m < n
             PROVE  Before(rules'[m], rules'[n])
  BY DEF OrderShape
<1>5. CASE n \in 1..Len(rules)
  <2>1. m \in 1..Len(rules)
    BY <1>3, <1>5
  <2>2. QED
    BY <1>3, <1>5, <2>1 DEF OrderShape
<1>6. CASE n = Len(rules) + 1
  <2>1. m \in 1..Len(rules)
    BY <1>3, <1>6
  <2>2. QED
    BY <1>2, <1>3, <1>6, <2>1 DEF Before
<1>7. CASE c = 2 /\ n = Len(rules) + 2
  <2>1. m \in 1..Len(rules) \/ m = Len(rules) + 1
    BY <1>3, <1>7
  <2>2. QED
    BY <1>2, <1>3, <1>4, <1>7, <2>1 DEF Before
<1>8. QED
  BY <1>3, <1>5, <1>6, <1>7

LEMMA AddPlacedShape ==
    ASSUME TypeInv, DirectiveShape, TargetShape, GoneShape, PlacedShape,
           NEW r, NEW c, Adding(r, c)
    PROVE  PlacedShape'
<1>1. /\ Given' = Given \cup {r.no} /\ directives'[r.no] = r /\ r.no \notin Given
      /\ r.no \in Numbers /\ r.no \in Nat /\ Given \subseteq Numbers
      /\ \A d \in Given : directives'[d] = directives[d] /\ d < r.no
  BY AddingFacts, DirectiveTypes
<1>2. gone' = gone
  BY DEF Adding, Added
<1>3. /\ \A k \in 1..Len(rules) : k \in 1..Len(rules') /\ rules'[k] = rules[k]
      /\ Len(rules) + 1 \in 1..Len(rules') /\ rules'[Len(rules) + 1] = r
      /\ c = 2 => /\ Len(rules) + 2 \in 1..Len(rules')
                  /\ rules'[Len(rules) + 2] = [r EXCEPT !.placeholder = TRUE]
  BY AddingEntries
<1>4. \A d \in Given' \ gone' : \E k \in 1..Len(rules') : rules'[k] = directives'[d]
  <2> TAKE d \in Given' \ gone'
  <2>1. CASE d \in Given
    <3>1. PICK k \in 1..Len(rules) : rules[k] = directives[d]
      BY <1>2, <2>1 DEF PlacedShape
    <3>2. QED
      BY <1>1, <1>3, <2>1, <3>1
  <2>2. CASE d = r.no
    BY <1>1, <1>3, <2>2
  <2>3. QED
    BY <1>1, <2>1, <2>2
<1>5. ASSUME NEW d \in Given', NEW t, t = directives'[d].skipAfter, t \in Given',
             directives'[t].head = t
      PROVE  \E k \in 1..Len(rules') : rules'[k] = [directives'[t] EXCEPT !.placeholder = TRUE]
  <2>1. d \in Given
    <3>1. TargetShape'
      BY AddTargetShape
    <3>2. t > d /\ t \in Numbers
      <4>1. t \in Numbers
        BY <1>1, <1>5
      <4>2. QED
        BY <1>5, <3>1, <4>1 DEF TargetShape
    <3>3. d # r.no
      <4>1. \A u \in Given' : u <= r.no
        BY <1>1, DirectiveTypes
      <4>2. QED
        BY <1>1, <1>5, <3>2, <4>1, NamesApart DEF Numbers
    <3>4. QED
      BY <1>1, <1>5, <3>3
  <2>2. directives[d].skipAfter = t
    BY <1>1, <1>5, <2>1
  <2>3. CASE t \in Given
    <3>1. Chain(t) = t
      BY <1>1, <1>5, <2>3 DEF Chain
    <3>2. PICK k \in 1..Len(rules) : rules[k] = Copied(t)
      BY <2>1, <2>2, <2>3, <3>1 DEF PlacedShape
    <3>3. QED
      BY <1>1, <1>3, <2>3, <3>2 DEF Copied
  <2>4. CASE t = r.no
    <3>1. t \in awaited /\ r.head = r.no
      BY <1>1, <1>5, <2>1, <2>2, <2>4 DEF TargetShape
    <3>2. ~AddedMarker(r)
      BY <1>1, <3>1, NamesApart DEF AddedMarker, Numbers
    <3>3. r.id = r.no
      <4>1. CASE ~Open
        BY <3>2, <4>1 DEF Adding, AddedRule
      <4>2. CASE Open
        <5>1. DirectiveShape'
          BY AddDirectiveShape
        <5>2. ~r.placeholder
          BY <3>2 DEF Adding, AddedRule
        <5>3. QED
          BY <1>1, <3>1, <5>1, <5>2 DEF DirectiveShape, Chain
      <4>3. QED
        BY <4>1, <4>2
    <3>4. c = 2
      BY <2>4, <3>1, <3>2, <3>3 DEF Adding, AddedRule
    <3>5. QED
      BY <1>1, <1>3, <2>4, <3>4
  <2>5. QED
    BY <1>1, <1>5, <2>3, <2>4
<1>6. QED
  BY <1>4, <1>5 DEF PlacedShape, Chain, Copied
-----------------------------------------------------------------------------
(* Entries of the array.                                                   *)

LEMMA EntryFacts ==
    ASSUME TypeInv, ConfigInv, NEW k \in 1..Len(rules), NEW d, d = rules[k].no
    PROVE  /\ d \in Given /\ d \in Nat /\ d > 0
           /\ rules[k].chained = directives[d].chained /\ rules[k].id = directives[d].id
           /\ ~rules[k].placeholder => /\ rules[k] = directives[d] /\ d \notin gone
                                       /\ ~directives[d].placeholder
           /\ rules[k].placeholder => /\ ~directives[d].chained
                                      /\ directives[d].placeholder \/ Chain(d) = d
<1>1. /\ d \in Given
      /\ \/ rules[k] = directives[d] /\ d \notin gone
         \/ /\ ~directives[d].placeholder /\ Chain(d) = d /\ ~directives[d].chained
            /\ rules[k] = Copied(d)
  BY DEF ConfigInv, EntryShape
<1>2. d \in Nat /\ d > 0
  BY <1>1, DirectiveTypes
<1>3. directives[d].placeholder => ~directives[d].chained
  BY <1>1 DEF ConfigInv, DirectiveShape
<1>4. CASE rules[k] = directives[d] /\ d \notin gone
  BY <1>1, <1>2, <1>3, <1>4
<1>5. CASE /\ ~directives[d].placeholder /\ Chain(d) = d /\ ~directives[d].chained
           /\ rules[k] = Copied(d)
  <2>1. /\ Copied(d).placeholder /\ Copied(d).id = directives[d].id
        /\ Copied(d).chained = directives[d].chained
    BY <1>1, CopiedFields
  <2>2. QED
    BY <1>1, <1>2, <1>5, <2>1
<1>6. QED
  BY <1>1, <1>4, <1>5

LEMMA OrderFacts ==
    ASSUME TypeInv, ConfigInv, NEW m \in 1..Len(rules), NEW n \in 1..Len(rules)
    PROVE  /\ rules[m].no \in Nat /\ rules[n].no \in Nat /\ m \in Nat /\ n \in Nat
           /\ m < n => rules[m].no <= rules[n].no
           /\ m <= n => rules[m].no <= rules[n].no
           /\ rules[m].no < rules[n].no => m < n
           /\ m < n /\ rules[m].no = rules[n].no =>
                 ~rules[m].placeholder /\ rules[n].placeholder
<1>1. rules[m].no \in Nat /\ rules[n].no \in Nat
  BY EntryFacts
<1>2. m \in Nat /\ n \in Nat
  BY DirectiveTypes
<1>3. m < n => Before(rules[m], rules[n])
  BY DEF ConfigInv, OrderShape
<1>4. n < m => Before(rules[n], rules[m])
  BY DEF ConfigInv, OrderShape
<1>5. m < n => /\ rules[m].no <= rules[n].no
               /\ rules[m].no = rules[n].no => ~rules[m].placeholder /\ rules[n].placeholder
  BY <1>1, <1>3 DEF Before
<1>6. n < m => rules[n].no <= rules[m].no
  BY <1>1, <1>4 DEF Before
<1>7. rules[m].no < rules[n].no => m < n
  <2>1. m < n \/ m = n \/ n < m
    BY <1>2
  <2>2. QED
    BY <1>1, <1>6, <2>1
<1>8. m <= n => rules[m].no <= rules[n].no
  <2>1. m <= n => m < n \/ m = n
    BY <1>2
  <2>2. QED
    BY <1>1, <1>5, <2>1
<1>9. QED
  BY <1>1, <1>2, <1>5, <1>7, <1>8

\* A chained directive goes on with the next one.
LEMMA ChainGoesOn ==
    ASSUME TypeInv, ConfigInv, NEW d \in Given, directives[d].chained, d < Len(directives)
    PROVE  /\ d + 1 \in Given /\ ~directives[d + 1].placeholder
           /\ Chain(d + 1) = Chain(d) /\ Chain(d + 1) # d + 1
           /\ (d + 1 \in gone <=> d \in gone)
<1>1. d \in Nat /\ d > 0 /\ Len(directives) \in Nat /\ d + 1 \in Given /\ d + 1 > 1
      /\ (d + 1) - 1 = d /\ ~directives[d].placeholder
  BY DirectiveTypes DEF Given, ConfigInv, DirectiveShape
<1>2. ~directives[d + 1].placeholder
  BY <1>1 DEF ConfigInv, MarkerShape
<1>3. Chain(d + 1) # d + 1 /\ Chain(d + 1) \in 1..(d + 1)
  BY <1>1, <1>2 DEF ConfigInv, ChainShape, DirectiveShape
<1>4. d \in Chain(d + 1) .. (d + 1) - 1
  BY <1>1, <1>3
<1>5. Chain(d) = Chain(d + 1)
  BY <1>1, <1>2, <1>4 DEF ConfigInv, ChainShape
<1>6. d + 1 \in gone <=> d \in gone
  BY <1>1, <1>2, <1>5 DEF ConfigInv, GoneShape
<1>7. QED
  BY <1>1, <1>2, <1>3, <1>5, <1>6

\* So does a chained entry.
LEMMA EntryGoesOn ==
    ASSUME TypeInv, ConfigInv, NEW k \in 1..Len(rules), rules[k].chained,
           NEW d, d = rules[k].no
    PROVE  /\ d \in Given /\ d \notin gone /\ rules[k] = directives[d]
           /\ directives[d].chained /\ ~directives[d].placeholder
           /\ k < Len(rules) => d < Len(directives) /\ rules[k + 1] = directives[d + 1]
           /\ k = Len(rules) => d = Len(directives)
<1>1. /\ d \in Given /\ d \notin gone /\ rules[k] = directives[d] /\ d \in Nat
      /\ directives[d].chained /\ ~directives[d].placeholder
      /\ Len(directives) \in Nat /\ d <= Len(directives) /\ Len(rules) \in Nat /\ k \in Nat
  <2>1. d \in Given /\ Len(directives) \in Nat /\ d \in Nat /\ d <= Len(directives)
    BY EntryFacts, DirectiveTypes DEF Given
  <2>2. QED
    BY <2>1, EntryFacts, DirectiveTypes
<1>2. ASSUME d < Len(directives)
      PROVE  k < Len(rules) /\ rules[k + 1] = directives[d + 1]
  <2>1. /\ d + 1 \in Given /\ ~directives[d + 1].placeholder /\ d + 1 \notin gone
        /\ directives[d + 1].no = d + 1
    BY <1>1, <1>2, ChainGoesOn DEF ConfigInv, DirectiveShape
  <2>2. PICK j \in 1..Len(rules) : rules[j] = directives[d + 1]
    BY <2>1 DEF ConfigInv, PlacedShape
  <2>3. rules[j].no = d + 1 /\ ~rules[j].placeholder
    BY <2>1, <2>2
  <2>4. k < j /\ j \in Nat
    <3>1. rules[k].no < rules[j].no
      <4>1. d \in Nat /\ d < d + 1
        BY <1>1
      <4>2. QED
        BY <2>3, <4>1
    <3>2. j \in Nat
      BY <1>1
    <3>3. QED
      BY <3>1, <3>2, OrderFacts
  <2>5. k + 1 \in 1..Len(rules) /\ k < Len(rules)
    BY <1>1, <2>4
  <2> DEFINE e == rules[k + 1].no
  <2>6. e \in Nat /\ d <= e
    <3>1. k < k + 1
      BY <1>1
    <3>2. QED
      BY <2>5, <3>1, OrderFacts
  <2>7. e # d
    <3> SUFFICES ASSUME e = d PROVE FALSE
      OBVIOUS
    <3>1. rules[k + 1].placeholder
      <4>1. k < k + 1
        BY <1>1
      <4>2. QED
        BY <2>5, <4>1, OrderFacts
    <3>2. ~directives[d].chained
      BY <2>5, <3>1, EntryFacts
    <3>3. QED
      BY <1>1, <3>2
  <2>8. j = k + 1
    <3> SUFFICES ASSUME k + 1 < j PROVE FALSE
      BY <1>1, <2>4
    <3>1. e <= d + 1
      BY <2>3, <2>5, OrderFacts
    <3>2. e = d + 1
      <4> HIDE DEF e
      <4>1. QED
        BY <1>1, <2>6, <2>7, <3>1
    <3>3. QED
      BY <2>3, <2>5, <3>2, OrderFacts
  <2>9. QED
    BY <2>2, <2>5, <2>8
<1>3. k < Len(rules) => d < Len(directives)
  <2> SUFFICES ASSUME k < Len(rules) PROVE d # Len(directives)
    BY <1>1
  <2> DEFINE e == rules[k + 1].no
  <2>1. k + 1 \in 1..Len(rules)
    BY <1>1
  <2>2. e \in Given /\ e \in Nat /\ d <= e
    BY <1>1, <2>1, OrderFacts, EntryFacts
  <2>3. e # d
    <3> SUFFICES ASSUME e = d PROVE FALSE
      OBVIOUS
    <3>1. rules[k + 1].placeholder
      <4>1. k < k + 1
        BY <1>1
      <4>2. QED
        BY <2>1, <4>1, OrderFacts
    <3>2. ~directives[d].chained
      BY <2>1, <3>1, EntryFacts
    <3>3. QED
      BY <1>1, <3>2
  <2>4. e <= Len(directives)
    BY <2>2, DirectiveTypes DEF Given
  <2>5. QED
    BY <1>1, <2>2, <2>3, <2>4
<1>4. QED
  BY <1>1, <1>2, <1>3
-----------------------------------------------------------------------------
(* Removal.                                                                *)

\* Between two lists: r is s without the places from a to b.
CutLeaves(r, s, a, b, S) ==
    /\ ListOf(r, S) /\ Len(r) \in Nat /\ Len(r) <= Len(s)
    /\ \A k \in 1..Len(r) : \E j \in 1..Len(s) : j \notin a..b /\ r[k] = s[j]
    /\ \A m, n \in 1..Len(r) : m < n =>
          \E j, l \in 1..Len(s) : j < l /\ r[m] = s[j] /\ r[n] = s[l]
    /\ \A j \in 1..Len(s) : j \notin a..b => \E k \in 1..Len(r) : r[k] = s[j]

LEMMA CutPlaces ==
    ASSUME NEW S, NEW s, ListOf(s, S), NEW a \in 1..Len(s), NEW b \in a..Len(s),
           NEW r, r = CutOut(s, a, b)
    PROVE  CutLeaves(r, s, a, b, S)
<1> DEFINE w == b - a + 1
           g(k) == IF k < a THEN k ELSE k + w
           ls == Len(s)
           lr == Len(r)
<1>1. /\ ListOf(r, S) /\ lr = ls - w
      /\ \A k \in 1..(a - 1) : r[k] = s[k]
      /\ \A k \in a..lr : r[k] = s[k + w]
  <2>1. /\ ListOf(r, S) /\ Len(r) = Len(s) - (b - a + 1)
        /\ \A k \in 1..(a - 1) : r[k] = s[k]
        /\ \A k \in a..Len(r) : r[k] = s[k + (b - a + 1)]
    BY ListCut
  <2>2. QED
    BY <2>1
<1>2. ls \in Nat /\ a \in 1..ls /\ b \in a..ls
  BY ListElement
<1> HIDE DEF ls, lr
<1>3. w \in Nat /\ w > 0 /\ lr \in Nat /\ lr <= ls
  BY <1>1, <1>2
<1>4. \A k \in 1..lr : /\ g(k) \in 1..ls /\ g(k) \notin a..b
                       /\ (k \in 1..(a - 1) /\ g(k) = k) \/ (k \in a..lr /\ g(k) = k + w)
  BY <1>1, <1>2, <1>3
<1>5. \A k \in 1..lr : r[k] = s[g(k)]
  BY <1>1, <1>4
<1>6. \A m, n \in 1..lr : m < n => g(m) < g(n)
  BY <1>1, <1>2, <1>3
<1>7. \A j \in 1..ls : j \notin a..b =>
         \/ j \in 1..lr /\ g(j) = j
         \/ j - w \in 1..lr /\ g(j - w) = j
  BY <1>1, <1>2, <1>3
<1> HIDE DEF g, w
<1>8. \A k \in 1..lr : \E j \in 1..ls : j \notin a..b /\ r[k] = s[j]
  BY <1>4, <1>5
<1>9. \A m, n \in 1..lr : m < n => \E j, l \in 1..ls : j < l /\ r[m] = s[j] /\ r[n] = s[l]
  BY <1>4, <1>5, <1>6
<1>10. \A j \in 1..ls : j \notin a..b => \E k \in 1..lr : r[k] = s[j]
  BY <1>5, <1>7
<1>11. QED
  BY <1>1, <1>3, <1>8, <1>9, <1>10 DEF ls, lr, CutLeaves

LEMMA SameGone ==
    ASSUME ConfigInv, UNCHANGED <<directives, gone, awaited, rules>>
    PROVE  ConfigInv'
<1>1. DirectiveShape' /\ ChainShape' /\ MarkerShape' /\ TargetShape'
  BY DEF ConfigInv, DirectiveShape, ChainShape, MarkerShape, TargetShape, Given, Chain
<1>2. GoneShape' /\ EntryShape'
  BY DEF ConfigInv, GoneShape, EntryShape, Given, Chain, Copied
<1>3. OrderShape' /\ PlacedShape'
  BY DEF ConfigInv, OrderShape, PlacedShape, Given, Chain, Copied, Before
<1>4. QED
  BY <1>1, <1>2, <1>3 DEF ConfigInv

\* The chain of rule no, in the array from place a to place b.
ChainAt(no, a, b) ==
    /\ a \in 1..Len(rules) /\ b \in a..Len(rules)
    /\ \A k \in a..b : ~rules[k].placeholder /\ Chain(rules[k].no) = no
    /\ \A k \in 1..Len(rules) : ~rules[k].placeholder /\ Chain(rules[k].no) = no => k \in a..b

LEMMA ChainIsAt ==
    ASSUME TypeInv, ConfigInv, gone = {}, NEW no \in Given, ~directives[no].placeholder,
           Chain(no) = no,
           NEW a \in 1..Len(rules), rules[a] = directives[no],
           NEW b, b = Min({k \in a..Len(rules) : ~rules[k].chained \/ k = Len(rules)})
    PROVE  ChainAt(no, a, b)
<1> DEFINE n == Len(rules)
           T == {k \in a..n : ~rules[k].chained \/ k = n}
<1>1. n \in Nat /\ a \in 1..n /\ no \in Nat /\ no > 0 /\ rules[a].no = no
      /\ ~rules[a].placeholder
  <2>1. directives[no].no = no
    BY DEF ConfigInv, DirectiveShape
  <2>2. QED
    BY <2>1, DirectiveTypes
<1>2. b \in T /\ \A k \in T : b <= k
  <2>1. T \subseteq Nat /\ n \in T
    BY <1>1
  <2>2. b = Min(T) /\ T # {}
    BY <2>1
  <2> HIDE DEF T
  <2>3. QED
    BY <2>1, <2>2, MinIs
<1>3. b \in a..n /\ (b < n => ~rules[b].chained) /\ b \in Nat
      /\ \A k \in a..n : k < b => rules[k].chained /\ k < n
  <2>1. b \in a..n /\ (~rules[b].chained \/ b = n)
    BY <1>2
  <2>2. b \in Nat /\ b <= n
    BY <1>1, <2>1
  <2>3. ASSUME NEW k \in a..n, k < b PROVE rules[k].chained /\ k < n
    <3>1. k \notin T
      BY <1>1, <1>2, <2>2, <2>3
    <3>2. QED
      BY <3>1, <1>1, <2>2, <2>3
  <2>4. QED
    BY <2>1, <2>2, <2>3
<1> DEFINE Good(k) == ~rules[k].placeholder /\ Chain(rules[k].no) = no
<1>4. \A k \in a..b : Good(k)
  <2> DEFINE Bad == {k \in a..b : ~Good(k)}
  <2> SUFFICES ASSUME Bad # {} PROVE FALSE
    OBVIOUS
  <2>1. Bad \subseteq Nat
    BY <1>1, <1>3
  <2>2. PICK m \in Bad : \A k \in Bad : m <= k
    <3> HIDE DEF Bad
    <3>1. QED
      BY <2>1, Least
  <2>3. m \in a..b /\ ~Good(m) /\ m # a
    BY <1>1, <2>2
  <2> DEFINE p == m - 1
  <2>4. p \in a..n /\ p \in a..b /\ p < b /\ p < m /\ p \in Nat /\ p + 1 = m
        /\ p \in 1..n
    BY <1>1, <1>3, <2>3
  <2>5. Good(p)
    <3>1. p \notin Bad
      BY <2>2, <2>3, <2>4, <1>1, <1>3
    <3>2. QED
      BY <2>4, <3>1
  <2>6. rules[p].chained /\ p < n
    BY <1>3, <2>4
  <2> DEFINE d == rules[p].no
  <2>7. /\ d \in Given /\ d < Len(directives) /\ rules[p + 1] = directives[d + 1]
        /\ directives[d].chained
    BY <2>4, <2>6, EntryGoesOn
  <2>8. /\ ~directives[d + 1].placeholder /\ Chain(d + 1) = Chain(d)
        /\ d + 1 \in Given /\ directives[d + 1].no = d + 1
    BY <2>7, ChainGoesOn DEF ConfigInv, DirectiveShape
  <2>9. Good(m)
    BY <2>4, <2>5, <2>7, <2>8
  <2>10. QED
    BY <2>3, <2>9
<1>5. ASSUME NEW k \in 1..n, Good(k) PROVE k \in a..b
  <2> DEFINE e == rules[k].no
  <2>1. e \in Given /\ e \in Nat /\ ~directives[e].placeholder /\ Chain(e) = no
    BY <1>5, EntryFacts
  <2>2. no \in 1..e
    BY <2>1 DEF ConfigInv, DirectiveShape
  <2>3. ~(k < a)
    <3> SUFFICES ASSUME k < a PROVE FALSE
      OBVIOUS
    <3>1. e <= rules[a].no
      BY OrderFacts
    <3>2. e = no
      BY <1>1, <2>1, <2>2, <3>1
    <3>3. rules[a].placeholder
      BY <1>1, <3>2, OrderFacts
    <3>4. QED
      BY <1>1, <3>3
  <2>4. ~(k > b)
    <3> SUFFICES ASSUME k > b PROVE FALSE
      OBVIOUS
    <3>1. b \in 1..n /\ b < k /\ b < n
      BY <1>1, <1>3
    <3> DEFINE l == rules[b].no
    <3>2. l \in Given /\ l \in Nat /\ ~directives[l].chained
      BY <1>3, <3>1, EntryFacts
    <3>3. no <= l
      <4>1. a <= b
        BY <1>1, <1>3
      <4>2. QED
        BY <1>1, <3>1, <4>1, OrderFacts
    <3>4. l <= e /\ (l = e => rules[k].placeholder)
      BY <3>1, OrderFacts
    <3>5. l # e
      BY <1>5, <3>4
    <3>6. l \in Chain(e) .. e - 1
      <4> HIDE DEF l, e
      <4>1. QED
        BY <1>1, <2>1, <3>2, <3>3, <3>4, <3>5
    <3>7. directives[l].chained
      BY <2>1, <3>6 DEF ConfigInv, ChainShape
    <3>8. QED
      BY <3>2, <3>7
  <2>5. QED
    BY <1>1, <1>3, <2>3, <2>4
<1>6. QED
  BY <1>1, <1>3, <1>4, <1>5 DEF ChainAt

\* What RemoveRule does to the array.
LEMMA RemoveRuleCuts ==
    ASSUME TypeInv, ConfigInv, NEW no \in Numbers, RemoveRule(no)
    PROVE  /\ gone = {} /\ ~Open /\ no \in Given /\ ~directives[no].placeholder
           /\ gone' = {d \in Given : Chain(d) = no}
           /\ UNCHANGED <<directives, awaited, stage, loop, engine, trace, rc>>
           /\ \/ Chain(no) # no /\ rules' = rules
              \/ \E a, b \in Nat : ChainAt(no, a, b) /\ rules' = CutOut(rules, a, b)
<1> DEFINE hits == {k \in 1..Len(rules) : ~rules[k].placeholder /\ rules[k].id = no}
           first == Min(hits)
           last == Min({k \in first..Len(rules) : ~rules[k].chained \/ k = Len(rules)})
<1>1. /\ gone = {} /\ TmpChainStarter = 0 /\ no \in Given /\ ~directives[no].placeholder
      /\ gone' = {d \in Given : Chain(d) = no}
      /\ UNCHANGED <<directives, awaited, stage, loop, engine, trace, rc>>
      /\ rules' = IF hits = {} THEN rules
                  ELSE SubSeq(rules, 1, first - 1) \o SubSeq(rules, last + 1, Len(rules))
  BY DEF RemoveRule, RemoveWithException, Given, Chain
<1>2. ~Open
  <2> SUFFICES ASSUME Open PROVE FALSE
    OBVIOUS
  <2>1. Len(directives) \in Given /\ directives[Len(directives)].chained
    BY DirectiveTypes DEF Open, Given
  <2>2. Chain(Len(directives)) \in 1..Len(directives)
    BY <2>1 DEF ConfigInv, DirectiveShape
  <2>3. Chain(Len(directives)) = 0
    BY <1>1, StarterIs DEF ConfigInv
  <2>4. QED
    BY <2>2, <2>3
<1>3. \A k \in hits : rules[k] = directives[no] /\ Chain(no) = no
  <2> TAKE k \in hits
  <2> DEFINE d == rules[k].no
  <2>1. /\ d \in Given /\ rules[k] = directives[d] /\ ~directives[d].placeholder
        /\ directives[d].id = no
    BY EntryFacts
  <2>2. no = IF Chain(d) = d THEN d ELSE None
    BY <2>1 DEF ConfigInv, DirectiveShape
  <2>3. d = no /\ Chain(d) = d
    BY <2>2, NamesApart
  <2>4. QED
    BY <2>1, <2>3
<1>4. CASE Chain(no) # no
  <2>1. hits = {}
    BY <1>3, <1>4
  <2>2. QED
    BY <1>1, <1>2, <1>4, <2>1
<1>5. CASE Chain(no) = no
  <2>1. PICK a \in 1..Len(rules) : rules[a] = directives[no]
    BY <1>1 DEF ConfigInv, PlacedShape
  <2>2. directives[no].id = no /\ directives[no].no = no
    BY <1>1, <1>5 DEF ConfigInv, DirectiveShape
  <2>3. a \in hits
    BY <1>1, <2>1, <2>2
  <2>4. \A k \in hits : k = a
    <3> SUFFICES ASSUME NEW k \in hits, k # a PROVE FALSE
      OBVIOUS
    <3>1. k \in 1..Len(rules) /\ ~rules[k].placeholder /\ ~rules[a].placeholder
          /\ rules[k].no = no /\ rules[a].no = no
      BY <1>1, <1>3, <2>1, <2>2
    <3>2. k \in Nat /\ a \in Nat
      BY DirectiveTypes
    <3>3. ~(k < a) /\ ~(a < k)
      BY <3>1, OrderFacts
    <3>4. QED
      BY <3>2, <3>3
  <2>5. first = a
    <3>1. hits = {a}
      BY <2>3, <2>4
    <3>2. a \in Nat
      BY DirectiveTypes
    <3>3. Min({a}) \in {a}
      BY <3>2, MinIs
    <3>4. QED
      BY <3>1, <3>3
  <2> DEFINE b == Min({k \in a..Len(rules) : ~rules[k].chained \/ k = Len(rules)})
  <2>6. ChainAt(no, a, b)
    BY <1>1, <1>5, <2>1, ChainIsAt
  <2>7. last = b /\ hits # {}
    BY <2>3, <2>5
  <2>8. rules' = CutOut(rules, a, b)
    BY <1>1, <2>5, <2>7 DEF CutOut
  <2> HIDE DEF b
  <2>9. a \in Nat /\ b \in Nat
    BY <2>6, DirectiveTypes DEF ChainAt
  <2>10. QED
    BY <1>1, <1>2, <2>6, <2>8, <2>9
<1>6. QED
  BY <1>4, <1>5

LEMMA RemoveRuleKeeps ==
    ASSUME TypeInv, ConfigInv, StartShape, NEW no \in Numbers, RemoveRule(no)
    PROVE  TypeInv' /\ ConfigInv'
<1>1. /\ gone = {} /\ ~Open /\ no \in Given /\ ~directives[no].placeholder
      /\ gone' = {d \in Given : Chain(d) = no}
      /\ UNCHANGED <<directives, awaited, stage, loop, engine, trace, rc>>
  BY RemoveRuleCuts
<1>2. UNCHANGED <<i, mode, skip, sawStarter, skipped>> /\ i = 1
  BY <1>1 DEF loop, RemoveRule, StartShape
<1>3. DirectiveShape' /\ ChainShape' /\ MarkerShape' /\ TargetShape'
  BY <1>1 DEF ConfigInv, DirectiveShape, ChainShape, MarkerShape, TargetShape, Given, Chain
<1>4. GoneShape'
  <2>1. /\ Given' = Given /\ directives' = directives
        /\ \A d \in Given : Chain(d)' = Chain(d)
    BY <1>1 DEF Given, Chain
  <2>2. ASSUME NEW d \in Given, directives[d].placeholder PROVE Chain(d) # no
    BY <1>1, <2>2, DirectiveTypes DEF ConfigInv, DirectiveShape
  <2>3. ASSUME NEW d \in Given, ~directives[d].placeholder
        PROVE  Chain(d) \in Given /\ Chain(Chain(d)) = Chain(d)
    <3>1. Chain(d) \in 1..d /\ Chain(Chain(d)) = Chain(d)
      BY <2>3 DEF ConfigInv, DirectiveShape, ChainShape
    <3>2. QED
      BY <3>1, DirectiveTypes DEF Given
  <2>4. ASSUME NEW d \in Given, directives[d].chained PROVE d < Len(directives)
    <3>1. Len(directives) \in Nat /\ d \in Nat /\ d > 0 /\ d <= Len(directives)
      BY DirectiveTypes DEF Given
    <3>2. d # Len(directives)
      BY <1>1, <2>4, <3>1 DEF Open
    <3>3. QED
      BY <3>1, <3>2
  <2>5. QED
    BY <1>1, <2>1, <2>2, <2>3, <2>4 DEF GoneShape
<1>5. CASE Chain(no) # no /\ rules' = rules
  <2>1. \A d \in Given : Chain(d) # no
    <3> SUFFICES ASSUME NEW d \in Given, Chain(d) = no PROVE FALSE
      OBVIOUS
    <3>1. CASE directives[d].placeholder
      BY <1>1, <3>1, DirectiveTypes DEF ConfigInv, DirectiveShape
    <3>2. CASE ~directives[d].placeholder
      BY <1>5, <3>2 DEF ConfigInv, ChainShape
    <3>3. QED
      BY <3>1, <3>2
  <2>2. gone' = gone
    BY <1>1, <2>1
  <2>3. TypeInv'
    BY <1>1, <1>2, <1>5 DEF TypeInv
  <2>4. QED
    BY <1>1, <1>5, <2>2, <2>3, SameGone
<1>6. ASSUME NEW a \in Nat, NEW b \in Nat, ChainAt(no, a, b), rules' = CutOut(rules, a, b)
      PROVE  TypeInv' /\ ConfigInv'
  <2>1. /\ ListOf(rules', RuleRecords) /\ Len(rules') \in Nat
        /\ \A k \in 1..Len(rules') :
              \E j \in 1..Len(rules) : j \notin a..b /\ rules'[k] = rules[j]
        /\ \A m, n \in 1..Len(rules') : m < n =>
              \E j, l \in 1..Len(rules) : j < l /\ rules'[m] = rules[j] /\ rules'[n] = rules[l]
        /\ \A j \in 1..Len(rules) : j \notin a..b =>
              \E k \in 1..Len(rules') : rules'[k] = rules[j]
    <3>1. /\ ListOf(rules, RuleRecords) /\ a \in 1..Len(rules) /\ b \in a..Len(rules)
      BY <1>6 DEF ChainAt, TypeInv
    <3> DEFINE r == rules'
    <3>2. r = CutOut(rules, a, b)
      BY <1>6
    <3> HIDE DEF r
    <3>3. CutLeaves(r, rules, a, b, RuleRecords)
      BY <3>1, <3>2, CutPlaces
    <3>4. QED
      BY <3>3 DEF r, CutLeaves
  <2>2. TypeInv'
    BY <1>1, <1>2, <2>1 DEF TypeInv
  <2>3. EntryShape'
    <3> SUFFICES ASSUME NEW k \in 1..Len(rules')
                 PROVE  LET d == rules'[k].no IN
                        /\ d \in Given
                        /\ \/ rules'[k] = directives[d] /\ d \notin gone'
                           \/ /\ ~directives[d].placeholder /\ Chain(d) = d
                              /\ ~directives[d].chained /\ rules'[k] = Copied(d)
      BY <1>1 DEF EntryShape, Given, Chain, Copied
    <3>1. PICK j \in 1..Len(rules) : j \notin a..b /\ rules'[k] = rules[j]
      BY <2>1
    <3> DEFINE d == rules[j].no
    <3>2. /\ d \in Given
          /\ \/ rules[j] = directives[d] /\ d \notin gone
             \/ /\ ~directives[d].placeholder /\ Chain(d) = d
                /\ ~directives[d].chained /\ rules[j] = Copied(d)
      BY DEF ConfigInv, EntryShape
    <3>3. ASSUME rules[j] = directives[d] PROVE d \notin gone'
      <4> SUFFICES ASSUME Chain(d) = no PROVE FALSE
        BY <1>1
      <4>1. CASE directives[d].placeholder
        BY <3>2, <4>1, DirectiveTypes, <1>1 DEF ConfigInv, DirectiveShape
      <4>2. CASE ~directives[d].placeholder
        BY <3>1, <3>3, <4>2, <1>6 DEF ChainAt
      <4>3. QED
        BY <4>1, <4>2
    <3>4. QED
      BY <3>1, <3>2, <3>3
  <2>4. OrderShape'
    <3> SUFFICES ASSUME NEW m \in 1..Len(rules'), NEW n \in 1..Len(rules'), m < n
                 PROVE  Before(rules'[m], rules'[n])
      BY DEF OrderShape, Before
    <3>1. PICK j \in 1..Len(rules), l \in 1..Len(rules) :
             j < l /\ rules'[m] = rules[j] /\ rules'[n] = rules[l]
      BY <2>1
    <3>2. Before(rules[j], rules[l])
      BY <3>1 DEF ConfigInv, OrderShape
    <3>3. QED
      BY <3>1, <3>2
  <2>5. PlacedShape'
    <3>1. ASSUME NEW d \in Given, d \notin gone'
          PROVE  \E k \in 1..Len(rules') : rules'[k] = directives[d]
      <4>1. PICK j \in 1..Len(rules) : rules[j] = directives[d]
        BY <1>1 DEF ConfigInv, PlacedShape
      <4>2. rules[j].no = d /\ Chain(d) # no
        BY <1>1, <3>1, <4>1 DEF ConfigInv, DirectiveShape
      <4>3. j \notin a..b
        BY <1>6, <4>2 DEF ChainAt
      <4>4. QED
        BY <2>1, <4>1, <4>3
    <3>2. ASSUME NEW t \in Given, NEW j \in 1..Len(rules), rules[j] = Copied(t)
          PROVE  \E k \in 1..Len(rules') : rules'[k] = Copied(t)
      <4>1. rules[j].placeholder
        BY <3>2, CopiedFields
      <4>2. j \notin a..b
        BY <1>6, <4>1 DEF ChainAt
      <4>3. QED
        BY <2>1, <3>2, <4>2
    <3>3. \A d \in Given : directives[d].skipAfter \in Given =>
             LET t == directives[d].skipAfter IN
             Chain(t) = t => \E k \in 1..Len(rules') : rules'[k] = Copied(t)
      BY <3>2 DEF ConfigInv, PlacedShape
    <3>4. QED
      BY <1>1, <3>1, <3>3 DEF PlacedShape, Given, Chain, Copied
  <2>6. QED
    BY <1>3, <1>4, <2>2, <2>3, <2>4, <2>5 DEF ConfigInv
<1>7. QED
  BY <1>5, <1>6, RemoveRuleCuts
-----------------------------------------------------------------------------
(* Rules, chains and units.                                                *)

\* The units that come after b.
UnitsAfter(b) == {u \in Units : u > b}

LEMMA UnitFacts ==
    ASSUME TypeInv, NEW b \in Nat
    PROVE  /\ UnitsAfter(b) \subseteq Given /\ IsFiniteSet(UnitsAfter(b))
           /\ End \in Nat
           /\ \A u \in UnitsAfter(b) : /\ u \in Nat /\ u < End /\ u > b /\ u > 0
                                       /\ ~directives[u].placeholder /\ Chain(u) = u
                                       /\ u \notin gone
<1>1. Given \subseteq Nat \ {0} /\ Len(directives) \in Nat /\ MaxDirectives \in Nat
  BY DirectiveTypes
<1>2. UnitsAfter(b) \subseteq Given
  BY DEF UnitsAfter, Units, Given
<1>3. IsFiniteSet(Given)
  BY <1>1, FS_Interval DEF Given
<1>4. IsFiniteSet(UnitsAfter(b))
  BY <1>2, <1>3, FS_Subset
<1>5. Len(directives) < End /\ End \in Nat
  BY <1>1 DEF End, TypeInv
<1>6. \A u \in Given : u < End
  BY <1>1, <1>5 DEF Given
<1>7. \A u \in UnitsAfter(b) : u > b /\ ~directives[u].placeholder /\ Chain(u) = u /\ u \notin gone
  BY DEF UnitsAfter, Units, Chain
<1>8. \A u \in Given : u \in Nat /\ u > 0
  BY <1>1
<1>9. \A u \in UnitsAfter(b) : u \in Nat /\ u < End /\ u > 0
  BY <1>2, <1>6, <1>8
<1>10. QED
  BY <1>2, <1>4, <1>5, <1>7, <1>9

\* The units after b with k units between.
Leaving(b, k) == {u \in UnitsAfter(b) : Cardinality({w \in UnitsAfter(b) : w < u}) = k}

LEMMA UnitAfterIs ==
    ASSUME NEW b, NEW k
    PROVE  UnitAfter(b, k) = Min({End} \cup Leaving(b, k))
  BY DEF UnitAfter, Leaving, UnitsAfter

LEMMA NoUnits ==
    ASSUME TypeInv, NEW b \in Nat, NEW k, UnitsAfter(b) = {}
    PROVE  UnitAfter(b, k) = End
<1>1. Leaving(b, k) = {} /\ End \in Nat
  BY UnitFacts DEF Leaving
<1>2. Min({End}) = End
  <2>1. {End} \subseteq Nat /\ {End} # {}
    BY <1>1
  <2>2. QED
    BY <2>1, MinIs
<1>3. {End} \cup Leaving(b, k) = {End}
  BY <1>1
<1>4. QED
  BY <1>2, <1>3, UnitAfterIs

LEMMA NextUnit ==
    ASSUME TypeInv, NEW b \in Nat
    PROVE  IsFirst(UnitAfter(b, 0), UnitsAfter(b))
<1>1. CASE UnitsAfter(b) = {}
  BY <1>1, NoUnits DEF IsFirst
<1>2. CASE UnitsAfter(b) # {}
  <2> DEFINE U == UnitsAfter(b)
  <2>1. U \subseteq Nat /\ IsFiniteSet(U) /\ End \in Nat /\ \A u \in U : u < End
    BY UnitFacts
  <2>2. PICK m \in U : \A u \in U : m <= u
    BY <1>2, <2>1, Least
  <2>3. ASSUME NEW u \in U PROVE u \in Leaving(b, 0) <=> u = m
    <3>1. IsFiniteSet({w \in U : w < u})
      BY <2>1, FS_Subset
    <3>2. Cardinality({w \in U : w < u}) = 0 <=> {w \in U : w < u} = {}
      BY <3>1, FS_EmptySet
    <3>3. {w \in U : w < u} = {} <=> u = m
      BY <2>1, <2>2
    <3>4. QED
      BY <3>2, <3>3 DEF Leaving
  <2>4. {End} \cup Leaving(b, 0) = {End, m}
    BY <2>2, <2>3 DEF Leaving
  <2>5. Min({End, m}) = m
    <3>1. {End, m} \subseteq Nat /\ {End, m} # {} /\ m < End /\ m \in Nat
      BY <2>1, <2>2
    <3>2. Min({End, m}) \in {End, m} /\ \A k1 \in {End, m} : Min({End, m}) <= k1
      BY <3>1, MinIs
    <3> DEFINE x == Min({End, m})
    <3>3. (x = End \/ x = m) /\ x <= m
      BY <3>2
    <3> HIDE DEF x
    <3>4. x = m
      BY <3>1, <3>3, <2>1
    <3>5. QED
      BY <3>4 DEF x
  <2>6. QED
    BY <2>2, <2>4, <2>5, UnitAfterIs DEF IsFirst
<1>3. QED
  BY <1>1, <1>2

\* Behind a directive that wants no other, the next rule starts a unit.
LEMMA HeadsFirst ==
    ASSUME TypeInv, ConfigInv, NEW b \in Nat, b > 0 => b \in Given /\ ~directives[b].chained,
           NEW s \in RulesAfter(b)
    PROVE  /\ Chain(s) \in UnitsAfter(b) /\ Chain(s) <= s /\ Chain(s) \in RulesAfter(b)
<1> DEFINE h == Chain(s)
<1>1. s \in Given /\ s \in Nat /\ s > b /\ ~directives[s].placeholder /\ s \notin gone
  BY DirectiveTypes DEF RulesAfter
<1>2. h \in 1..s /\ ~directives[h].placeholder /\ Chain(h) = h
  BY <1>1 DEF ConfigInv, DirectiveShape, ChainShape
<1>3. h \in Given /\ h \in Nat /\ h <= s
  BY <1>1, <1>2, DirectiveTypes DEF Given
<1>4. h \notin gone
  BY <1>1 DEF ConfigInv, GoneShape
<1>5. h > b
  <2> SUFFICES ASSUME h <= b PROVE FALSE
    BY <1>3
  <2>1. b \in h .. s - 1 /\ b > 0
    BY <1>1, <1>2, <1>3
  <2>2. directives[b].chained
    BY <1>1, <2>1 DEF ConfigInv, ChainShape
  <2>3. QED
    BY <2>1, <2>2
<1>6. QED
  BY <1>2, <1>3, <1>4, <1>5 DEF UnitsAfter, Units, RulesAfter, Given, Chain

LEMMA FirstAfter ==
    ASSUME TypeInv, ConfigInv, NEW b \in Nat, b > 0 => b \in Given /\ ~directives[b].chained
    PROVE  IsFirst(UnitAfter(b, 0), RulesAfter(b))
<1>1. IsFirst(UnitAfter(b, 0), UnitsAfter(b))
  BY NextUnit
<1>2. UnitsAfter(b) \subseteq RulesAfter(b)
  BY UnitFacts DEF RulesAfter
<1>3. \A s \in RulesAfter(b) : Chain(s) \in UnitsAfter(b) /\ Chain(s) <= s
  BY HeadsFirst
<1>4. \A s \in RulesAfter(b) : s \in Nat
  BY DirectiveTypes DEF RulesAfter
<1>5. \A u \in UnitsAfter(b) : u \in Nat
  BY UnitFacts
<1> DEFINE e == UnitAfter(b, 0)
<1>6. CASE UnitsAfter(b) = {}
  BY <1>1, <1>3, <1>6 DEF IsFirst
<1>7. CASE UnitsAfter(b) # {}
  <2>1. e \in UnitsAfter(b) /\ \A u \in UnitsAfter(b) : e <= u
    BY <1>1, <1>7 DEF IsFirst
  <2>2. ASSUME NEW s \in RulesAfter(b) PROVE e <= s
    <3>1. e <= Chain(s) /\ Chain(s) <= s /\ Chain(s) \in Nat /\ s \in Nat /\ e \in Nat
      BY <1>3, <1>4, <1>5, <2>1
    <3> HIDE DEF e
    <3>2. QED
      BY <3>1
  <2>3. QED
    BY <1>2, <2>1, <2>2 DEF IsFirst
<1>8. QED
  BY <1>6, <1>7


\* The last directive of a chain.
LEMMA ChainEnds ==
    ASSUME TypeInv, ConfigInv, NEW d \in Given, ~directives[d].placeholder,
           NEW l, l = ChainEnd(d)
    PROVE  /\ l \in Given /\ l \in Nat /\ l >= d /\ Chain(l) = Chain(d)
           /\ \A e \in Given : Chain(e) = Chain(d) => e <= l
<1> DEFINE T == {d} \cup {e \in Given : Chain(e) = Chain(d)}
<1>1. l = Max(T)
  BY DEF ChainEnd, Given, Chain
<1>2. T \subseteq 0..Len(directives) /\ T # {} /\ Len(directives) \in Nat
  BY DirectiveTypes DEF Given
<1>3. l \in T /\ \A e \in T : l >= e
  <2> HIDE DEF T
  <2>1. QED
    BY <1>1, <1>2, MaxIs
<1>4. l \in Given /\ Chain(l) = Chain(d)
  BY <1>3
<1>5. l \in Nat /\ l >= d /\ \A e \in Given : e \in Nat
  BY <1>3, <1>4, DirectiveTypes
<1>6. \A e \in Given : Chain(e) = Chain(d) => e <= l
  BY <1>3, <1>5
<1>7. QED
  BY <1>4, <1>5, <1>6

LEMMA MarkerEnds ==
    ASSUME TypeInv, NEW d \in Given, directives[d].placeholder
    PROVE  ChainEnd(d) = d
<1>1. ChainEnd(d) = Max({d})
  <2>1. {e \in 1..Len(directives) :
           ~directives[d].placeholder /\ directives[e].head = directives[d].head} = {}
    OBVIOUS
  <2>2. {d} \cup {} = {d}
    OBVIOUS
  <2>3. QED
    BY <2>1, <2>2 DEF ChainEnd
<1>2. Max({d}) \in {d}
  <2>1. {d} \subseteq 0..Len(directives) /\ {d} # {} /\ Len(directives) \in Nat
    BY DirectiveTypes DEF Given
  <2>2. QED
    BY <2>1, MaxIs
<1>3. QED
  BY <1>1, <1>2

LEMMA SingleEnds ==
    ASSUME TypeInv, ConfigInv, NEW d \in Given, ~directives[d].chained
    PROVE  ChainEnd(d) = d
<1>1. CASE directives[d].placeholder
  BY <1>1, MarkerEnds
<1>2. CASE ~directives[d].placeholder
  <2> DEFINE l == ChainEnd(d)
  <2>1. l \in Given /\ l \in Nat /\ l >= d /\ Chain(l) = Chain(d) /\ d \in Nat
    BY <1>2, ChainEnds, DirectiveTypes
  <2>2. Chain(d) \in 1..d
    BY <1>2 DEF ConfigInv, DirectiveShape
  <2>3. ~directives[l].placeholder
    <3> SUFFICES ASSUME directives[l].placeholder PROVE FALSE
      OBVIOUS
    <3>1. Chain(l) = 0
      BY <2>1 DEF ConfigInv, DirectiveShape
    <3>2. QED
      BY <2>1, <2>2, <3>1
  <2> HIDE DEF l
  <2>4. ASSUME l # d PROVE FALSE
    <3>1. d \in Chain(l) .. l - 1
      BY <2>1, <2>2, <2>4
    <3>2. QED
      BY <2>1, <2>3, <3>1 DEF ConfigInv, ChainShape
  <2>5. QED
    BY <2>4 DEF l
<1>3. QED
  BY <1>1, <1>2

\* A chained directive is the last one of its chain only at the end.
LEMMA ChainedEnds ==
    ASSUME TypeInv, ConfigInv, NEW d \in Given, directives[d].chained
    PROVE  /\ d < Len(directives) => d < ChainEnd(d) /\ ChainEnd(d + 1) = ChainEnd(d)
           /\ d = Len(directives) => ChainEnd(d) = d
<1>1. ~directives[d].placeholder /\ d \in Nat /\ Len(directives) \in Nat
  BY DirectiveTypes DEF ConfigInv, DirectiveShape
<1> DEFINE l == ChainEnd(d)
<1>2. /\ l \in Given /\ l \in Nat /\ l >= d /\ Chain(l) = Chain(d)
      /\ \A e \in Given : Chain(e) = Chain(d) => e <= l
  BY <1>1, ChainEnds
<1>3. CASE d < Len(directives)
  <2>1. d + 1 \in Given /\ ~directives[d + 1].placeholder /\ Chain(d + 1) = Chain(d)
    BY <1>3, ChainGoesOn
  <2> DEFINE m == ChainEnd(d + 1)
  <2>2. /\ m \in Given /\ m \in Nat /\ m >= d + 1 /\ Chain(m) = Chain(d + 1)
        /\ \A e \in Given : Chain(e) = Chain(d + 1) => e <= m
    BY <2>1, ChainEnds
  <2> HIDE DEF l, m
  <2>3. l <= m /\ m <= l
    BY <1>2, <2>1, <2>2
  <2>4. l = m /\ d < l
    BY <1>1, <1>2, <2>2, <2>3
  <2>5. QED
    BY <1>3, <1>1, <2>4 DEF l, m
<1>4. CASE d = Len(directives)
  <2>1. l <= Len(directives)
    BY <1>2 DEF Given
  <2> HIDE DEF l
  <2>2. l = d
    BY <1>1, <1>2, <1>4, <2>1
  <2>3. QED
    BY <1>1, <1>4, <2>2 DEF l
<1>5. QED
  <2>1. d <= Len(directives)
    BY <1>1 DEF Given
  <2>2. d < Len(directives) \/ d = Len(directives)
    BY <1>1, <2>1
  <2>3. QED
    BY <1>1, <2>2, <1>3, <1>4

\* The next rule of a chain.
LEMMA NextInChain ==
    ASSUME TypeInv, ConfigInv, NEW d \in Given, directives[d].chained, d \notin gone
    PROVE  IsFirst(IF d < ChainEnd(d) THEN d + 1 ELSE End, RulesAfter(d))
<1>1. d \in Nat /\ Len(directives) \in Nat /\ d <= Len(directives)
  BY DirectiveTypes DEF Given
<1>2. \A s \in RulesAfter(d) : s \in Nat /\ s > d /\ s <= Len(directives)
  BY DirectiveTypes DEF RulesAfter, Given
<1>3. CASE d < Len(directives)
  <2>1. d + 1 \in Given /\ ~directives[d + 1].placeholder /\ d + 1 \notin gone
    BY <1>3, ChainGoesOn
  <2>2. d + 1 \in RulesAfter(d)
    BY <1>1, <2>1 DEF RulesAfter
  <2>3. \A s \in RulesAfter(d) : d + 1 <= s
    BY <1>1, <1>2
  <2>4. d < ChainEnd(d)
    BY <1>3, ChainedEnds
  <2>5. QED
    BY <2>2, <2>3, <2>4 DEF IsFirst
<1>4. CASE d = Len(directives)
  <2>1. ChainEnd(d) = d
    BY <1>4, ChainedEnds
  <2>2. RulesAfter(d) = {}
    BY <1>1, <1>2, <1>4
  <2>3. ~(d < ChainEnd(d))
    BY <1>1, <2>1
  <2>4. QED
    BY <2>2, <2>3 DEF IsFirst
<1>5. QED
  <2>1. d < Len(directives) \/ d = Len(directives)
    BY <1>1
  <2>2. QED
    BY <2>1, <1>3, <1>4

\* Leaving out a unit.
LEMMA OneUnitLess ==
    ASSUME TypeInv, ConfigInv, NEW b \in Nat, NEW u \in UnitsAfter(b),
           \A v \in UnitsAfter(b) : u <= v, NEW k \in Nat, k > 0
    PROVE  UnitAfter(b, k) = UnitAfter(ChainEnd(u), k - 1)
<1> DEFINE U == UnitsAfter(b)
           l == ChainEnd(u)
           V == UnitsAfter(l)
<1>1. /\ u \in Given /\ u \in Nat /\ u > b /\ ~directives[u].placeholder /\ Chain(u) = u
      /\ U \subseteq Given /\ IsFiniteSet(U) /\ \A v \in U : v \in Nat
  BY UnitFacts
<1>2. l \in Given /\ l \in Nat /\ l >= u /\ Chain(l) = u
      /\ \A e \in Given : Chain(e) = u => e <= l
  BY <1>1, ChainEnds
<1>3. V = U \ {u}
  <2>1. ASSUME NEW v \in V PROVE v \in U /\ v # u
    <3>1. v \in Units /\ v > l /\ v \in Nat
      BY <1>2, UnitFacts DEF UnitsAfter
    <3> HIDE DEF l
    <3>2. v > b /\ v # u
      BY <1>1, <1>2, <3>1
    <3>3. QED
      BY <3>1, <3>2 DEF UnitsAfter
  <2>2. ASSUME NEW v \in U, v # u PROVE v \in V
    <3>1. v \in Units /\ v \in Nat /\ Chain(v) = v /\ u < v
      <4>1. u <= v /\ v \in Nat /\ Chain(v) = v
        BY UnitFacts
      <4>2. QED
        BY <1>1, <2>2, <4>1 DEF UnitsAfter
    <3>2. v > l
      <4> SUFFICES ASSUME v <= l PROVE FALSE
        BY <1>2, <3>1
      <4>1. v # l
        BY <1>2, <3>1, <2>2
      <4>2. v \in Chain(l) .. l - 1
        <5> HIDE DEF l
        <5>1. QED
          BY <1>1, <1>2, <3>1, <4>1
      <4>3. ~directives[l].placeholder
        <5> SUFFICES ASSUME directives[l].placeholder PROVE FALSE
          OBVIOUS
        <5>1. Chain(l) = 0
          BY <1>2 DEF ConfigInv, DirectiveShape
        <5>2. QED
          BY <1>1, <1>2, <5>1
      <4>4. Chain(v) = u
        BY <1>2, <4>2, <4>3 DEF ConfigInv, ChainShape
      <4>5. QED
        BY <3>1, <4>4
    <3>3. QED
      BY <3>1, <3>2 DEF UnitsAfter
  <2>3. QED
    BY <2>1, <2>2
<1> HIDE DEF U, V, l
<1>4. IsFiniteSet(V)
  BY <1>1, <1>3, FS_Subset
<1>5. Leaving(b, k) = {v \in U : Cardinality({w \in U : w < v}) = k}
  BY DEF Leaving, U
<1>6. Leaving(l, k - 1) = {v \in V : Cardinality({w \in V : w < v}) = k - 1}
  BY DEF Leaving, V
<1>7. u \in U /\ \A v \in U : u <= v
  BY DEF U
<1>8. Cardinality({w \in U : w < u}) # k
  <2>1. \A w \in U : ~(w < u)
    <3> SUFFICES ASSUME NEW w \in U PROVE ~(w < u)
      OBVIOUS
    <3>1. u <= w /\ w \in Nat /\ u \in Nat
      BY <1>1, <1>7 DEF U
    <3>2. QED
      BY <3>1
  <2>2. {w \in U : w < u} = {}
    BY <2>1
  <2>3. QED
    BY <2>2, FS_EmptySet
<1>9. ASSUME NEW v \in V
      PROVE  Cardinality({w \in U : w < v}) = k <=> Cardinality({w \in V : w < v}) = k - 1
  <2> DEFINE A == {w \in U : w < v}
             B == {w \in V : w < v}
  <2>1. v \in U /\ v # u /\ u < v
    BY <1>1, <1>3, <1>7
  <2>2. A = B \cup {u} /\ u \notin B
    BY <1>3, <1>7, <2>1
  <2>3. IsFiniteSet(B)
    BY <1>4, FS_Subset
  <2> HIDE DEF A, B
  <2>4. Cardinality(A) = Cardinality(B) + 1 /\ Cardinality(B) \in Nat
    BY <2>2, <2>3, FS_AddElement, FS_CardinalityType
  <2>5. Cardinality(A) = k <=> Cardinality(B) = k - 1
    BY <2>4
  <2>6. QED
    BY <2>5 DEF A, B
<1>10. Leaving(b, k) = Leaving(l, k - 1)
  <2>1. ASSUME NEW v \in Leaving(b, k) PROVE v \in Leaving(l, k - 1)
    <3>1. v \in U /\ Cardinality({w \in U : w < v}) = k
      BY <1>5
    <3>2. v \in V
      BY <1>3, <1>8, <3>1
    <3>3. QED
      BY <1>6, <1>9, <3>1, <3>2
  <2>2. ASSUME NEW v \in Leaving(l, k - 1) PROVE v \in Leaving(b, k)
    <3>1. v \in V /\ Cardinality({w \in V : w < v}) = k - 1
      BY <1>6
    <3>2. v \in U
      BY <1>3, <3>1
    <3>3. QED
      BY <1>5, <1>9, <3>1, <3>2
  <2>3. QED
    BY <2>1, <2>2
<1>11. QED
  BY <1>10, UnitAfterIs DEF l
-----------------------------------------------------------------------------
(* Where the loop is.                                                      *)

LEMMA HereFacts ==
    ASSUME TypeInv, ConfigInv
    PROVE  /\ Here \in Nat /\ i \in Nat /\ i >= 1 /\ Len(rules) \in Nat
           /\ i <= Len(rules) + 1 /\ InChain \in BOOLEAN
           /\ i = 1 => Here = 0
           /\ i > 1 => /\ i - 1 \in 1..Len(rules) /\ Here = rules[i - 1].no
                       /\ Here \in Given /\ Here > 0
                       /\ rules[i - 1].chained = directives[Here].chained
           /\ Here > 0 => i > 1
           /\ InChain => i > 1 /\ directives[Here].chained
           /\ Here > 0 /\ ~InChain => Here \in Given /\ ~directives[Here].chained
<1>1. i \in Nat /\ i >= 1 /\ Len(rules) \in Nat /\ i <= Len(rules) + 1
  BY DirectiveTypes DEF TypeInv
<1>2. i = 1 => Here = 0
  BY DEF Here
<1>3. ASSUME i > 1
      PROVE  /\ i - 1 \in 1..Len(rules) /\ Here = rules[i - 1].no
             /\ Here \in Given /\ Here > 0 /\ Here \in Nat
             /\ rules[i - 1].chained = directives[Here].chained
  <2>1. i - 1 \in 1..Len(rules) /\ Here = rules[i - 1].no
    BY <1>1, <1>3 DEF Here
  <2>2. QED
    BY <2>1, EntryFacts
<1>4. i = 1 \/ i > 1
  BY <1>1
<1>5. Here \in Nat /\ (Here > 0 => i > 1)
  BY <1>2, <1>3, <1>4
<1>6. InChain \in BOOLEAN
  <2>1. CASE Here > 0
    <3>1. directives[Here] \in RuleRecords
      BY <1>3, <1>5, <2>1, DirectiveTypes
    <3>2. QED
      BY <2>1, <3>1 DEF InChain, ChainedAt, RuleRecords
  <2>2. QED
    BY <2>1 DEF InChain, ChainedAt
<1>7. QED
  BY <1>1, <1>2, <1>3, <1>5, <1>6 DEF InChain, ChainedAt

\* The loop is at an entry of directive d.
At(d) == i \in 1..Len(rules) /\ d = rules[i].no

LEMMA AtIs ==
    ASSUME TypeInv, ConfigInv, AtRule
    PROVE  At(rules[i].no) /\ rules[i].no \in Given
<1>1. i \in 1..Len(rules)
  BY HereFacts DEF AtRule
<1>2. QED
  BY <1>1, EntryFacts DEF At

LEMMA EntryOf ==
    ASSUME TypeInv, ConfigInv, NEW b \in Nat, NEW s \in RulesAfter(b)
    PROVE  \E j \in 1..Len(rules) : /\ rules[j] = directives[s] /\ rules[j].no = s
                                    /\ ~rules[j].placeholder
<1>1. s \in Given /\ s \notin gone /\ ~directives[s].placeholder
  BY DEF RulesAfter
<1>2. \E j \in 1..Len(rules) : rules[j] = directives[s]
  BY <1>1 DEF ConfigInv, PlacedShape
<1>3. directives[s].no = s
  BY <1>1 DEF ConfigInv, DirectiveShape
<1>4. QED
  BY <1>1, <1>2, <1>3

\* Entries behind the loop.
LEMMA Passed ==
    ASSUME TypeInv, ConfigInv, NEW j \in 1..Len(rules), j < i
    PROVE  rules[j].no <= Here
<1>1. i > 1 /\ i - 1 \in 1..Len(rules) /\ Here = rules[i - 1].no /\ j \in Nat /\ j <= i - 1
  BY HereFacts
<1>2. QED
  BY <1>1, OrderFacts

\* The loop reaches the next rule.
LEMMA AtNextRule ==
    ASSUME TypeInv, ConfigInv, NEW d, At(d), ~rules[i].placeholder
    PROVE  /\ rules[i] = directives[d] /\ d \in RulesAfter(Here) /\ d \in Nat /\ d > 0
           /\ \A s \in RulesAfter(Here) : d <= s
           /\ Here < d /\ IsFirst(d, RulesAfter(Here))
<1>1. i \in 1..Len(rules) /\ d = rules[i].no /\ i \in Nat /\ Here \in Nat
  BY HereFacts DEF At
<1>2. /\ rules[i] = directives[d] /\ d \in Given /\ d \notin gone /\ d \in Nat /\ d > 0
      /\ ~directives[d].placeholder
  BY <1>1, EntryFacts
<1>3. Here < d
  <2>1. CASE i = 1
    BY <2>1, <1>2, HereFacts
  <2>2. CASE i > 1
    <3>1. i - 1 \in 1..Len(rules) /\ Here = rules[i - 1].no /\ i - 1 < i
      BY <1>1, <2>2, HereFacts
    <3>2. Here <= d /\ (Here = d => rules[i].placeholder)
      BY <1>1, <3>1, OrderFacts
    <3>3. QED
      BY <1>1, <1>2, <3>2
  <2>3. QED
    BY <2>1, <2>2, HereFacts
<1>4. d \in RulesAfter(Here)
  BY <1>2, <1>3 DEF RulesAfter
<1>5. ASSUME NEW s \in RulesAfter(Here) PROVE d <= s
  <2>1. s \in Nat /\ s > Here
    BY DirectiveTypes DEF RulesAfter
  <2>2. PICK j \in 1..Len(rules) : rules[j].no = s
    BY <1>1, EntryOf
  <2>3. ~(j < i)
    <3> SUFFICES ASSUME j < i PROVE FALSE
      OBVIOUS
    <3>1. s <= Here
      BY <2>2, Passed
    <3>2. QED
      BY <1>1, <2>1, <3>1
  <2>4. i <= j
    BY <1>1, <2>3, DirectiveTypes
  <2>5. QED
    BY <1>1, <2>2, <2>4, OrderFacts
<1>6. QED
  BY <1>2, <1>3, <1>4, <1>5 DEF IsFirst

\* It passes a placeholder.
LEMMA AtPlaceholder ==
    ASSUME TypeInv, ConfigInv, NEW d, At(d), rules[i].placeholder
    PROVE  /\ d \in Given /\ d \in Nat /\ d > 0 /\ Here <= d
           /\ ~directives[d].chained /\ RulesAfter(d) = RulesAfter(Here)
           /\ ~InChain
<1>1. i \in 1..Len(rules) /\ d = rules[i].no /\ i \in Nat /\ Here \in Nat
  BY HereFacts DEF At
<1>2. d \in Given /\ d \in Nat /\ d > 0 /\ ~directives[d].chained
  BY <1>1, EntryFacts
<1>3. Here <= d
  <2>1. CASE i = 1
    BY <2>1, <1>2, HereFacts
  <2>2. CASE i > 1
    <3>1. i - 1 \in 1..Len(rules) /\ Here = rules[i - 1].no /\ i - 1 < i
      BY <1>1, <2>2, HereFacts
    <3>2. QED
      BY <1>1, <3>1, OrderFacts
  <2>3. QED
    BY <2>1, <2>2, HereFacts
<1>4. ASSUME NEW s \in RulesAfter(Here) PROVE s > d
  <2>1. s \in Nat /\ s > Here
    BY DirectiveTypes DEF RulesAfter
  <2>2. PICK j \in 1..Len(rules) : rules[j].no = s /\ ~rules[j].placeholder
    BY <1>1, EntryOf
  <2>3. ~(j < i)
    <3> SUFFICES ASSUME j < i PROVE FALSE
      OBVIOUS
    <3>1. s <= Here
      BY <2>2, Passed
    <3>2. QED
      BY <1>1, <2>1, <3>1
  <2>4. j # i /\ j \in Nat
    BY <2>2, DirectiveTypes
  <2>5. i < j
    BY <1>1, <2>3, <2>4
  <2>6. d <= s /\ (d = s => ~rules[i].placeholder)
    BY <1>1, <2>2, <2>5, OrderFacts
  <2>7. QED
    BY <1>2, <2>1, <2>6
<1>5. RulesAfter(d) = RulesAfter(Here)
  <2>1. ASSUME NEW s \in RulesAfter(d) PROVE s \in RulesAfter(Here)
    <3>1. s \in Nat /\ s > d
      BY DirectiveTypes DEF RulesAfter
    <3>2. s > Here
      BY <1>1, <1>2, <1>3, <3>1
    <3>3. QED
      BY <3>2 DEF RulesAfter
  <2>2. ASSUME NEW s \in RulesAfter(Here) PROVE s \in RulesAfter(d)
    BY <1>4 DEF RulesAfter
  <2>3. QED
    BY <2>1, <2>2
<1>6. ~InChain
  <2> SUFFICES ASSUME InChain PROVE FALSE
    BY HereFacts
  <2>1. i - 1 \in 1..Len(rules) /\ Here = rules[i - 1].no /\ rules[i - 1].chained
    BY HereFacts
  <2>2. i - 1 < Len(rules) /\ (i - 1) + 1 = i
    BY <1>1, <2>1
  <2>3. rules[i] = directives[Here + 1] /\ Here \in Given /\ Here < Len(directives)
    BY <2>1, <2>2, EntryGoesOn
  <2>4. ~directives[Here + 1].placeholder
    BY <2>3, ChainGoesOn, HereFacts
  <2>5. QED
    BY <2>3, <2>4
<1>7. QED
  BY <1>2, <1>3, <1>5, <1>6

\* Inside a chain it reaches the next rule of that chain.
LEMMA AtChain ==
    ASSUME TypeInv, ConfigInv, NEW d, At(d), InChain
    PROVE  /\ d = Here + 1 /\ Here \in Given /\ Here < Len(directives) /\ d \in Given
           /\ ~rules[i].placeholder /\ Chain(d) = Chain(Here) /\ Chain(d) # d
           /\ ChainEnd(d) = ChainEnd(Here)
<1>1. i \in 1..Len(rules) /\ d = rules[i].no /\ i \in Nat /\ Here \in Nat
  BY HereFacts DEF At
<1>2. /\ i - 1 \in 1..Len(rules) /\ Here = rules[i - 1].no /\ rules[i - 1].chained
      /\ directives[Here].chained
  BY HereFacts
<1>3. i - 1 < Len(rules) /\ (i - 1) + 1 = i
  BY <1>1, <1>2
<1>4. rules[i] = directives[Here + 1] /\ Here \in Given /\ Here < Len(directives)
  BY <1>2, <1>3, EntryGoesOn
<1>5. /\ Here + 1 \in Given /\ ~directives[Here + 1].placeholder
      /\ Chain(Here + 1) = Chain(Here) /\ Chain(Here + 1) # Here + 1
  BY <1>2, <1>4, ChainGoesOn
<1>6. directives[Here + 1].no = Here + 1
  BY <1>5 DEF ConfigInv, DirectiveShape
<1>7. ChainEnd(Here + 1) = ChainEnd(Here)
  BY <1>2, <1>4, ChainedEnds
<1>8. QED
  BY <1>1, <1>4, <1>5, <1>6, <1>7

\* Outside of one it reaches the head of one.
LEMMA AtHead ==
    ASSUME TypeInv, ConfigInv, NEW d, At(d), ~rules[i].placeholder, ~InChain
    PROVE  Chain(d) = d /\ d \in UnitsAfter(Here) /\ \A u \in UnitsAfter(Here) : d <= u
<1>1. d \in RulesAfter(Here) /\ d \in Nat /\ \A s \in RulesAfter(Here) : d <= s
  BY AtNextRule
<1>2. Here \in Nat /\ (Here > 0 => Here \in Given /\ ~directives[Here].chained)
  BY HereFacts
<1>3. Chain(d) \in UnitsAfter(Here) /\ Chain(d) <= d /\ Chain(d) \in RulesAfter(Here)
  BY <1>1, <1>2, HeadsFirst
<1>4. Chain(d) \in Nat /\ d <= Chain(d)
  BY <1>1, <1>2, <1>3, UnitFacts
<1>5. Chain(d) = d
  BY <1>1, <1>3, <1>4
<1>6. UnitsAfter(Here) \subseteq RulesAfter(Here)
  BY <1>2, UnitFacts DEF RulesAfter
<1>7. QED
  BY <1>1, <1>3, <1>5, <1>6

\* At the end of the array nothing is left.
LEMMA AtTheEnd ==
    ASSUME TypeInv, ConfigInv, i > Len(rules)
    PROVE  /\ RulesAfter(Here) = {} /\ UnitsAfter(Here) = {}
           /\ InChain => Here = Len(directives)
           /\ \A j \in 1..Len(rules) : j < i
<1>1. i \in Nat /\ Here \in Nat /\ Len(rules) \in Nat
  BY HereFacts
<1>2. \A j \in 1..Len(rules) : j < i
  BY <1>1
<1>3. ASSUME NEW s \in RulesAfter(Here) PROVE FALSE
  <2>1. s \in Nat /\ s > Here
    BY DirectiveTypes DEF RulesAfter
  <2>2. PICK j \in 1..Len(rules) : rules[j].no = s
    BY <1>1, EntryOf
  <2>3. s <= Here
    BY <1>2, <2>2, Passed
  <2>4. QED
    BY <1>1, <2>1, <2>3
<1>4. UnitsAfter(Here) \subseteq RulesAfter(Here)
  BY <1>1, UnitFacts DEF RulesAfter
<1>5. InChain => Here = Len(directives)
  <2> SUFFICES ASSUME InChain PROVE Here = Len(directives)
    OBVIOUS
  <2>1. i - 1 \in 1..Len(rules) /\ Here = rules[i - 1].no /\ rules[i - 1].chained
    BY HereFacts
  <2>2. i - 1 = Len(rules)
    BY <1>1, HereFacts
  <2>3. QED
    BY <2>1, <2>2, EntryGoesOn
<1>6. QED
  BY <1>2, <1>3, <1>4, <1>5
-----------------------------------------------------------------------------
(* The targets of skipAfter.                                               *)

\* Rule h, the head of a chain, names t.
Names(h, t) == /\ h \in Given /\ ~directives[h].placeholder
               /\ t = directives[h].skipAfter /\ t # None

LEMMA Target ==
    ASSUME TypeInv, ConfigInv, NEW h, NEW t, Names(h, t),
           NEW f \in Given, directives[f].id = t
    PROVE  /\ f \in Nat /\ f > 0
           /\ t \in Numbers => f = t /\ Chain(f) = f /\ f > h
           /\ t \notin Numbers => directives[f].placeholder
           /\ \E j \in 1..Len(rules) : /\ rules[j].placeholder /\ rules[j].id = t
                                       /\ rules[j].no = f
<1>1. f \in Numbers /\ f \in Nat /\ f > 0 /\ h \in Given
  BY DirectiveTypes DEF Names
<1>2. t \in Numbers \cup {Marker}
  BY <1>1, DirectiveTypes DEF Names, RuleRecords
<1>3. /\ directives[f].placeholder => t = Marker /\ t \notin Numbers
      /\ ~directives[f].placeholder => t = f /\ Chain(f) = f /\ t \in Numbers
  BY <1>1, <1>2, NamesApart DEF ConfigInv, DirectiveShape
<1>4. directives[f].no = f
  BY DEF ConfigInv, DirectiveShape
<1>5. CASE directives[f].placeholder
  <2>1. f \notin gone
    BY <1>5 DEF ConfigInv, GoneShape
  <2>2. PICK j \in 1..Len(rules) : rules[j] = directives[f]
    BY <2>1 DEF ConfigInv, PlacedShape
  <2>3. rules[j].placeholder /\ rules[j].id = t /\ rules[j].no = f
    BY <1>4, <1>5, <2>2
  <2>4. QED
    BY <1>1, <1>3, <1>5, <2>3
<1>6. CASE ~directives[f].placeholder
  <2>1. t = f /\ Chain(f) = f /\ t \in Numbers /\ directives[h].skipAfter = f
    BY <1>3, <1>6 DEF Names
  <2>2. PICK j \in 1..Len(rules) : rules[j] = Copied(f)
    BY <1>1, <2>1 DEF ConfigInv, PlacedShape
  <2>3. rules[j].placeholder /\ rules[j].id = t /\ rules[j].no = f
    BY <1>4, <2>2, CopiedFields
  <2>4. f > h
    BY <1>1, <2>1 DEF ConfigInv, TargetShape
  <2>5. QED
    BY <1>1, <2>1, <2>3, <2>4
<1>7. QED
  BY <1>5, <1>6

\* No place of t lies between rule d and the loop.
NotPassed(d, t) ==
    \A k \in 1..(i - 1) : rules[k].placeholder /\ rules[k].id = t => rules[k].no <= d

LEMMA AtTarget ==
    ASSUME TypeInv, ConfigInv, NEW d \in Given, ~directives[d].placeholder, d <= Here,
           NEW t, Names(Chain(d), t), NotPassed(d, t),
           NEW e, At(e), rules[i].placeholder, rules[i].id = t
    PROVE  AfterTarget(d, t) = UnitAfter(e, 0)
<1> DEFINE T == {f \in (d + 1)..Len(directives) : directives[f].id = t}
<1>1. /\ e \in Given /\ e \in Nat /\ e > 0 /\ Here <= e /\ ~directives[e].chained
      /\ directives[e].id = t /\ i \in 1..Len(rules) /\ e = rules[i].no
  <2>1. /\ e \in Given /\ e \in Nat /\ e > 0 /\ Here <= e /\ ~directives[e].chained
    BY AtPlaceholder
  <2>2. i \in 1..Len(rules) /\ e = rules[i].no
    BY DEF At
  <2>3. directives[e].id = t
    BY <2>2, EntryFacts
  <2>4. QED
    BY <2>1, <2>2, <2>3
<1>2. d \in Nat /\ d > 0 /\ Here \in Nat /\ Len(directives) \in Nat
      /\ \A f \in Given : f \in Nat /\ f <= Len(directives)
  BY HereFacts, DirectiveTypes DEF Given
<1>3. e # d
  <2> SUFFICES ASSUME e = d PROVE FALSE
    OBVIOUS
  <2>1. t \in Numbers /\ Chain(d) = d
    BY <1>1, Target
  <2>2. d > Chain(d)
    BY <1>1, <2>1, Target
  <2>3. QED
    BY <1>2, <2>1, <2>2
<1>4. e \in T
  BY <1>1, <1>2, <1>3
<1>5. ASSUME NEW f \in T PROVE e <= f
  <2>1. f \in Given /\ directives[f].id = t /\ f > d /\ f \in Nat
    BY <1>2 DEF Given
  <2>2. PICK j \in 1..Len(rules) : rules[j].placeholder /\ rules[j].id = t /\ rules[j].no = f
    BY <2>1, Target
  <2>3. ~(j < i)
    <3> SUFFICES ASSUME j < i PROVE FALSE
      OBVIOUS
    <3>1. j \in 1..(i - 1)
      BY <1>1, DirectiveTypes
    <3>2. f <= d
      BY <2>2, <3>1 DEF NotPassed
    <3>3. QED
      BY <1>2, <2>1, <3>2
  <2>4. i <= j
    BY <1>1, <2>3, DirectiveTypes
  <2>5. QED
    BY <1>1, <2>2, <2>4, OrderFacts
<1>6. Min(T) = e
  <2>1. T \subseteq Nat /\ T # {}
    BY <1>2, <1>4
  <2>2. Min(T) \in T /\ \A k1 \in T : Min(T) <= k1
    <3> HIDE DEF T
    <3>1. QED
      BY <2>1, MinIs
  <2> DEFINE m == Min(T)
  <2>3. m \in Nat /\ m <= e /\ e <= m
    BY <1>4, <1>5, <2>1, <2>2
  <2> HIDE DEF m
  <2>4. m = e
    BY <1>1, <2>3
  <2>5. QED
    BY <2>4 DEF m
<1>7. AfterTarget(d, t) = UnitAfter(ChainEnd(e), 0)
  <2>1. AfterTarget(d, t) = IF T = {} THEN End ELSE UnitAfter(ChainEnd(Min(T)), 0)
    BY DEF AfterTarget
  <2>2. T # {}
    BY <1>4
  <2> HIDE DEF T
  <2>3. QED
    BY <1>6, <2>1, <2>2
<1>8. ChainEnd(e) = e
  BY <1>1, SingleEnds
<1>9. QED
  BY <1>7, <1>8

LEMMA NoTarget ==
    ASSUME TypeInv, ConfigInv, NEW d \in Given, NEW h, NEW t, Names(h, t), NotPassed(d, t),
           i > Len(rules)
    PROVE  AfterTarget(d, t) = End
<1> DEFINE T == {f \in (d + 1)..Len(directives) : directives[f].id = t}
<1>1. ASSUME NEW f \in T PROVE FALSE
  <2>1. d \in Nat /\ d > 0 /\ Len(directives) \in Nat /\ i \in Nat /\ Len(rules) \in Nat
    BY HereFacts, DirectiveTypes
  <2>2. f \in Given /\ directives[f].id = t /\ f > d /\ f \in Nat
    BY <2>1 DEF Given
  <2>3. PICK j \in 1..Len(rules) : rules[j].placeholder /\ rules[j].id = t /\ rules[j].no = f
    BY <2>2, Target
  <2>4. j \in 1..(i - 1)
    BY <2>1
  <2>5. f <= d
    BY <2>3, <2>4 DEF NotPassed
  <2>6. QED
    BY <2>1, <2>2, <2>5
<1>2. T = {}
  BY <1>1
<1>3. QED
  BY <1>2 DEF AfterTarget
-----------------------------------------------------------------------------
(* One step of the loop: the directives stay.                              *)

LEMMA SameUnits ==
    ASSUME UNCHANGED config
    PROVE  /\ directives' = directives /\ gone' = gone /\ rules' = rules
           /\ Given' = Given /\ Units' = Units
<1>1. directives' = directives /\ gone' = gone /\ rules' = rules
  BY DEF config
<1>2. QED
  BY <1>1 DEF Given, Units

LEMMA NextShapes ==
    ASSUME UNCHANGED config
    PROVE  /\ NextRuleShape' <=> (mode' = "NEXT_RULE" =>
                 RunsNext(Expected', Here', skip', skipped', sawStarter', skipAfter'))
           /\ NextChainShape' <=> (mode' = "NEXT_CHAIN" =>
                 LeavesChain(Expected', Here', skip', skipped'))
           /\ SkipShape' <=> (mode' = "SKIP_RULES" =>
                 /\ trace' # <<>>
                 /\ Skips(Expected', Here', skip', sawStarter', skipAfter',
                          trace'[Len(trace')].no, i' - 1))
<1>1. directives' = directives /\ gone' = gone /\ rules' = rules /\ Given' = Given /\ Units' = Units
  BY SameUnits
<1>2. ChainedAt(Here)' <=> ChainedAt(Here')
  BY <1>1 DEF ChainedAt
<1>3. RulesAfter(Here)' = RulesAfter(Here')
  BY <1>1 DEF RulesAfter
<1>4. IsFirst(Expected, RulesAfter(Here))' <=> IsFirst(Expected', RulesAfter(Here'))
  BY <1>3 DEF IsFirst, End
<1>5. UnitAfter(Here, skip)' = UnitAfter(Here', skip')
  BY <1>1 DEF UnitAfter, End
<1>6. Chain(Here)' = Chain(Here')
  BY <1>1 DEF Chain
<1>7. NextRuleShape' <=> (mode' = "NEXT_RULE" =>
         RunsNext(Expected', Here', skip', skipped', sawStarter', skipAfter'))
  BY <1>1, <1>2, <1>4, <1>5, <1>6 DEF NextRuleShape, RunsNext
<1>8. UnitAfter(ChainEnd(Here), skip)' = UnitAfter(ChainEnd(Here'), skip')
  <2>1. ChainEnd(Here)' = ChainEnd(Here')
    BY <1>1 DEF ChainEnd
  <2>2. QED
    BY <1>1, <2>1 DEF UnitAfter, End
<1>9. NextChainShape' <=> (mode' = "NEXT_CHAIN" =>
         LeavesChain(Expected', Here', skip', skipped'))
  BY <1>2, <1>8 DEF NextChainShape, LeavesChain
<1>10. AfterTarget(trace[Len(trace)].no, skipAfter)'
          = AfterTarget(trace'[Len(trace')].no, skipAfter')
  <2> DEFINE d == trace[Len(trace)].no
             T == {e \in (d + 1)..Len(directives) : directives[e].id = skipAfter}
  <2>1. T' = {e \in (d' + 1)..Len(directives) : directives[e].id = skipAfter'}
    BY <1>1
  <2>2. UnitAfter(ChainEnd(Min(T)), 0)' = UnitAfter(ChainEnd(Min(T')), 0)
    BY <1>1 DEF UnitAfter, ChainEnd, End
  <2>3. QED
    BY <2>1, <2>2 DEF AfterTarget, End
<1>11. SkipShape' <=> (mode' = "SKIP_RULES" =>
         /\ trace' # <<>>
         /\ Skips(Expected', Here', skip', sawStarter', skipAfter',
                  trace'[Len(trace')].no, i' - 1))
  BY <1>1, <1>2, <1>4, <1>10 DEF SkipShape, Skips, Chain
<1>12. QED
  BY <1>7, <1>9, <1>11


\* The rule to come after rule d found o.
ExpectedAfter(d, o) ==
    LET head == directives[Chain(d)]
    IN  IF o \in {"deny", "off", "fatal"} THEN End
        ELSE IF ~Matches(o) THEN UnitAfter(ChainEnd(d), 0)
        ELSE IF directives[d].chained
             THEN IF d < ChainEnd(d) THEN d + 1 ELSE End
        ELSE IF head.skipAfter # None THEN AfterTarget(d, head.skipAfter)
        ELSE UnitAfter(d, head.skip)

LEMMA ExpectedIs ==
    Expected = IF trace = <<>> THEN UnitAfter(0, 0)
               ELSE ExpectedAfter(trace[Len(trace)].no, trace[Len(trace)].outcome)
  BY DEF Expected, ExpectedAfter, Last, Chain

LEMMA SameWalk ==
    ASSUME UNCHANGED config, NEW d, NEW k, NEW t
    PROVE  /\ UnitAfter(d, k)' = UnitAfter(d, k) /\ ChainEnd(d)' = ChainEnd(d)
           /\ AfterTarget(d, t)' = AfterTarget(d, t)
<1>1. directives' = directives /\ Units' = Units
  BY SameUnits
<1>2. \A b : UnitAfter(b, k)' = UnitAfter(b, k) /\ ChainEnd(b)' = ChainEnd(b)
             /\ UnitAfter(b, 0)' = UnitAfter(b, 0)
  BY <1>1 DEF UnitAfter, ChainEnd, End
<1>3. AfterTarget(d, t)' = AfterTarget(d, t)
  BY <1>1 DEF AfterTarget, UnitAfter, ChainEnd, End
<1>4. QED
  BY <1>2, <1>3

LEMMA ExpectedNext ==
    ASSUME UNCHANGED config
    PROVE  /\ trace' = trace => Expected' = Expected
           /\ trace' # <<>> =>
                 Expected' = ExpectedAfter(trace'[Len(trace')].no, trace'[Len(trace')].outcome)
<1>1. directives' = directives /\ Units' = Units
  BY SameUnits
<1> DEFINE d == trace[Len(trace)].no
           o == trace[Len(trace)].outcome
<1>2. ExpectedAfter(d, o)' = ExpectedAfter(d', o')
  <2>1. ChainEnd(d)' = ChainEnd(d')
    BY <1>1 DEF ChainEnd
  <2>2. UnitAfter(ChainEnd(d), 0)' = UnitAfter(ChainEnd(d'), 0)
    BY <1>1, <2>1 DEF UnitAfter, End
  <2> DEFINE t == directives[Chain(d)].skipAfter
             k == directives[Chain(d)].skip
  <2>3. t' = directives[Chain(d')].skipAfter /\ k' = directives[Chain(d')].skip
    BY <1>1 DEF Chain
  <2>4. AfterTarget(d, t)' = AfterTarget(d', t')
    BY <1>1 DEF AfterTarget, UnitAfter, ChainEnd, End
  <2>5. UnitAfter(d, k)' = UnitAfter(d', k')
    BY <1>1 DEF UnitAfter, End
  <2>6. QED
    BY <1>1, <2>1, <2>2, <2>3, <2>4, <2>5 DEF ExpectedAfter, End
<1>3. Expected' = IF trace' = <<>> THEN UnitAfter(0, 0)' ELSE ExpectedAfter(d, o)'
  BY DEF Expected, ExpectedAfter, Last, Chain
<1>4. UnitAfter(0, 0)' = UnitAfter(0, 0)
  BY SameWalk
<1>5. trace' = trace => Expected' = Expected
  BY <1>2, <1>3, <1>4, ExpectedIs
<1>6. QED
  BY <1>2, <1>3, <1>5

LEMMA Moves ==
    ASSUME TypeInv, ConfigInv, AtRule, UNCHANGED config
    PROVE  /\ i' = i + 1 => /\ Here' = rules[i].no /\ i' \in Nat /\ i' >= 1 /\ i' - 1 = i
                            /\ i' <= Len(rules) + 1
           /\ i' = i => Here' = Here
           /\ rules[i].no \in Given /\ rules[i].no \in Nat /\ rules[i].no > 0
           /\ Here <= rules[i].no /\ At(rules[i].no) /\ i \in Nat
<1> DEFINE d == rules[i].no
<1>1. At(d) /\ d \in Given /\ i \in 1..Len(rules) /\ i \in Nat /\ i >= 1 /\ Here \in Nat
      /\ Len(rules) \in Nat
  BY AtIs, HereFacts DEF At
<1>2. d \in Nat /\ d > 0
  BY <1>1, DirectiveTypes
<1>3. Here <= d
  <2>1. CASE rules[i].placeholder
    BY <1>1, <2>1, AtPlaceholder
  <2>2. CASE ~rules[i].placeholder
    <3>1. Here < d
      BY <1>1, <2>2, AtNextRule
    <3>2. QED
      BY <1>1, <1>2, <3>1
  <2>3. QED
    BY <2>1, <2>2
<1>4. i' = i + 1 => /\ i' \in Nat /\ i' >= 1 /\ i' - 1 = i /\ i' <= Len(rules) + 1 /\ i' # 1
  BY <1>1
<1>5. rules' = rules
  BY SameUnits
<1>6. i' = i + 1 => Here' = d
  BY <1>4, <1>5 DEF Here
<1>7. i' = i => Here' = Here
  BY <1>5 DEF Here
<1>8. QED
  BY <1>1, <1>2, <1>3, <1>4, <1>6, <1>7

\* A step that runs no rule.
LEMMA Quiet ==
    ASSUME TypeInv, ConfigInv, TraceShape, LoopShape, AtRule,
           UNCHANGED <<config, stage, engine, trace, rc>>,
           i' = i + 1 \/ i' = i, mode' \in {"NEXT_RULE", "NEXT_CHAIN", "SKIP_RULES"},
           skip' \in Nat, sawStarter' \in BOOLEAN, skipped' \in BOOLEAN,
           engine => NextRuleShape' /\ NextChainShape' /\ SkipShape'
    PROVE  TypeInv' /\ StartShape' /\ TraceShape' /\ LoopShape'
<1>1. /\ directives' = directives /\ rules' = rules /\ gone' = gone /\ Given' = Given
      /\ stage' = "phase" /\ engine' = engine /\ trace' = trace
  BY SameUnits DEF AtRule
<1>2. /\ i' \in Nat /\ i' >= 1 /\ i' <= Len(rules) + 1 /\ Here' \in Nat /\ Here' >= Here
      /\ Here \in Nat
  <2>1. Here \in Nat /\ i \in Nat /\ i >= 1 /\ i <= Len(rules) + 1
    BY HereFacts
  <2>2. QED
    BY <2>1, Moves
<1>3. TypeInv'
  BY <1>1, <1>2 DEF TypeInv
<1>4. StartShape'
  BY <1>1 DEF StartShape
<1>5. TraceShape'
  <2> SUFFICES ASSUME trace # <<>>
               PROVE  LET d == trace[Len(trace)].no IN
                      d \in Given /\ ~directives[d].placeholder /\ d \notin gone /\ d <= Here'
    BY <1>1 DEF TraceShape
  <2> DEFINE d == trace[Len(trace)].no
  <2>1. d \in Given /\ ~directives[d].placeholder /\ d \notin gone /\ d <= Here
    BY DEF TraceShape, AtRule
  <2>2. d \in Nat
    BY <2>1, DirectiveTypes
  <2> HIDE DEF d
  <2>3. d <= Here'
    BY <1>2, <2>1, <2>2
  <2>4. QED
    BY <2>1, <2>3 DEF d
<1>6. LoopShape'
  <2>1. ~engine => Expected' = End
    BY <1>1, ExpectedNext DEF LoopShape, AtRule
  <2>2. End' = End
    BY DEF End
  <2>3. QED
    BY <1>1, <2>1, <2>2 DEF LoopShape
<1>7. QED
  BY <1>3, <1>4, <1>5, <1>6


\* While rules are skipped, the rule that matched last names the target.
LEMMA LastMatch ==
    ASSUME TypeInv, ConfigInv, TraceShape, LoopShape, stage = "phase", engine,
           mode = "SKIP_RULES", NEW d, d = trace[Len(trace)].no
    PROVE  /\ trace # <<>> /\ d \in Given /\ d \in Nat /\ ~directives[d].placeholder
           /\ d <= Here /\ Here > 0 /\ i > 1
           /\ Names(Chain(d), skipAfter) /\ skip = 0
           /\ skipAfter = directives[Chain(d)].skipAfter
           /\ sawStarter /\ ChainedAt(Here) => IsFirst(Expected, RulesAfter(Here)) /\ d = Here
           /\ ~(sawStarter /\ ChainedAt(Here)) =>
                 Expected = AfterTarget(d, skipAfter) /\ NotPassed(d, skipAfter)
<1>1. trace # <<>> /\ Skips(Expected, Here, skip, sawStarter, skipAfter, d, i - 1)
  BY DEF LoopShape, SkipShape
<1>2. d \in Given /\ ~directives[d].placeholder /\ d <= Here
  BY <1>1 DEF TraceShape
<1>3. d \in Nat /\ d > 0 /\ Here \in Nat
  BY <1>2, HereFacts, DirectiveTypes
<1>4. Here > 0 /\ i > 1
  BY <1>2, <1>3, HereFacts
<1>5. Chain(d) \in 1..d /\ ~directives[Chain(d)].placeholder
  BY <1>2 DEF ConfigInv, DirectiveShape, ChainShape
<1>6. Chain(d) \in Given
  BY <1>2, <1>3, <1>5, DirectiveTypes DEF Given
<1>7. Names(Chain(d), skipAfter)
  BY <1>1, <1>5, <1>6 DEF Names, Skips
<1>8. QED
  BY <1>1, <1>2, <1>3, <1>4, <1>7 DEF Skips, NotPassed

LEMMA InTheChainIs ==
    ASSUME TypeInv, ConfigInv, i > 1
    PROVE  InTheChain <=> sawStarter /\ ChainedAt(Here)
<1>1. rules[i - 1].chained = directives[Here].chained /\ Here > 0
  BY HereFacts
<1>2. QED
  BY <1>1 DEF InTheChain, ChainedAt

LEMMA SkipIntoChainKeeps ==
    ASSUME TypeInv, ConfigInv, TraceShape, LoopShape, SkipIntoChain
    PROVE  TypeInv' /\ StartShape' /\ TraceShape' /\ LoopShape'
<1>1. /\ AtRule /\ stage = "phase" /\ mode = "SKIP_RULES" /\ InTheChain
      /\ mode' = "NEXT_RULE" /\ skipped' = TRUE
      /\ UNCHANGED <<config, stage, i, skip, skipAfter, sawStarter, engine, trace, rc>>
  BY DEF SkipIntoChain, AtRule
<1>2. ASSUME engine PROVE NextRuleShape' /\ NextChainShape' /\ SkipShape'
  <2> DEFINE d == trace[Len(trace)].no
  <2>1. i > 1 /\ skip = 0 /\ skipAfter = directives[Chain(d)].skipAfter /\ skipAfter # None
    BY <1>1, <1>2, LastMatch DEF Names
  <2>2. sawStarter /\ ChainedAt(Here)
    BY <1>1, <2>1, InTheChainIs
  <2>3. IsFirst(Expected, RulesAfter(Here)) /\ d = Here
    BY <1>1, <1>2, <2>2, LastMatch
  <2>4. Here' = Here /\ Expected' = Expected
    BY <1>1, Moves, ExpectedNext
  <2>5. RunsNext(Expected, Here, skip, TRUE, sawStarter, skipAfter)
    BY <2>1, <2>2, <2>3 DEF RunsNext
  <2>6. RunsNext(Expected', Here', skip', skipped', sawStarter', skipAfter')
    BY <1>1, <2>4, <2>5
  <2>7. mode' # "NEXT_CHAIN" /\ mode' # "SKIP_RULES"
    BY <1>1
  <2>8. QED
    BY <1>1, <2>6, <2>7, NextShapes
<1>3. skip' \in Nat /\ sawStarter' \in BOOLEAN
  BY <1>1 DEF TypeInv
<1>4. QED
  BY <1>1, <1>2, <1>3, Quiet

LEMMA SkipOverKeeps ==
    ASSUME TypeInv, ConfigInv, TraceShape, LoopShape, SkipOver
    PROVE  TypeInv' /\ StartShape' /\ TraceShape' /\ LoopShape'
<1>1. /\ AtRule /\ stage = "phase" /\ mode = "SKIP_RULES" /\ ~InTheChain
      /\ ~(rules[i].placeholder /\ rules[i].id = skipAfter)
      /\ skipped' = FALSE /\ sawStarter' = FALSE /\ i' = i + 1
      /\ UNCHANGED <<config, stage, mode, skip, skipAfter, engine, trace, rc>>
  BY DEF SkipOver, AtRule, Reached, rule, Advance
<1>2. ASSUME engine PROVE NextRuleShape' /\ NextChainShape' /\ SkipShape'
  <2> DEFINE d == trace[Len(trace)].no
  <2>1. /\ i > 1 /\ skip = 0 /\ skipAfter = directives[Chain(d)].skipAfter /\ skipAfter # None
        /\ trace # <<>>
    BY <1>1, <1>2, LastMatch DEF Names
  <2>2. ~(sawStarter /\ ChainedAt(Here))
    BY <1>1, <2>1, InTheChainIs
  <2>3. Expected = AfterTarget(d, skipAfter) /\ NotPassed(d, skipAfter)
    BY <1>1, <1>2, <2>2, LastMatch
  <2>4. Expected' = Expected /\ i' - 1 = i /\ i \in Nat
    BY <1>1, Moves, ExpectedNext
  <2>5. \A k \in 1..i : rules[k].placeholder /\ rules[k].id = skipAfter => rules[k].no <= d
    <3>1. \A k \in 1..i : k = i \/ k \in 1..(i - 1)
      BY <2>4
    <3>2. QED
      BY <1>1, <2>3, <3>1 DEF NotPassed
  <2>6. Skips(Expected, Here', skip, FALSE, skipAfter, d, i)
    BY <2>1, <2>3, <2>5 DEF Skips
  <2>7. Skips(Expected', Here', skip', sawStarter', skipAfter', trace'[Len(trace')].no, i' - 1)
    BY <1>1, <2>4, <2>6
  <2>8. mode' # "NEXT_CHAIN" /\ mode' # "NEXT_RULE" /\ trace' # <<>>
    BY <1>1, <2>1
  <2>9. QED
    BY <1>1, <2>7, <2>8, NextShapes
<1>3. skip' \in Nat /\ mode' \in {"NEXT_RULE", "NEXT_CHAIN", "SKIP_RULES"}
  BY <1>1 DEF TypeInv
<1>4. QED
  BY <1>1, <1>2, <1>3, Quiet

LEMMA SkipEndsKeeps ==
    ASSUME TypeInv, ConfigInv, TraceShape, LoopShape, SkipEnds
    PROVE  TypeInv' /\ StartShape' /\ TraceShape' /\ LoopShape'
<1>1. /\ AtRule /\ stage = "phase" /\ mode = "SKIP_RULES" /\ mode' = "NEXT_RULE"
      /\ rules[i].placeholder /\ rules[i].id = skipAfter
      /\ skipped' = FALSE /\ sawStarter' = FALSE /\ i' = i + 1
      /\ UNCHANGED <<config, stage, skip, engine, trace, rc>>
  BY DEF SkipEnds, AtRule, Reached, rule, Advance
<1>2. ASSUME engine PROVE NextRuleShape' /\ NextChainShape' /\ SkipShape'
  <2> DEFINE d == trace[Len(trace)].no
             e == rules[i].no
  <2>1. /\ d \in Given /\ ~directives[d].placeholder /\ d <= Here
        /\ skip = 0 /\ Names(Chain(d), skipAfter)
    BY <1>1, <1>2, LastMatch
  <2>2. At(e) /\ Here' = e
    BY <1>1, Moves
  <2>3. e \in Given /\ e \in Nat /\ e > 0 /\ ~directives[e].chained /\ ~InChain
    BY <1>1, <2>2, AtPlaceholder
  <2>4. Expected = AfterTarget(d, skipAfter) /\ NotPassed(d, skipAfter)
    BY <1>1, <1>2, <2>3, LastMatch DEF InChain
  <2>5. Expected = UnitAfter(e, 0)
    BY <1>1, <2>1, <2>2, <2>4, AtTarget
  <2>6. IsFirst(Expected, RulesAfter(e))
    BY <2>3, <2>5, FirstAfter
  <2>7. ~ChainedAt(e)
    BY <2>3 DEF ChainedAt
  <2>8. RunsNext(Expected, e, skip, FALSE, FALSE, skipAfter')
    BY <2>1, <2>6, <2>7 DEF RunsNext
  <2>9. RunsNext(Expected', Here', skip', skipped', sawStarter', skipAfter')
    BY <1>1, <2>2, <2>8, ExpectedNext
  <2>10. mode' # "NEXT_CHAIN" /\ mode' # "SKIP_RULES"
    BY <1>1
  <2>11. QED
    BY <1>1, <2>9, <2>10, NextShapes
<1>3. skip' \in Nat
  BY <1>1 DEF TypeInv
<1>4. QED
  BY <1>1, <1>2, <1>3, Quiet


LEMMA SameUnitAfter ==
    ASSUME NEW b, NEW c, RulesAfter(b) = RulesAfter(c), NEW k
    PROVE  UnitAfter(b, k) = UnitAfter(c, k)
<1>1. \A x : UnitsAfter(x) = {u \in RulesAfter(x) : Chain(u) = u}
  BY DEF UnitsAfter, Units, RulesAfter, Given, Chain
<1>2. UnitsAfter(b) = UnitsAfter(c)
  BY <1>1
<1>3. Leaving(b, k) = Leaving(c, k)
  BY <1>2 DEF Leaving
<1>4. QED
  BY <1>3, UnitAfterIs

LEMMA PassPlaceholderKeeps ==
    ASSUME TypeInv, ConfigInv, TraceShape, LoopShape, PassPlaceholder
    PROVE  TypeInv' /\ StartShape' /\ TraceShape' /\ LoopShape'
<1>1. /\ AtRule /\ stage = "phase" /\ mode # "SKIP_RULES" /\ rules[i].placeholder
      /\ i' = i + 1
      /\ UNCHANGED <<config, stage, mode, skip, skipAfter, sawStarter, skipped, engine, trace, rc>>
  BY DEF PassPlaceholder, AtRule, rule, Advance
<1>2. ASSUME engine PROVE NextRuleShape' /\ NextChainShape' /\ SkipShape'
  <2> DEFINE e == rules[i].no
  <2>1. At(e) /\ Here' = e
    BY <1>1, Moves
  <2>2. /\ e \in Given /\ ~directives[e].chained /\ ~InChain
        /\ RulesAfter(e) = RulesAfter(Here)
    BY <1>1, <2>1, AtPlaceholder
  <2>3. ~ChainedAt(e) /\ ~ChainedAt(Here)
    BY <2>2 DEF ChainedAt, InChain
  <2>4. mode = "NEXT_RULE"
    <3>1. mode = "NEXT_CHAIN" => ChainedAt(Here)
      BY <1>1, <1>2 DEF LoopShape, NextChainShape, LeavesChain
    <3>2. QED
      BY <1>1, <2>3, <3>1 DEF TypeInv
  <2>5. RunsNext(Expected, Here, skip, skipped, sawStarter, skipAfter)
    BY <1>1, <1>2, <2>4 DEF LoopShape, NextRuleShape
  <2>6. RunsNext(Expected, e, skip, skipped, sawStarter, skipAfter)
    <3>1. UnitAfter(e, skip) = UnitAfter(Here, skip)
      BY <2>2, SameUnitAfter
    <3>2. ~skipped
      BY <2>3, <2>5 DEF RunsNext
    <3>3. skip = 0 => IsFirst(Expected, RulesAfter(e))
      BY <2>2, <2>5 DEF RunsNext
    <3>4. skip > 0 => Expected = UnitAfter(e, skip)
      BY <2>5, <3>1 DEF RunsNext
    <3>5. QED
      BY <2>3, <3>2, <3>3, <3>4 DEF RunsNext
  <2>7. RunsNext(Expected', Here', skip', skipped', sawStarter', skipAfter')
    BY <1>1, <2>1, <2>6, ExpectedNext
  <2>8. mode' # "NEXT_CHAIN" /\ mode' # "SKIP_RULES"
    BY <1>1, <2>4
  <2>9. QED
    BY <1>1, <2>7, <2>8, NextShapes
<1>3. /\ skip' \in Nat /\ sawStarter' \in BOOLEAN /\ skipped' \in BOOLEAN
      /\ mode' \in {"NEXT_RULE", "NEXT_CHAIN", "SKIP_RULES"}
  BY <1>1 DEF TypeInv
<1>4. QED
  BY <1>1, <1>2, <1>3, Quiet

\* Behind the last rule of a unit.
LEMMA BehindUnit ==
    ASSUME TypeInv, ConfigInv, NEW d \in Given, ~directives[d].chained, NEW k \in Nat,
           NEW e, e = UnitAfter(d, k), NEW sa, NEW ss
    PROVE  RunsNext(e, d, k, FALSE, ss, sa)
<1>1. ~ChainedAt(d)
  BY DEF ChainedAt
<1>2. k = 0 => IsFirst(e, RulesAfter(d))
  <2>1. d \in Nat /\ (d > 0 => d \in Given /\ ~directives[d].chained)
    BY DirectiveTypes
  <2>2. QED
    BY <2>1, FirstAfter
<1>3. QED
  BY <1>1, <1>2 DEF RunsNext

LEMMA PassChainKeeps ==
    ASSUME TypeInv, ConfigInv, TraceShape, LoopShape, PassChain
    PROVE  TypeInv' /\ StartShape' /\ TraceShape' /\ LoopShape'
<1>1. /\ AtRule /\ stage = "phase" /\ mode = "NEXT_CHAIN" /\ ~rules[i].placeholder
      /\ mode' = (IF rules[i].chained THEN mode ELSE "NEXT_RULE") /\ i' = i + 1
      /\ UNCHANGED <<config, stage, skip, skipAfter, sawStarter, skipped, engine, trace, rc>>
  BY DEF PassChain, AtRule, rule, Advance
<1>2. ASSUME engine PROVE NextRuleShape' /\ NextChainShape' /\ SkipShape'
  <2> DEFINE d == rules[i].no
  <2>1. At(d) /\ Here' = d /\ d \in Given /\ d > 0
    BY <1>1, Moves
  <2>2. LeavesChain(Expected, Here, skip, skipped)
    BY <1>1, <1>2 DEF LoopShape, NextChainShape
  <2>3. ChainEnd(d) = ChainEnd(Here) /\ rules[i] = directives[d]
    <3>1. InChain
      BY <2>2 DEF LeavesChain, InChain
    <3>2. QED
      BY <1>1, <2>1, <3>1, AtChain, AtNextRule
  <2>4. Expected = UnitAfter(ChainEnd(d), skip) /\ ~skipped /\ skip \in Nat
    BY <2>2, <2>3 DEF LeavesChain, TypeInv
  <2>5. Expected' = Expected
    BY <1>1, ExpectedNext
  <2>6. CASE rules[i].chained
    <3>1. LeavesChain(Expected, d, skip, skipped)
      BY <2>1, <2>3, <2>4, <2>6 DEF LeavesChain, ChainedAt
    <3>2. LeavesChain(Expected', Here', skip', skipped')
      BY <1>1, <2>1, <2>5, <3>1
    <3>3. mode' # "NEXT_RULE" /\ mode' # "SKIP_RULES"
      BY <1>1, <2>6
    <3>4. QED
      BY <1>1, <3>2, <3>3, NextShapes
  <2>7. CASE ~rules[i].chained
    <3>1. ChainEnd(d) = d
      BY <2>1, <2>3, <2>7, SingleEnds
    <3>2. RunsNext(Expected, d, skip, FALSE, sawStarter, skipAfter)
      BY <2>1, <2>3, <2>4, <2>7, <3>1, BehindUnit
    <3>3. skipped = FALSE
      BY <2>4 DEF TypeInv
    <3>4. RunsNext(Expected', Here', skip', skipped', sawStarter', skipAfter')
      BY <1>1, <2>1, <2>5, <3>2, <3>3
    <3>5. mode' # "NEXT_CHAIN" /\ mode' # "SKIP_RULES"
      BY <1>1, <2>7
    <3>6. QED
      BY <1>1, <3>4, <3>5, NextShapes
  <2>8. QED
    BY <2>6, <2>7
<1>3. /\ skip' \in Nat /\ sawStarter' \in BOOLEAN /\ skipped' \in BOOLEAN
      /\ mode' \in {"NEXT_RULE", "NEXT_CHAIN", "SKIP_RULES"}
  BY <1>1 DEF TypeInv
<1>4. QED
  BY <1>1, <1>2, <1>3, Quiet

LEMMA SkipCountedKeeps ==
    ASSUME TypeInv, ConfigInv, TraceShape, LoopShape, SkipCounted
    PROVE  TypeInv' /\ StartShape' /\ TraceShape' /\ LoopShape'
<1>1. /\ AtRule /\ stage = "phase" /\ mode = "NEXT_RULE" /\ ~rules[i].placeholder
      /\ skip > 0 /\ skip' = skip - 1
      /\ mode' = (IF rules[i].chained THEN "NEXT_CHAIN" ELSE mode) /\ i' = i + 1
      /\ UNCHANGED <<config, stage, skipAfter, sawStarter, skipped, engine, trace, rc>>
  BY DEF SkipCounted, AtRule, rule, Advance
<1>2. skip \in Nat /\ skip' \in Nat
  BY <1>1 DEF TypeInv
<1>3. ASSUME engine PROVE NextRuleShape' /\ NextChainShape' /\ SkipShape'
  <2> DEFINE d == rules[i].no
  <2>1. At(d) /\ Here' = d /\ d \in Given /\ d > 0 /\ Here \in Nat
    BY <1>1, Moves, HereFacts
  <2>2. RunsNext(Expected, Here, skip, skipped, sawStarter, skipAfter)
    BY <1>1, <1>3 DEF LoopShape, NextRuleShape
  <2>3. ~InChain /\ Expected = UnitAfter(Here, skip) /\ ~skipped
    BY <1>1, <2>2 DEF RunsNext, InChain
  <2>4. rules[i] = directives[d] /\ d \in UnitsAfter(Here) /\ \A u \in UnitsAfter(Here) : d <= u
    BY <1>1, <2>1, <2>3, AtHead, AtNextRule
  <2>5. Expected = UnitAfter(ChainEnd(d), skip - 1)
    BY <1>1, <1>2, <2>1, <2>3, <2>4, OneUnitLess
  <2>6. Expected' = Expected /\ skipped = FALSE
    BY <1>1, <2>3, ExpectedNext DEF TypeInv
  <2>7. CASE rules[i].chained
    <3>1. LeavesChain(Expected, d, skip - 1, skipped)
      BY <2>1, <2>3, <2>4, <2>5, <2>7 DEF LeavesChain, ChainedAt
    <3>2. LeavesChain(Expected', Here', skip', skipped')
      BY <1>1, <2>1, <2>6, <3>1
    <3>3. mode' # "NEXT_RULE" /\ mode' # "SKIP_RULES"
      BY <1>1, <2>7
    <3>4. QED
      BY <1>1, <3>2, <3>3, NextShapes
  <2>8. CASE ~rules[i].chained
    <3>1. ChainEnd(d) = d
      BY <2>1, <2>4, <2>8, SingleEnds
    <3>2. RunsNext(Expected, d, skip - 1, FALSE, sawStarter, skipAfter)
      BY <1>1, <1>2, <2>1, <2>4, <2>5, <2>8, <3>1, BehindUnit
    <3>3. RunsNext(Expected', Here', skip', skipped', sawStarter', skipAfter')
      BY <1>1, <2>1, <2>6, <3>2
    <3>4. mode' # "NEXT_CHAIN" /\ mode' # "SKIP_RULES"
      BY <1>1, <2>8
    <3>5. QED
      BY <1>1, <3>3, <3>4, NextShapes
  <2>9. QED
    BY <2>7, <2>8
<1>4. /\ sawStarter' \in BOOLEAN /\ skipped' \in BOOLEAN
      /\ mode' \in {"NEXT_RULE", "NEXT_CHAIN", "SKIP_RULES"}
  BY <1>1 DEF TypeInv
<1>5. QED
  BY <1>1, <1>2, <1>3, <1>4, Quiet

LEMMA EngineOffKeeps ==
    ASSUME TypeInv, ConfigInv, TraceShape, LoopShape, EngineOff
    PROVE  TypeInv' /\ StartShape' /\ TraceShape' /\ LoopShape'
<1>1. /\ AtRule /\ ~engine /\ i' = i + 1 /\ sawStarter' = FALSE /\ skipped' = FALSE
      /\ UNCHANGED <<config, stage, mode, skip, engine, trace, rc>>
  BY DEF EngineOff, Processing, Advance
<1>2. skip' \in Nat /\ mode' \in {"NEXT_RULE", "NEXT_CHAIN", "SKIP_RULES"}
  BY <1>1 DEF TypeInv
<1>3. QED
  BY <1>1, <1>2, Quiet


\* What a trace tells of the rule that ran.
Told(o) == IF o \in {"error", "removed"} THEN "no" ELSE o

LEMMA RuleRuns ==
    ASSUME TypeInv, ConfigInv, TraceShape, LoopShape, Processing, engine,
           NEW o \in Outcomes, Record(o), UNCHANGED config, NEW d, d = rules[i].no
    PROVE  /\ AtRule /\ stage = "phase" /\ mode = "NEXT_RULE" /\ skip = 0
           /\ ~rules[i].placeholder /\ At(d) /\ rules[i] = directives[d]
           /\ d \in Given /\ d \in Nat /\ d > 0 /\ ~directives[d].placeholder /\ d \notin gone
           /\ Expected = d /\ Last(trace').no = d
           /\ RunsNext(Expected, Here, skip, skipped, sawStarter, skipAfter)
           /\ trace' # <<>> /\ trace'[Len(trace')].no = d
           /\ Expected' = ExpectedAfter(d, Told(o))
           /\ ListOf(trace', TraceRecords)
<1>1. /\ AtRule /\ stage = "phase" /\ mode = "NEXT_RULE" /\ skip = 0
      /\ ~rules[i].placeholder
  BY DEF Processing, AtRule, rule
<1>2. At(d) /\ d \in Given /\ d \in Nat /\ d > 0
  BY <1>1, Moves
<1>3. /\ rules[i] = directives[d] /\ d \in RulesAfter(Here)
      /\ \A s \in RulesAfter(Here) : d <= s
  BY <1>1, <1>2, AtNextRule
<1>4. ~directives[d].placeholder /\ d \notin gone
  BY <1>3 DEF RulesAfter
<1>5. RunsNext(Expected, Here, skip, skipped, sawStarter, skipAfter)
  BY <1>1 DEF LoopShape, NextRuleShape
<1>6. Expected = d
  <2>1. Expected \in RulesAfter(Here) /\ \A s \in RulesAfter(Here) : Expected <= s
    BY <1>1, <1>3, <1>5 DEF RunsNext, IsFirst
  <2>2. Expected \in Nat
    BY <2>1, DirectiveTypes DEF RulesAfter
  <2> DEFINE x == Expected
  <2>3. x \in Nat /\ x <= d /\ d <= x
    BY <1>3, <2>1, <2>2
  <2> HIDE DEF x
  <2>4. x = d
    BY <1>2, <2>3
  <2>5. QED
    BY <2>4 DEF x
<1> DEFINE w == [no |-> d, outcome |-> Told(o)]
<1>7. /\ trace' = Append(trace, w) /\ w \in TraceRecords
      /\ ListOf(trace, TraceRecords)
  <2>1. Told(o) \in Outcomes
    BY DEF Told, Outcomes
  <2>2. QED
    BY <1>2, <2>1 DEF Record, rule, Told, TraceShape, TraceRecords
<1> HIDE DEF w
<1>8. /\ ListOf(Append(trace, w), TraceRecords)
      /\ Len(Append(trace, w)) = Len(trace) + 1 /\ Append(trace, w)[Len(trace) + 1] = w
      /\ Len(trace) \in Nat
  BY <1>7, ListAppend, ListElement
<1>9. /\ ListOf(trace', TraceRecords) /\ trace'[Len(trace')] = w
      /\ Len(trace') # 0
  BY <1>7, <1>8
<1>10. trace' # <<>> /\ Last(trace') = w
  BY <1>9 DEF Last
<1>11. w.no = d /\ w.outcome = Told(o)
  BY DEF w
<1>12. Expected' = ExpectedAfter(d, Told(o))
  BY <1>9, <1>10, <1>11, ExpectedNext
<1>13. QED
  BY <1>1, <1>2, <1>3, <1>4, <1>5, <1>6, <1>9, <1>10, <1>11, <1>12

\* A step that runs rule d.
LEMMA Running ==
    ASSUME TypeInv, ConfigInv, TraceShape, LoopShape, Processing, engine,
           NEW o \in Outcomes, Record(o), UNCHANGED config, NEW d, d = rules[i].no,
           stage' = "phase", i' = i + 1, engine' \in BOOLEAN,
           mode' \in {"NEXT_RULE", "NEXT_CHAIN", "SKIP_RULES"},
           skip' \in Nat, sawStarter' \in BOOLEAN, skipped' \in BOOLEAN,
           ~engine' => ExpectedAfter(d, Told(o)) = End,
           engine' => NextRuleShape' /\ NextChainShape' /\ SkipShape'
    PROVE  TypeInv' /\ StartShape' /\ TraceShape' /\ LoopShape'
<1>1. /\ directives' = directives /\ rules' = rules /\ gone' = gone /\ Given' = Given
  BY SameUnits
<1>2. /\ AtRule /\ d \in Given /\ ~directives[d].placeholder /\ d \notin gone /\ d \in Nat
      /\ trace'[Len(trace')].no = d /\ Expected' = ExpectedAfter(d, Told(o))
      /\ ListOf(trace', TraceRecords)
  BY RuleRuns
<1>3. Here' = d /\ i' \in Nat /\ i' >= 1 /\ i' <= Len(rules) + 1
  BY <1>2, Moves
<1>4. TypeInv'
  BY <1>1, <1>3 DEF TypeInv
<1>5. StartShape'
  BY DEF StartShape
<1>6. TraceShape'
  <2>1. d <= Here'
    BY <1>2, <1>3
  <2>2. QED
    BY <1>1, <1>2, <2>1 DEF TraceShape
<1>7. LoopShape'
  BY <1>2 DEF LoopShape, End
<1>8. QED
  BY <1>4, <1>5, <1>6, <1>7

LEMMA RuleFailsKeeps ==
    ASSUME TypeInv, ConfigInv, TraceShape, LoopShape, NEW o \in Outcomes, RuleFails(o)
    PROVE  /\ TypeInv' /\ StartShape' /\ TraceShape' /\ LoopShape'
           /\ Last(trace').no = Expected
<1> DEFINE d == rules[i].no
<1>1. /\ Processing /\ engine /\ Told(o) = "no" /\ Record(o)
      /\ mode' = (IF rules[i].chained THEN "NEXT_CHAIN" ELSE "NEXT_RULE")
      /\ skipped' = FALSE /\ sawStarter' = FALSE /\ i' = i + 1
      /\ UNCHANGED <<config, stage, rc, skip, skipAfter, engine>>
  BY DEF RuleFails, Told, rule, Advance
<1>2. /\ AtRule /\ stage = "phase" /\ skip = 0 /\ rules[i] = directives[d] /\ d \in Given
      /\ d > 0 /\ Expected = d /\ Last(trace').no = d /\ Expected' = ExpectedAfter(d, Told(o))
  BY <1>1, RuleRuns
<1>3. Here' = d
  BY <1>1, <1>2, Moves
<1>4. Expected' = UnitAfter(ChainEnd(d), 0)
  BY <1>1, <1>2 DEF ExpectedAfter, Matches
<1>5. NextRuleShape' /\ NextChainShape' /\ SkipShape'
  <2>1. CASE rules[i].chained
    <3>1. LeavesChain(Expected', d, 0, FALSE)
      BY <1>2, <1>4, <2>1 DEF LeavesChain, ChainedAt
    <3>2. LeavesChain(Expected', Here', skip', skipped')
      BY <1>1, <1>2, <1>3, <3>1
    <3>3. mode' # "NEXT_RULE" /\ mode' # "SKIP_RULES"
      BY <1>1, <2>1
    <3>4. QED
      BY <1>1, <3>2, <3>3, NextShapes
  <2>2. CASE ~rules[i].chained
    <3>1. ChainEnd(d) = d
      BY <1>2, <2>2, SingleEnds
    <3>2. RunsNext(Expected', d, 0, FALSE, FALSE, skipAfter)
      BY <1>2, <1>4, <2>2, <3>1, BehindUnit
    <3>3. RunsNext(Expected', Here', skip', skipped', sawStarter', skipAfter')
      BY <1>1, <1>2, <1>3, <3>2
    <3>4. mode' # "NEXT_CHAIN" /\ mode' # "SKIP_RULES"
      BY <1>1, <2>2
    <3>5. QED
      BY <1>1, <3>3, <3>4, NextShapes
  <2>3. QED
    BY <2>1, <2>2
<1>6. skip' \in Nat /\ stage' = "phase" /\ engine' \in BOOLEAN
      /\ mode' \in {"NEXT_RULE", "NEXT_CHAIN", "SKIP_RULES"}
  BY <1>1, <1>2 DEF TypeInv
<1>7. TypeInv' /\ StartShape' /\ TraceShape' /\ LoopShape'
  BY <1>1, <1>5, <1>6, Running
<1>8. QED
  BY <1>2, <1>7

LEMMA RuleEndsPhaseKeeps ==
    ASSUME TypeInv, ConfigInv, TraceShape, LoopShape, NEW o \in Outcomes, RuleEndsPhase(o)
    PROVE  /\ TypeInv' /\ StartShape' /\ TraceShape' /\ LoopShape'
           /\ Last(trace').no = Expected /\ rc' # 0
<1>1. /\ Processing /\ engine /\ Record(o) /\ stage' = "end" /\ rc' \in {-1, 1}
      /\ UNCHANGED <<config, loop, engine>>
  BY DEF RuleEndsPhase, Return
<1>2. /\ Expected = rules[i].no /\ Last(trace').no = rules[i].no
      /\ ListOf(trace', TraceRecords)
  BY <1>1, RuleRuns
<1>3. /\ directives' = directives /\ rules' = rules
      /\ UNCHANGED <<i, mode, skip, sawStarter, skipped, engine>>
  BY <1>1, SameUnits DEF loop
<1>4. TypeInv'
  BY <1>1, <1>3 DEF TypeInv
<1>5. StartShape' /\ TraceShape' /\ LoopShape'
  BY <1>1, <1>2 DEF StartShape, TraceShape, LoopShape
<1>6. QED
  BY <1>1, <1>2, <1>4, <1>5


\* When no skipAfter waits and the rule has none, its chain has none.
LEMMA HeadSkips ==
    ASSUME TypeInv, ConfigInv, NEW d, At(d), ~rules[i].placeholder,
           RunsNext(Expected, Here, skip, skipped, sawStarter, skipAfter)
    PROVE  /\ ~skipped /\ directives[d].skipAfter = None =>
                 directives[Chain(d)].skipAfter = None
           /\ skipped => /\ Chain(d) = Chain(Here) /\ sawStarter
                         /\ directives[Chain(d)].skipAfter # None
                         /\ skipAfter = directives[Chain(d)].skipAfter
           /\ directives[d].skipAfter # None => Chain(d) = d
<1>1. /\ skipped <=> ChainedAt(Here) /\ directives[Chain(Here)].skipAfter # None
      /\ skipped => sawStarter /\ skipAfter = directives[Chain(Here)].skipAfter
  BY DEF RunsNext
<1>2. d \in Given /\ ~directives[d].placeholder
  BY AtNextRule DEF RulesAfter
<1>3. directives[d].skipAfter # None => Chain(d) = d
  BY <1>2 DEF ConfigInv, DirectiveShape
<1>4. CASE InChain
  <2>1. Chain(d) = Chain(Here)
    BY <1>4, AtChain
  <2>2. QED
    BY <1>1, <1>3, <1>4, <2>1 DEF InChain
<1>5. CASE ~InChain
  <2>1. Chain(d) = d
    BY <1>5, AtHead
  <2>2. QED
    BY <1>1, <1>3, <1>5, <2>1 DEF InChain
<1>6. QED
  BY <1>4, <1>5

\* Rule d matched, and its chain names t.
LEMMA StartsSkip ==
    ASSUME TypeInv, ConfigInv, NEW d, At(d), d \in Given, d \notin gone,
           ~directives[d].placeholder, NEW t, t = directives[Chain(d)].skipAfter, t # None
    PROVE  Skips(ExpectedAfter(d, "match"), d, 0, TRUE, t, d, i)
<1> DEFINE e == ExpectedAfter(d, "match")
<1>1. e = IF directives[d].chained
          THEN IF d < ChainEnd(d) THEN d + 1 ELSE End ELSE AfterTarget(d, t)
  BY DEF ExpectedAfter, Matches
<1>2. ChainedAt(d) <=> directives[d].chained
  BY DirectiveTypes DEF ChainedAt
<1>3. directives[d].chained => IsFirst(e, RulesAfter(d))
  BY <1>1, NextInChain
<1>4. ~directives[d].chained => e = AfterTarget(d, t)
  BY <1>1
<1>5. \A k \in 1..i : rules[k].no <= d
  <2> TAKE k \in 1..i
  <2>1. i \in 1..Len(rules) /\ d = rules[i].no
    BY DEF At
  <2>2. k \in 1..Len(rules) /\ k <= i
    BY <2>1, HereFacts
  <2>3. QED
    BY <2>1, <2>2, OrderFacts
<1> HIDE DEF e
<1>6. Skips(e, d, 0, TRUE, t, d, i)
  BY <1>2, <1>3, <1>4, <1>5 DEF Skips
<1>7. QED
  BY <1>6 DEF e

\* Rule d matched, and its chain names nothing.
LEMMA StartsNone ==
    ASSUME TypeInv, ConfigInv, NEW d \in Given, d \notin gone,
           ~directives[d].placeholder, directives[Chain(d)].skipAfter = None,
           NEW k, k = (IF directives[d].chained THEN 0 ELSE directives[Chain(d)].skip),
           NEW ss, NEW sa
    PROVE  RunsNext(ExpectedAfter(d, "match"), d, k, FALSE, ss, sa) /\ k \in Nat
<1> DEFINE e == ExpectedAfter(d, "match")
<1>1. e = IF directives[d].chained
          THEN IF d < ChainEnd(d) THEN d + 1 ELSE End
          ELSE UnitAfter(d, directives[Chain(d)].skip)
  BY DEF ExpectedAfter, Matches
<1>2. directives[Chain(d)].skip \in Nat
  <2>1. Chain(d) \in 1..d
    BY DEF ConfigInv, DirectiveShape
  <2>2. Chain(d) \in Given
    BY <2>1, DirectiveTypes DEF Given
  <2>3. QED
    BY <2>2, DirectiveTypes DEF RuleRecords
<1>3. CASE directives[d].chained
  <2>1. IsFirst(e, RulesAfter(d))
    BY <1>1, <1>3, NextInChain
  <2> HIDE DEF e
  <2>2. RunsNext(e, d, k, FALSE, ss, sa)
    BY <1>3, <2>1 DEF RunsNext
  <2>3. QED
    BY <1>3, <2>2 DEF e
<1>4. CASE ~directives[d].chained
  <2>1. e = UnitAfter(d, k) /\ k \in Nat
    BY <1>1, <1>2, <1>4
  <2> HIDE DEF e
  <2>2. RunsNext(e, d, k, FALSE, ss, sa)
    BY <1>4, <2>1, BehindUnit
  <2>3. QED
    BY <2>1, <2>2 DEF e
<1>5. QED
  BY <1>3, <1>4

LEMMA RuleMatchesKeeps ==
    ASSUME TypeInv, ConfigInv, TraceShape, LoopShape, NEW o \in Outcomes, RuleMatches(o)
    PROVE  /\ TypeInv' /\ StartShape' /\ TraceShape' /\ LoopShape'
           /\ Last(trace').no = Expected
<1> DEFINE d == rules[i].no
           r == rules[i]
<1>1. /\ Processing /\ engine /\ o \in {"match", "off"} /\ Told(o) = o /\ Record(o)
      /\ engine' = (o # "off") /\ i' = i + 1
      /\ UNCHANGED <<config, stage, rc>>
      /\ \/ /\ r.skipAfter # None /\ skipAfter' = r.skipAfter /\ mode' = "SKIP_RULES"
            /\ sawStarter' = TRUE /\ UNCHANGED <<skip, skipped>>
         \/ /\ r.skipAfter = None /\ skipped /\ mode' = "SKIP_RULES"
            /\ UNCHANGED <<skip, skipAfter, sawStarter, skipped>>
         \/ /\ r.skipAfter = None /\ ~skipped
            /\ skip' = IF r.chained THEN skip ELSE directives[r.head].skip
            /\ UNCHANGED <<mode, skipAfter, sawStarter, skipped>>
  BY DEF RuleMatches, Told, rule, Advance
<1>2. /\ AtRule /\ stage = "phase" /\ mode = "NEXT_RULE" /\ skip = 0
      /\ ~r.placeholder /\ At(d) /\ r = directives[d]
      /\ d \in Given /\ d > 0 /\ ~directives[d].placeholder /\ d \notin gone
      /\ Expected = d /\ Last(trace').no = d /\ Expected' = ExpectedAfter(d, Told(o))
      /\ RunsNext(Expected, Here, skip, skipped, sawStarter, skipAfter)
      /\ trace' # <<>> /\ trace'[Len(trace')].no = d
  BY <1>1, RuleRuns
<1>3. Here' = d /\ i' - 1 = i
  BY <1>1, <1>2, Moves
<1>4. /\ ~skipped /\ directives[d].skipAfter = None => directives[Chain(d)].skipAfter = None
      /\ skipped => /\ sawStarter
                    /\ directives[Chain(d)].skipAfter # None
                    /\ skipAfter = directives[Chain(d)].skipAfter
      /\ directives[d].skipAfter # None => Chain(d) = d
  BY <1>2, HeadSkips
<1>5. ~engine' => ExpectedAfter(d, Told(o)) = End
  BY <1>1 DEF ExpectedAfter
<1>6. CASE mode' = "SKIP_RULES"
  <2>1. /\ skipAfter' = directives[Chain(d)].skipAfter /\ skipAfter' # None /\ skip' = 0
        /\ sawStarter' = TRUE /\ skipped' = skipped
    BY <1>1, <1>2, <1>4, <1>6 DEF TypeInv
  <2>2. ASSUME engine' PROVE NextRuleShape' /\ NextChainShape' /\ SkipShape'
    <3>1. Told(o) = "match"
      BY <1>1, <2>2
    <3>2. Skips(Expected', d, 0, TRUE, skipAfter', d, i)
      BY <1>2, <2>1, <3>1, StartsSkip
    <3>3. Skips(Expected', Here', skip', sawStarter', skipAfter', trace'[Len(trace')].no, i' - 1)
      BY <1>2, <1>3, <2>1, <3>2
    <3>4. mode' # "NEXT_RULE" /\ mode' # "NEXT_CHAIN"
      BY <1>6
    <3>5. QED
      BY <1>1, <1>2, <3>3, <3>4, NextShapes
  <2>3. /\ skip' \in Nat /\ sawStarter' \in BOOLEAN /\ skipped' \in BOOLEAN /\ engine' \in BOOLEAN
        /\ mode' \in {"NEXT_RULE", "NEXT_CHAIN", "SKIP_RULES"}
    BY <1>1, <1>6, <2>1 DEF TypeInv
  <2>4. QED
    BY <1>1, <1>2, <1>5, <2>2, <2>3, Running
<1>7. CASE mode' # "SKIP_RULES"
  <2>1. /\ r.skipAfter = None /\ ~skipped /\ mode' = "NEXT_RULE"
        /\ skip' = IF directives[d].chained THEN 0 ELSE directives[Chain(d)].skip
        /\ skipAfter' = skipAfter /\ sawStarter' = sawStarter /\ skipped' = FALSE
    BY <1>1, <1>2, <1>7 DEF TypeInv, Chain
  <2>2. directives[Chain(d)].skipAfter = None
    BY <1>2, <1>4, <2>1
  <2>3. RunsNext(ExpectedAfter(d, "match"), d, skip', FALSE, sawStarter, skipAfter) /\ skip' \in Nat
    BY <1>2, <2>1, <2>2, StartsNone
  <2>4. ASSUME engine' PROVE NextRuleShape' /\ NextChainShape' /\ SkipShape'
    <3>1. Told(o) = "match"
      BY <1>1, <2>4
    <3>2. RunsNext(Expected', Here', skip', skipped', sawStarter', skipAfter')
      BY <1>2, <1>3, <2>1, <2>3, <3>1
    <3>3. mode' # "SKIP_RULES" /\ mode' # "NEXT_CHAIN"
      BY <2>1
    <3>4. QED
      BY <1>1, <3>2, <3>3, NextShapes
  <2>5. /\ sawStarter' \in BOOLEAN /\ skipped' \in BOOLEAN /\ engine' \in BOOLEAN
        /\ mode' \in {"NEXT_RULE", "NEXT_CHAIN", "SKIP_RULES"}
    BY <1>1, <2>1 DEF TypeInv
  <2>6. QED
    BY <1>1, <1>2, <1>5, <2>3, <2>4, <2>5, Running
<1>8. TypeInv' /\ StartShape' /\ TraceShape' /\ LoopShape'
  BY <1>6, <1>7
<1>9. QED
  BY <1>2, <1>8

LEMMA EndOfRulesKeeps ==
    ASSUME TypeInv, ConfigInv, TraceShape, LoopShape, EndOfRules
    PROVE  /\ TypeInv' /\ StartShape' /\ TraceShape' /\ LoopShape'
           /\ Expected = End
<1>1. /\ stage = "phase" /\ i > Len(rules) /\ stage' = "end"
      /\ UNCHANGED <<config, loop, engine, trace>>
  BY DEF EndOfRules, Return
<1>2. /\ directives' = directives /\ rules' = rules
      /\ UNCHANGED <<i, mode, skip, sawStarter, skipped, engine>>
  BY <1>1, SameUnits DEF loop
<1>3. TypeInv'
  BY <1>1, <1>2 DEF TypeInv
<1>4. StartShape' /\ TraceShape' /\ LoopShape'
  BY <1>1 DEF StartShape, TraceShape, LoopShape
<1>5. /\ RulesAfter(Here) = {} /\ UnitsAfter(Here) = {} /\ Here \in Nat
      /\ InChain => Here = Len(directives)
  BY <1>1, AtTheEnd, HereFacts
<1>6. CASE ~engine
  BY <1>1, <1>3, <1>4, <1>6 DEF LoopShape
<1>7. CASE engine /\ mode = "NEXT_RULE"
  <2>1. RunsNext(Expected, Here, skip, skipped, sawStarter, skipAfter) /\ skip \in Nat
    BY <1>1, <1>7 DEF LoopShape, NextRuleShape, TypeInv
  <2>2. CASE skip = 0
    BY <1>3, <1>4, <1>5, <2>1, <2>2 DEF RunsNext, IsFirst
  <2>3. CASE skip > 0
    BY <1>3, <1>4, <1>5, <2>1, <2>3, NoUnits DEF RunsNext
  <2>4. QED
    BY <2>1, <2>2, <2>3
<1>8. CASE engine /\ mode = "NEXT_CHAIN"
  <2>1. ChainedAt(Here) /\ Expected = UnitAfter(ChainEnd(Here), skip)
    BY <1>1, <1>8 DEF LoopShape, NextChainShape, LeavesChain
  <2>2. Here = Len(directives) /\ Here \in Given /\ directives[Here].chained
    BY <1>5, <2>1, HereFacts DEF InChain, ChainedAt
  <2>3. ChainEnd(Here) = Here
    BY <2>2, ChainedEnds
  <2>4. QED
    BY <1>3, <1>4, <1>5, <2>1, <2>3, NoUnits
<1>9. CASE engine /\ mode = "SKIP_RULES"
  <2> DEFINE d == trace[Len(trace)].no
  <2>1. /\ d \in Given /\ Names(Chain(d), skipAfter)
        /\ sawStarter /\ ChainedAt(Here) => IsFirst(Expected, RulesAfter(Here))
        /\ ~(sawStarter /\ ChainedAt(Here)) =>
              Expected = AfterTarget(d, skipAfter) /\ NotPassed(d, skipAfter)
    BY <1>1, <1>9, LastMatch
  <2>2. CASE sawStarter /\ ChainedAt(Here)
    BY <1>3, <1>4, <1>5, <2>1, <2>2 DEF IsFirst
  <2>3. CASE ~(sawStarter /\ ChainedAt(Here))
    BY <1>1, <1>3, <1>4, <2>1, <2>3, NoTarget
  <2>4. QED
    BY <2>2, <2>3
<1>10. QED
  BY <1>6, <1>7, <1>8, <1>9 DEF TypeInv
-----------------------------------------------------------------------------
(* Every step.                                                             *)

\* Before the phase starts, the first rule is expected.
Configuring == stage = "config"

LEMMA StartLoop ==
    TypeInv /\ ConfigInv /\ StartShape /\ Configuring => TraceShape /\ LoopShape
<1> SUFFICES ASSUME TypeInv, ConfigInv, StartShape, stage = "config"
             PROVE  TraceShape /\ LoopShape
  BY DEF Configuring
<1>1. /\ trace = <<>> /\ i = 1 /\ mode = "NEXT_RULE" /\ skip = 0 /\ ~skipped /\ engine
  BY DEF StartShape
<1>2. TraceShape
  <2>1. ListOf(trace, TraceRecords)
    BY <1>1 DEF ListOf
  <2>2. QED
    BY <1>1, <2>1 DEF TraceShape
<1>3. Here = 0 /\ Expected = UnitAfter(0, 0)
  BY <1>1, ExpectedIs DEF Here
<1>4. IsFirst(Expected, RulesAfter(0))
  BY <1>3, FirstAfter
<1>5. ~ChainedAt(0)
  BY DEF ChainedAt
<1>6. RunsNext(Expected, Here, skip, skipped, sawStarter, skipAfter)
  BY <1>1, <1>3, <1>4, <1>5 DEF RunsNext
<1>7. NextRuleShape /\ NextChainShape /\ SkipShape
  BY <1>1, <1>6 DEF NextRuleShape, NextChainShape, SkipShape
<1>8. QED
  BY <1>1, <1>2, <1>7 DEF LoopShape

LEMMA AddingKeeps ==
    ASSUME TypeInv, ConfigInv, TypeInv', NEW r, NEW c, Adding(r, c)
    PROVE  ConfigInv'
<1>1. DirectiveShape /\ ChainShape /\ MarkerShape /\ TargetShape /\ GoneShape
      /\ EntryShape /\ OrderShape /\ PlacedShape
  BY DEF ConfigInv
<1>2. DirectiveShape' /\ ChainShape' /\ MarkerShape' /\ TargetShape' /\ GoneShape'
  BY <1>1, AddDirectiveShape, AddChainShape, AddMarkerShape, AddTargetShape, AddGoneShape
<1>3. EntryShape' /\ OrderShape' /\ PlacedShape'
  BY <1>1, AddEntryShape, AddOrderShape, AddPlacedShape
<1>4. QED
  BY <1>2, <1>3 DEF ConfigInv

LEMMA SameStart ==
    ASSUME StartShape, stage = "config", UNCHANGED <<stage, loop, engine, trace>>
    PROVE  StartShape' /\ stage' = "config"
  BY DEF StartShape, loop

LEMMA AddRuleKeeps ==
    ASSUME Inv, SplitsChains = {}, NEW ch \in BOOLEAN, NEW sk \in 0..MaxSkip,
           NEW after \in Numbers \cup {Marker, None}, AddRule(ch, sk, after)
    PROVE  TypeInv' /\ ConfigInv' /\ StartShape' /\ stage' = "config"
<1>1. TypeInv /\ ConfigInv /\ StartShape /\ DirectiveShape /\ MarkerShape
  BY DEF Inv, ConfigInv
<1>2. /\ TypeInv' /\ Len(directives) < MaxDirectives
      /\ \E r \in RuleRecords, c \in {1, 2} :
            r.no = Len(directives) + 1 /\ Added(r, c) /\ AddedRule(r, c)
  BY <1>1, AddRuleAdds
<1>3. PICK r \in RuleRecords, c \in {1, 2} : Adding(r, c)
  BY <1>2 DEF Adding
<1>4. ConfigInv'
  BY <1>1, <1>2, <1>3, AddingKeeps
<1>5. stage = "config" /\ UNCHANGED <<stage, loop, engine, trace>>
  BY DEF AddRule
<1>6. QED
  BY <1>1, <1>2, <1>4, <1>5, SameStart

LEMMA AddMarkerKeeps ==
    ASSUME Inv, SplitsChains = {}, AddMarker
    PROVE  TypeInv' /\ ConfigInv' /\ StartShape' /\ stage' = "config"
<1>1. TypeInv /\ ConfigInv /\ StartShape /\ DirectiveShape /\ MarkerShape
  BY DEF Inv, ConfigInv
<1>2. /\ TypeInv' /\ Len(directives) < MaxDirectives
      /\ \E r \in RuleRecords, c \in {1, 2} :
            r.no = Len(directives) + 1 /\ Added(r, c) /\ AddedMarker(r)
  BY <1>1, AddMarkerAdds
<1>3. PICK r \in RuleRecords, c \in {1, 2} : Adding(r, c)
  BY <1>2 DEF Adding
<1>4. ConfigInv'
  BY <1>1, <1>2, <1>3, AddingKeeps
<1>5. stage = "config" /\ UNCHANGED <<stage, loop, engine, trace>>
  BY DEF AddMarker
<1>6. QED
  BY <1>1, <1>2, <1>4, <1>5, SameStart

\* StartPhase, and steps that change nothing.
LEMMA StillKeeps ==
    ASSUME Inv, UNCHANGED <<config, loop, engine, trace>>,
           stage' = stage \/ (stage = "config" /\ stage' = "phase")
    PROVE  Inv'
<1>1. TypeInv /\ ConfigInv /\ StartShape /\ TraceShape /\ LoopShape
  BY DEF Inv
<1>2. /\ directives' = directives /\ rules' = rules /\ gone' = gone /\ Given' = Given
      /\ awaited' = awaited
  BY SameUnits DEF config
<1>3. UNCHANGED <<i, mode, skip, skipAfter, sawStarter, skipped, engine, trace>>
  BY DEF loop
<1>4. TypeInv'
  BY <1>1, <1>2, <1>3 DEF TypeInv
<1>5. ConfigInv'
  BY <1>1, <1>2, SameGone
<1>6. StartShape'
  BY <1>1, <1>3 DEF StartShape
<1>7. Here' = Here /\ Expected' = Expected
  BY <1>2, <1>3, ExpectedNext DEF Here
<1>8. TraceShape'
  BY <1>1, <1>2, <1>3, <1>7 DEF TraceShape
<1>9. LoopShape'
  <2>1. NextRuleShape => NextRuleShape'
    BY <1>3, <1>7, NextShapes DEF NextRuleShape
  <2>2. NextChainShape => NextChainShape'
    BY <1>3, <1>7, NextShapes DEF NextChainShape
  <2>3. SkipShape => SkipShape'
    BY <1>3, <1>7, NextShapes DEF SkipShape
  <2>4. QED
    BY <1>1, <1>3, <1>7, <2>1, <2>2, <2>3 DEF LoopShape, End
<1>10. QED
  BY <1>4, <1>5, <1>6, <1>8, <1>9 DEF Inv

LEMMA ConfigureKeeps ==
    ASSUME Inv, SplitsChains = {}, Configure
    PROVE  Inv' /\ UNCHANGED <<trace, rc>>
<1>0. TypeInv' /\ ConfigInv' /\ StartShape' /\ Configuring' => TraceShape' /\ LoopShape'
  BY StartLoop, PTL
<1>1. SUFFICES \/ /\ TypeInv' /\ ConfigInv' /\ StartShape' /\ stage' = "config"
                  /\ UNCHANGED <<trace, rc>>
               \/ Inv' /\ UNCHANGED <<trace, rc>>
  BY <1>0 DEF Inv, Configuring
<1>2. ASSUME NEW ch \in BOOLEAN, NEW sk \in 0..MaxSkip, NEW after \in Numbers \cup {Marker, None},
             AddRule(ch, sk, after)
      PROVE  TypeInv' /\ ConfigInv' /\ StartShape' /\ stage' = "config" /\ UNCHANGED <<trace, rc>>
  BY <1>2, AddRuleKeeps DEF AddRule
<1>3. CASE AddMarker
  BY <1>3, AddMarkerKeeps DEF AddMarker
<1>4. ASSUME NEW no \in Numbers, RemoveRule(no)
      PROVE  TypeInv' /\ ConfigInv' /\ StartShape' /\ stage' = "config" /\ UNCHANGED <<trace, rc>>
  <2>1. TypeInv /\ ConfigInv /\ StartShape
    BY DEF Inv
  <2>2. stage = "config" /\ UNCHANGED <<stage, loop, engine, trace, rc>>
    BY <1>4 DEF RemoveRule
  <2>3. QED
    BY <1>4, <2>1, <2>2, RemoveRuleKeeps, SameStart
<1>5. CASE StartPhase
  BY <1>5, StillKeeps DEF StartPhase
<1>6. 0 \in 0..MaxSkip /\ MaxSkip \in 0..MaxSkip
  BY NamesApart
<1>7. QED
  BY <1>2, <1>3, <1>4, <1>5, <1>6 DEF Configure

LEMMA ProcessPhaseKeeps ==
    ASSUME Inv, ProcessPhase
    PROVE  /\ Inv' /\ UNCHANGED config
           /\ trace' # trace => stage = "phase" /\ Last(trace').no = Expected
           /\ rc' = 0 => rc = 0 \/ Expected = End
<1>1. TypeInv /\ ConfigInv /\ TraceShape /\ LoopShape
  BY DEF Inv
<1>2. UNCHANGED config
  BY DEF ProcessPhase, SkipIntoChain, SkipOver, SkipEnds, PassPlaceholder, PassChain,
         SkipCounted, EngineOff, EndOfRules, RuleFails, RuleEndsPhase, RuleMatches
<1>3. ConfigInv'
  BY <1>1, <1>2, SameGone DEF config
<1>4. SUFFICES /\ TypeInv' /\ StartShape' /\ TraceShape' /\ LoopShape'
               /\ trace' # trace => stage = "phase" /\ Last(trace').no = Expected
               /\ rc' = 0 => rc = 0 \/ Expected = End
  BY <1>2, <1>3 DEF Inv
<1>5. CASE SkipIntoChain
  BY <1>1, <1>5, SkipIntoChainKeeps DEF SkipIntoChain
<1>6. CASE SkipOver
  BY <1>1, <1>6, SkipOverKeeps DEF SkipOver, Advance
<1>7. CASE SkipEnds
  BY <1>1, <1>7, SkipEndsKeeps DEF SkipEnds, Advance
<1>8. CASE PassPlaceholder
  BY <1>1, <1>8, PassPlaceholderKeeps DEF PassPlaceholder, Advance
<1>9. CASE PassChain
  BY <1>1, <1>9, PassChainKeeps DEF PassChain, Advance
<1>10. CASE SkipCounted
  BY <1>1, <1>10, SkipCountedKeeps DEF SkipCounted, Advance
<1>11. CASE EngineOff
  BY <1>1, <1>11, EngineOffKeeps DEF EngineOff, Advance
<1>12. CASE EndOfRules
  BY <1>1, <1>12, EndOfRulesKeeps DEF EndOfRules
<1>13. ASSUME NEW o \in Outcomes, RuleFails(o)
       PROVE  /\ TypeInv' /\ StartShape' /\ TraceShape' /\ LoopShape'
              /\ trace' # trace => stage = "phase" /\ Last(trace').no = Expected
              /\ rc' = 0 => rc = 0 \/ Expected = End
  BY <1>1, <1>13, RuleFailsKeeps DEF RuleFails, Advance, Processing, AtRule
<1>14. ASSUME NEW o \in Outcomes, RuleEndsPhase(o)
       PROVE  /\ TypeInv' /\ StartShape' /\ TraceShape' /\ LoopShape'
              /\ trace' # trace => stage = "phase" /\ Last(trace').no = Expected
              /\ rc' = 0 => rc = 0 \/ Expected = End
  BY <1>1, <1>14, RuleEndsPhaseKeeps DEF RuleEndsPhase, Processing, AtRule
<1>15. ASSUME NEW o \in Outcomes, RuleMatches(o)
       PROVE  /\ TypeInv' /\ StartShape' /\ TraceShape' /\ LoopShape'
              /\ trace' # trace => stage = "phase" /\ Last(trace').no = Expected
              /\ rc' = 0 => rc = 0 \/ Expected = End
  BY <1>1, <1>15, RuleMatchesKeeps DEF RuleMatches, Advance, Processing, AtRule
<1>16. QED
  BY <1>5, <1>6, <1>7, <1>8, <1>9, <1>10, <1>11, <1>12, <1>13, <1>14, <1>15 DEF ProcessPhase


LEMMA StartsInv == Init => Inv
<1> SUFFICES ASSUME Init PROVE Inv
  OBVIOUS
<1>1. /\ directives = <<>> /\ gone = {} /\ rules = <<>> /\ awaited = {} /\ stage = "config"
      /\ i = 1 /\ mode = "NEXT_RULE" /\ skip = 0 /\ sawStarter = FALSE /\ skipped = FALSE
      /\ engine = TRUE /\ trace = <<>>
  BY DEF Init
<1>2. /\ ListOf(directives, RuleRecords) /\ ListOf(rules, RuleRecords)
      /\ Len(directives) = 0 /\ Len(rules) = 0
  BY <1>1 DEF ListOf
<1>3. TypeInv
  <2>1. Len(directives) <= MaxDirectives /\ i \in Nat /\ i >= 1 /\ i <= Len(rules) + 1
    BY <1>1, <1>2, NamesApart
  <2>2. /\ skip \in Nat /\ engine \in BOOLEAN /\ sawStarter \in BOOLEAN /\ skipped \in BOOLEAN
    BY <1>1
  <2>3. QED
    BY <1>1, <1>2, <2>1, <2>2 DEF TypeInv
<1>4. Given = {} /\ 1..Len(rules) = {}
  BY <1>2 DEF Given
<1>5. DirectiveShape /\ ChainShape /\ MarkerShape /\ TargetShape
  BY <1>4 DEF DirectiveShape, ChainShape, MarkerShape, TargetShape
<1>6. GoneShape
  BY <1>1, <1>4 DEF GoneShape
<1>7. EntryShape /\ OrderShape /\ PlacedShape
  BY <1>4 DEF EntryShape, OrderShape, PlacedShape
<1>8. ConfigInv
  BY <1>5, <1>6, <1>7 DEF ConfigInv
<1>9. StartShape /\ Configuring
  BY <1>1 DEF StartShape, Configuring
<1>10. TraceShape /\ LoopShape
  BY <1>3, <1>8, <1>9, StartLoop
<1>11. QED
  BY <1>3, <1>8, <1>9, <1>10 DEF Inv

LEMMA StepKeeps ==
    ASSUME Inv, SplitsChains = {}, [Next]_vars
    PROVE  Inv'
<1>1. CASE Configure
  BY <1>1, ConfigureKeeps
<1>2. CASE ProcessPhase
  BY <1>2, ProcessPhaseKeeps
<1>3. CASE UNCHANGED vars
  BY <1>3, StillKeeps DEF vars
<1>4. QED
  BY <1>1, <1>2, <1>3 DEF Next

LEMMA StepRuns ==
    ASSUME Inv, SplitsChains = {}, [Next]_vars
    PROVE  /\ trace' # trace => Last(trace').no = Expected
           /\ rc = None /\ rc' = 0 => Expected = End
<1>1. None # 0
  BY NamesApart
<1>2. CASE Configure
  BY <1>1, <1>2, ConfigureKeeps
<1>3. CASE ProcessPhase
  BY <1>1, <1>3, ProcessPhaseKeeps
<1>4. CASE UNCHANGED vars
  BY <1>1, <1>4 DEF vars
<1>5. QED
  BY <1>2, <1>3, <1>4 DEF Next

\* While the directives are read and the rules of the phase run, the array is
\* what the directives left, and the loop's variables say what comes next.
THEOREM WalkAlways == SplitsChains = {} => (Spec => []Inv)
<1> SUFFICES ASSUME SplitsChains = {} PROVE Spec => []Inv
  OBVIOUS
<1>1. Inv /\ [Next]_vars => Inv'
  BY StepKeeps
<1>2. QED
  BY <1>1, StartsInv, PTL DEF Spec

\* The loop reaches exactly the rules the directives call for, in order
\* (msre_ruleset_process_phase), when no skipAfter leads into a chain.
THEOREM RunsAsWrittenAlways == SplitsChains = {} => (Spec => RunsAsWritten)
<1> SUFFICES ASSUME SplitsChains = {} PROVE Spec => RunsAsWritten
  OBVIOUS
<1>1. Inv /\ [Next]_vars =>
         [/\ trace' # trace => Last(trace').no = Expected
          /\ rc = None /\ rc' = 0 => Expected = End]_vars
  BY StepRuns
<1>2. QED
  BY <1>1, WalkAlways, PTL DEF Spec, RunsAsWritten
-----------------------------------------------------------------------------
(* Chains start at their first rule.                                       *)

LEMMA UnitOrEnd ==
    ASSUME TypeInv, NEW b, NEW k
    PROVE  UnitAfter(b, k) \in Units \cup {End}
<1> DEFINE T == {End} \cup Leaving(b, k)
<1>1. Units \subseteq Nat /\ End \in Nat
  BY DirectiveTypes DEF Units, Given, End
<1>2. Leaving(b, k) \subseteq Units
  BY DEF Leaving, UnitsAfter
<1>3. T \subseteq Nat /\ T # {}
  BY <1>1, <1>2
<1> HIDE DEF T
<1>4. Min(T) \in T
  BY <1>3, MinIs
<1>5. QED
  BY <1>2, <1>4, UnitAfterIs DEF T

LEMMA ChainRuns ==
    ASSUME TypeInv, ConfigInv, TraceShape, stage = "phase",
           NEW d, d = Expected, d \in Given, Chain(d) # d
    PROVE  /\ trace # <<>> /\ Matches(trace[Len(trace)].outcome)
           /\ Chain(trace[Len(trace)].no) = Chain(d)
<1>1. d \notin Units \cup {End}
  <2>1. d \notin Units
    BY DEF Units, Chain
  <2>2. d # End
    <3>1. d \in Nat /\ d <= MaxDirectives /\ MaxDirectives \in Nat
      BY DirectiveTypes DEF Numbers
    <3>2. QED
      BY <3>1 DEF End
  <2>3. QED
    BY <2>1, <2>2
<1>2. \A b, k : d # UnitAfter(b, k)
  BY <1>1, UnitOrEnd
<1>3. \A b, t : d # AfterTarget(b, t)
  BY <1>1, <1>2 DEF AfterTarget
<1>4. trace # <<>>
  BY <1>2, ExpectedIs
<1> DEFINE p == trace[Len(trace)].no
           o == trace[Len(trace)].outcome
<1>5. p \in Given /\ p \in Nat
  BY <1>4, DirectiveTypes DEF TraceShape
<1>6. d = ExpectedAfter(p, o)
  BY <1>4, ExpectedIs
<1>7. Matches(o) /\ directives[p].chained /\ d = p + 1
  <2> HIDE DEF p, o
  <2>1. QED
    BY <1>1, <1>2, <1>3, <1>6 DEF ExpectedAfter
<1>8. p < Len(directives)
  <2>1. d <= Len(directives) /\ Len(directives) \in Nat
    BY DirectiveTypes DEF Given
  <2>2. QED
    BY <1>5, <1>7, <2>1
<1>9. Chain(d) = Chain(p)
  BY <1>5, <1>7, <1>8, ChainGoesOn
<1>10. QED
  BY <1>4, <1>7, <1>9

LEMMA StepChains ==
    ASSUME Inv, SplitsChains = {}, [Next]_vars, ChainsFromTheStart
    PROVE  ChainsFromTheStart'
<1>1. TypeInv /\ ConfigInv /\ StartShape /\ TraceShape /\ LoopShape
  BY DEF Inv
<1>2. CASE UNCHANGED <<config, trace>>
  BY <1>2 DEF config, ChainsFromTheStart, Matches
<1>3. CASE Configure
  <2>1. stage = "config"
    BY <1>3 DEF Configure, AddRule, AddMarker, RemoveRule, StartPhase
  <2>2. trace' = <<>>
    BY <1>1, <1>3, <2>1, ConfigureKeeps DEF StartShape
  <2>3. QED
    BY <2>2 DEF ChainsFromTheStart
<1>4. ASSUME ProcessPhase, trace' # trace
      PROVE  ChainsFromTheStart'
  <2>1. UNCHANGED config
    BY <1>4, ProcessPhaseKeeps
  <2>2. PICK o \in Outcomes : Processing /\ engine /\ Record(o)
    BY <1>4 DEF ProcessPhase, SkipIntoChain, SkipOver, SkipEnds, PassPlaceholder, PassChain,
                SkipCounted, EngineOff, EndOfRules, RuleFails, RuleEndsPhase, RuleMatches
  <2> DEFINE d == rules[i].no
             n == Len(trace)
             w == [no |-> d, outcome |-> Told(o)]
  <2>3. stage = "phase" /\ d \in Given /\ d = Expected
    BY <1>1, <2>1, <2>2, RuleRuns
  <2>4. trace' = Append(trace, w) /\ w \in TraceRecords /\ ListOf(trace, TraceRecords)
    <3>1. Told(o) \in Outcomes /\ d \in Nat
      BY <1>1, <2>3, DirectiveTypes DEF Told, Outcomes
    <3>2. QED
      BY <1>1, <2>2, <3>1 DEF Record, rule, Told, TraceShape, TraceRecords
  <2>5. w.no = d
    OBVIOUS
  <2> HIDE DEF w
  <2>6. /\ Len(trace') = n + 1 /\ trace'[n + 1] = w /\ n \in Nat
        /\ \A k \in 1..n : trace'[k] = trace[k]
    BY <2>4, ListAppend, ListElement
  <2>7. directives' = directives
    BY <2>1, SameUnits
  <2> SUFFICES ASSUME NEW m \in 1..Len(trace'), Chain(trace'[m].no) # trace'[m].no
               PROVE  /\ m > 1 /\ Matches(trace'[m - 1].outcome)
                      /\ Chain(trace'[m - 1].no) = Chain(trace'[m].no)
    BY <2>7 DEF ChainsFromTheStart, Matches, Chain
  <2>8. CASE m <= n
    <3>1. m \in 1..n /\ m - 1 \in 0..n
      BY <2>6, <2>8
    <3>2. /\ m > 1 /\ Matches(trace[m - 1].outcome)
          /\ Chain(trace[m - 1].no) = Chain(trace[m].no)
      BY <2>6, <3>1 DEF ChainsFromTheStart, Chain
    <3>3. m - 1 \in 1..n
      BY <2>6, <3>1, <3>2
    <3>4. QED
      BY <2>6, <3>1, <3>2, <3>3
  <2>9. CASE ~(m <= n)
    <3>1. m = n + 1
      BY <2>6, <2>9
    <3>2. trace # <<>> /\ Matches(trace[n].outcome) /\ Chain(trace[n].no) = Chain(d)
      BY <1>1, <2>3, <2>5, <2>6, <3>1, ChainRuns
    <3>3. n > 0
      <4>1. n = 0 => trace = <<>>
        BY <2>4 DEF ListOf
      <4>2. QED
        BY <2>6, <3>2, <4>1
    <3>4. m > 1 /\ m - 1 = n /\ n \in 1..n
      BY <2>6, <3>1, <3>3
    <3>5. QED
      BY <2>5, <2>6, <3>1, <3>2, <3>4
  <2>10. QED
    BY <2>8, <2>9
<1>5. ASSUME ProcessPhase, trace' = trace PROVE ChainsFromTheStart'
  BY <1>2, <1>5, ProcessPhaseKeeps
<1>6. QED
  BY <1>2, <1>3, <1>4, <1>5 DEF Next, vars

\* A rule inside a chain runs only right after the rule before it in the chain
\* matched (msre_ruleset_process_phase), when no skipAfter leads into a chain.
THEOREM ChainsFromTheStartAlways == SplitsChains = {} => (Spec => []ChainsFromTheStart)
<1> SUFFICES ASSUME SplitsChains = {} PROVE Spec => []ChainsFromTheStart
  OBVIOUS
<1>1. Init => ChainsFromTheStart
  BY DEF Init, ChainsFromTheStart
<1>2. Inv /\ ChainsFromTheStart /\ [Next]_vars => ChainsFromTheStart'
  BY StepChains
<1>3. QED
  BY <1>1, <1>2, WalkAlways, PTL DEF Spec
=============================================================================
