------------------------- MODULE RuleTargetsSafety -------------------------
(***************************************************************************)
(* What the operator of a rule sees, proved for all texts, transformations *)
(* and rules, any number of rules in a phase and any settings of the cache.*)
(*                                                                         *)
(* The model defines lists, steps and the removal of a name by recursion   *)
(* on the natural numbers.  Induction is proved here from the fact that    *)
(* proper inclusion of finite sets is well founded, and with it that such  *)
(* functions exist and do what their definitions say.                      *)
(***************************************************************************)
EXTENDS RuleTargets, FiniteSetTheorems, WellFoundedInduction, TLAPS

LEMMA Least ==
    ASSUME NEW T, T \subseteq Nat, T # {}
    PROVE  \E m \in T : \A k1 \in T : m <= k1
<1> DEFINE Below(n) == 1..n
           Sets == {Below(n) : n \in T}
<1>1. Sets \subseteq FiniteSubsetsOf(Nat)
  BY FS_Interval DEF FiniteSubsetsOf
<1>2. Sets # {}
  OBVIOUS
<1>3. PICK x \in Sets : \A y \in Sets : ~ (<<y, x>> \in StrictSubsetOrdering(Nat))
  BY <1>1, <1>2, FS_StrictSubsetOrderingWellFounded, WFMin
<1>4. PICK m \in T : x = Below(m)
  OBVIOUS
<1>5. ASSUME NEW j \in T, j < m PROVE FALSE
  <2>1. Below(j) \in Sets /\ Below(j) \subseteq Below(m) /\ Below(j) # Below(m)
    <3>1. m \in Below(m) /\ m \notin Below(j)
      BY <1>5
    <3>2. QED
      BY <1>5, <3>1
  <2>2. <<Below(j), x>> \in StrictSubsetOrdering(Nat)
    BY <2>1, <1>1, <1>4 DEF StrictSubsetOrdering, FiniteSubsetsOf
  <2>3. QED
    BY <2>1, <2>2, <1>3
<1>6. QED
  BY <1>5

LEMMA Induct ==
    ASSUME NEW S, 0 \in S, \A n \in Nat : n \in S => n + 1 \in S
    PROVE  \A n \in Nat : n \in S
<1> SUFFICES ASSUME NEW n \in Nat, n \notin S PROVE FALSE
  OBVIOUS
<1> DEFINE T == {j \in Nat : j \notin S}
<1>1. PICK m \in T : \A j \in T : m <= j
  BY Least
<1>2. m # 0 /\ m - 1 \in Nat /\ m - 1 \notin T
  BY <1>1
<1>3. QED
  BY <1>2

\* The steps of a recursion over D, and a function they define.
StepFunctions(N, D) == [1..N -> [D -> D]]
Recursion(f, N, D, c, F) ==
    f \in [0..N -> D] /\ f[0] = c /\ \A n \in 1..N : f[n] = F[n][f[n - 1]]

\* A function on 0..N is well defined by its value at 0 and a step.
LEMMA RecursionDefines ==
    ASSUME NEW N \in Nat, NEW D, NEW c \in D, NEW F \in StepFunctions(N, D)
    PROVE  \E f : Recursion(f, N, D, c, F)
<1> DEFINE Good(m) == \E f \in [0..m -> D] :
                         f[0] = c /\ \A n \in 1..m : f[n] = F[n][f[n - 1]]
           S == {m \in Nat : m <= N => Good(m)}
<1>1. 0 \in S
  <2> DEFINE g == [n \in 0..0 |-> c]
  <2>1. g \in [0..0 -> D] /\ g[0] = c
    OBVIOUS
  <2>2. \A n \in 1..0 : g[n] = F[n][g[n - 1]]
    OBVIOUS
  <2>3. Good(0)
    BY <2>1, <2>2
  <2>4. QED
    BY <2>3
<1>2. ASSUME NEW m \in Nat, m \in S PROVE m + 1 \in S
  <2> SUFFICES ASSUME m + 1 <= N PROVE Good(m + 1)
    OBVIOUS
  <2>1. PICK f \in [0..m -> D] : f[0] = c /\ \A n \in 1..m : f[n] = F[n][f[n - 1]]
    BY <1>2
  <2> DEFINE g == [n \in 0 .. m + 1 |-> IF n = m + 1 THEN F[m + 1][f[m]] ELSE f[n]]
  <2>2. F[m + 1][f[m]] \in D
    BY DEF StepFunctions
  <2>3. g \in [0 .. m + 1 -> D]
    BY <2>2
  <2>4. g[0] = c
    BY <2>1
  <2>5. ASSUME NEW n \in 1 .. m + 1 PROVE g[n] = F[n][g[n - 1]]
    <3>1. n - 1 \in 0..m /\ g[n - 1] = f[n - 1]
      OBVIOUS
    <3>2. CASE n = m + 1
      BY <3>1, <3>2
    <3>3. CASE n # m + 1
      <4>1. n \in 1..m /\ g[n] = f[n]
        BY <3>3
      <4>2. f[n] = F[n][f[n - 1]]
        BY <4>1, <2>1
      <4>3. QED
        BY <4>1, <4>2, <3>1
    <3>4. QED
      BY <3>2, <3>3
  <2>6. QED
    BY <2>3, <2>4, <2>5
<1>3. \A m \in Nat : m \in S
  <2> HIDE DEF S
  <2>1. QED
    BY <1>1, <1>2, Induct
<1>4. Good(N)
  BY <1>3
<1>5. QED
  BY <1>4 DEF Recursion

\* What holds at 0 and is kept by every step holds up to N.
LEMMA StepsStay ==
    ASSUME NEW N \in Nat, NEW D, NEW g, g[0] \in D,
           \A n \in 1..N : g[n - 1] \in D => g[n] \in D
    PROVE  \A n \in 0..N : g[n] \in D
<1> DEFINE S == {n \in Nat : n <= N => g[n] \in D}
<1>1. 0 \in S
  OBVIOUS
<1>2. ASSUME NEW n \in Nat, n \in S PROVE n + 1 \in S
  <2> SUFFICES ASSUME n + 1 <= N PROVE g[n + 1] \in D
    OBVIOUS
  <2>1. n + 1 \in 1..N /\ (n + 1) - 1 = n /\ g[n] \in D
    BY <1>2
  <2>2. QED
    BY <2>1
<1>3. \A n \in Nat : n \in S
  <2> HIDE DEF S
  <2>1. QED
    BY <1>1, <1>2, Induct
<1>4. QED
  BY <1>3

-----------------------------------------------------------------------------
(* The operators of the model.                                             *)

LEMMA TfnsKept == \A t \in TfnNames, text \in Texts :
                     Tfn(t, text) \in Texts /\ Reports(t, text) \in BOOLEAN
  BY TargetsAssumption

Kept(list, e, name) == IF e = name THEN list ELSE Append(list, e)

\* Taking a name out of a list leaves a list.
LEMMA WithoutType ==
    ASSUME NEW list \in Seq(TfnNames), NEW name
    PROVE  Without(list, name) \in Seq(TfnNames)
<1> DEFINE N == Len(list)
           F == [n \in 1..N |-> [d \in Seq(TfnNames) |-> Kept(d, list[n], name)]]
           Is(f) == f = [n \in 0..N |-> IF n = 0 THEN <<>>
                                         ELSE Kept(f[n - 1], list[n], name)]
<1>1. N \in Nat
  OBVIOUS
<1>2. \A n \in 1..N, d \in Seq(TfnNames) : Kept(d, list[n], name) \in Seq(TfnNames)
  BY DEF Kept
<1>3. F \in StepFunctions(N, Seq(TfnNames))
  BY <1>2 DEF StepFunctions
<1>4. <<>> \in Seq(TfnNames)
  OBVIOUS
<1>5. PICK f : Recursion(f, N, Seq(TfnNames), <<>>, F)
  <2> HIDE DEF F, N
  <2>1. QED
    BY <1>1, <1>3, <1>4, RecursionDefines
<1>6. ASSUME NEW n \in 1..N PROVE f[n] = Kept(f[n - 1], list[n], name)
  <2>1. n - 1 \in 0..N /\ f[n - 1] \in Seq(TfnNames)
    BY <1>5 DEF Recursion
  <2>2. f[n] = F[n][f[n - 1]]
    BY <1>5 DEF Recursion
  <2>3. QED
    BY <2>1, <2>2
<1>7. Is(f)
  <2>1. \A n \in 0..N : f[n] = IF n = 0 THEN <<>> ELSE Kept(f[n - 1], list[n], name)
    BY <1>5, <1>6 DEF Recursion
  <2>2. QED
    BY <1>5, <2>1 DEF Recursion
<1>8. Without(list, name) = (CHOOSE g : Is(g))[N]
  BY DEF Without, Kept
<1>9. PICK g : Is(g) /\ Without(list, name) = g[N]
  BY <1>7, <1>8
<1>10. QED
  <2>1. g = [n \in 0..N |-> IF n = 0 THEN <<>> ELSE Kept(g[n - 1], list[n], name)]
    BY <1>9
  <2>2. g[0] = <<>> /\ \A n \in 1..N : g[n] = Kept(g[n - 1], list[n], name)
    BY <2>1, <1>1
  <2>3. \A n \in 1..N : g[n - 1] \in Seq(TfnNames) => g[n] \in Seq(TfnNames)
    BY <2>2, <1>2
  <2>4. \A n \in 0..N : g[n] \in Seq(TfnNames)
    <3> HIDE DEF N
    <3>1. QED
      BY <2>2, <2>3, <1>1, <1>4, StepsStay
  <2>5. QED
    BY <2>4, <1>1, <1>9

ListActions == [name : TfnNames \cup {"none"}, minus : BOOLEAN]

LEMMA ListedType ==
    \A list \in Seq(TfnNames), t \in ListActions : Listed(list, t) \in Seq(TfnNames)
<1> TAKE list \in Seq(TfnNames), t \in ListActions
<1>1. CASE t.name = "none"
  BY <1>1 DEF Listed
<1>2. CASE t.name # "none"
  <2>1. t.name \in TfnNames
    BY <1>2 DEF ListActions
  <2>2. CASE t.minus
    BY <1>2, <2>1, <2>2, WithoutType DEF Listed
  <2>3. CASE ~t.minus
    BY <1>2, <2>1, <2>3 DEF Listed
  <2>4. QED
    BY <2>2, <2>3
<1>3. QED
  BY <1>1, <1>2

\* The lists after each action of a rule.
LEMMA ListsDef ==
    ASSUME NEW tfns \in Seq(ListActions)
    PROVE  /\ Lists(tfns) \in [0..Len(tfns) -> Seq(TfnNames)]
           /\ Lists(tfns)[0] = <<>>
           /\ \A n \in 1..Len(tfns) :
                 Lists(tfns)[n] = Listed(Lists(tfns)[n - 1], tfns[n])
<1> DEFINE N == Len(tfns)
           F == [n \in 1..N |-> [d \in Seq(TfnNames) |-> Listed(d, tfns[n])]]
           Is(f) == f = [n \in 0..N |-> IF n = 0 THEN <<>>
                                         ELSE Listed(f[n - 1], tfns[n])]
<1>1. N \in Nat
  OBVIOUS
<1>2. \A n \in 1..N, d \in Seq(TfnNames) : Listed(d, tfns[n]) \in Seq(TfnNames)
  BY ListedType
<1>3. F \in StepFunctions(N, Seq(TfnNames))
  BY <1>2 DEF StepFunctions
<1>4. <<>> \in Seq(TfnNames)
  OBVIOUS
<1>5. PICK f : Recursion(f, N, Seq(TfnNames), <<>>, F)
  <2> HIDE DEF F, N
  <2>1. QED
    BY <1>1, <1>3, <1>4, RecursionDefines
<1>6. ASSUME NEW n \in 1..N PROVE f[n] = Listed(f[n - 1], tfns[n])
  <2>1. n - 1 \in 0..N /\ f[n - 1] \in Seq(TfnNames)
    BY <1>5 DEF Recursion
  <2>2. f[n] = F[n][f[n - 1]]
    BY <1>5 DEF Recursion
  <2>3. QED
    BY <2>1, <2>2
<1>7. Is(f)
  <2>1. \A n \in 0..N : f[n] = IF n = 0 THEN <<>> ELSE Listed(f[n - 1], tfns[n])
    BY <1>5, <1>6 DEF Recursion
  <2>2. QED
    BY <1>5, <2>1 DEF Recursion
<1>8. Lists(tfns) = CHOOSE g : Is(g)
  BY DEF Lists
<1>9. Is(Lists(tfns))
  BY <1>7, <1>8
<1>10. QED
  <2> DEFINE g == Lists(tfns)
  <2> HIDE DEF g
  <2>1. g = [n \in 0..N |-> IF n = 0 THEN <<>> ELSE Listed(g[n - 1], tfns[n])]
    BY <1>9 DEF g
  <2>2. g[0] = <<>> /\ \A n \in 1..N : g[n] = Listed(g[n - 1], tfns[n])
    BY <2>1, <1>1
  <2>3. \A n \in 1..N : g[n - 1] \in Seq(TfnNames) => g[n] \in Seq(TfnNames)
    BY <2>2, <1>2
  <2>4. \A n \in 0..N : g[n] \in Seq(TfnNames)
    <3> HIDE DEF N
    <3>1. QED
      BY <2>2, <2>3, <1>1, <1>4, StepsStay
  <2>5. g \in [0..N -> Seq(TfnNames)]
    BY <2>1, <2>4
  <2>6. QED
    BY <2>5, <2>2 DEF g

\* The steps of a text.
LEMMA StepsDef ==
    ASSUME NEW text \in Texts, NEW list \in Seq(TfnNames)
    PROVE  /\ Steps(text, list) \in [0..Len(list) -> Texts]
           /\ Steps(text, list)[0] = text
           /\ \A n \in 1..Len(list) :
                 Steps(text, list)[n] = Tfn(list[n], Steps(text, list)[n - 1])
<1> DEFINE N == Len(list)
           F == [n \in 1..N |-> [d \in Texts |-> Tfn(list[n], d)]]
           Is(f) == f = [n \in 0..N |-> IF n = 0 THEN text
                                         ELSE Tfn(list[n], f[n - 1])]
<1>1. N \in Nat
  OBVIOUS
<1>2. \A n \in 1..N, d \in Texts : Tfn(list[n], d) \in Texts
  BY TfnsKept
<1>3. F \in StepFunctions(N, Texts)
  BY <1>2 DEF StepFunctions
<1>4. text \in Texts
  OBVIOUS
<1>5. PICK f : Recursion(f, N, Texts, text, F)
  <2> HIDE DEF F, N
  <2>1. QED
    BY <1>1, <1>3, <1>4, RecursionDefines
<1>6. ASSUME NEW n \in 1..N PROVE f[n] = Tfn(list[n], f[n - 1])
  <2>1. n - 1 \in 0..N /\ f[n - 1] \in Texts
    BY <1>5 DEF Recursion
  <2>2. f[n] = F[n][f[n - 1]]
    BY <1>5 DEF Recursion
  <2>3. QED
    BY <2>1, <2>2
<1>7. Is(f)
  <2>1. \A n \in 0..N : f[n] = IF n = 0 THEN text ELSE Tfn(list[n], f[n - 1])
    BY <1>5, <1>6 DEF Recursion
  <2>2. QED
    BY <1>5, <2>1 DEF Recursion
<1>8. Steps(text, list) = CHOOSE g : Is(g)
  BY DEF Steps
<1>9. Is(Steps(text, list))
  BY <1>7, <1>8
<1>10. QED
  <2> DEFINE g == Steps(text, list)
  <2> HIDE DEF g
  <2>1. g = [n \in 0..N |-> IF n = 0 THEN text ELSE Tfn(list[n], g[n - 1])]
    BY <1>9 DEF g
  <2>2. g[0] = text /\ \A n \in 1..N : g[n] = Tfn(list[n], g[n - 1])
    BY <2>1, <1>1
  <2>3. \A n \in 1..N : g[n - 1] \in Texts => g[n] \in Texts
    BY <2>2, <1>2
  <2>4. \A n \in 0..N : g[n] \in Texts
    <3> HIDE DEF N
    <3>1. QED
      BY <2>2, <2>3, <1>1, <1>4, StepsStay
  <2>5. g \in [0..N -> Texts]
    BY <2>1, <2>4
  <2>6. QED
    BY <2>5, <2>2 DEF g
-----------------------------------------------------------------------------
(* The inductive invariant. *)

PerTarget == {"list", "loop", "transform", "last"}

Entries == [name : Names \cup DOMAIN Variables, counting : BOOLEAN, unset : BOOLEAN]
Paths == Seq(TfnNames)
Records == [value : Texts, changed : BOOLEAN, path : Paths]
Calls == [at : Nat, value : Texts]

\* Sequences, by a name that hides their types from the provers.
ListOf(s, S) == s \in Seq(S)

ControlType ==
    /\ cfg \in Configs
    /\ rc \in {"none", "match", "no_match", "intercepted", "error"}
    /\ pc \in {"idle", "expand", "targets", "list", "loop", "transform", "last"}
    /\ rule # Null \/ pc # "idle" => rule \in Rules
    /\ i \in Nat /\ i >= 1 /\ k \in Nat

FlagType == hit \in BOOLEAN /\ changed \in BOOLEAN /\ tfnchanged \in BOOLEAN

PathType ==
    /\ norm \in Paths /\ path \in Paths
    /\ last # Null \/ hit => last \in Records
    /\ lastval # Null => lastval \in Texts
    /\ pc \in PerTarget => value \in Texts

CacheType == \A key \in DOMAIN tcache : \A p \in DOMAIN tcache[key] : tcache[key][p] \in Records

TypeOK ==
    /\ ControlType /\ FlagType /\ PathType /\ CacheType
    /\ ListOf(tartab, Entries) /\ ListOf(seen, Calls)

\* Another text that may be cached has the same first bytes.
Shared(text) == \E w \in Names : /\ Cacheable(w) /\ Text(w, FALSE) # text
                                 /\ Prefix(Text(w, FALSE)) = Prefix(text)

HasMinus(tfns) == \E n \in DOMAIN tfns : tfns[n].minus

\* A text when a list of transformations is done with it.
End(text, list) == Steps(text, list)[Len(list)]

\* Every change that a list of transformations makes to a text is reported.
Quiet(text, list) ==
    \A n \in 1..Len(list) :
       Steps(text, list)[n] # Steps(text, list)[n - 1]
       => Reports(list[n], Steps(text, list)[n - 1])

\* A record holds what the transformations on its path make of the text,
\* if they report what they change.
Holds(record, text) == Quiet(text, record.path) =>
                           /\ record.value = End(text, record.path)
                           /\ ~record.changed => record.value = text

\* Nothing is stored any more.
Full == cfg.maxitems # 0 /\ items >= cfg.maxitems

\* The cache may give the wrong value for a target.
Deceived(j) == Mistaken(tartab[j]) \/ Silenced(j)

\* Every record is filed under its path, and holds what it should unless
\* another text shares its table.
CacheShape ==
    /\ \A key \in DOMAIN tcache : \A p \in DOMAIN tcache[key] :
          tcache[key][p].path = p
    /\ \A w \in Names :
          LET text == Text(w, FALSE) IN
          Cacheable(w) /\ ~Shared(text) /\ Prefix(text) \in DOMAIN tcache =>
             \A p \in DOMAIN tcache[Prefix(text)] : Holds(tcache[Prefix(text)][p], text)

\* Variables that are counted have the names of targets.
EntriesShape == \A j \in DOMAIN tartab : ~tartab[j].counting => tartab[j].name \in Names

\* Between targets the variables of the loop are gone.
BetweenShape ==
    pc \notin PerTarget => /\ norm = <<>> /\ path = <<>> /\ last = Null /\ ~hit
                           /\ k = 1 /\ ~changed /\ ~tfnchanged /\ lastval = Null

TargetShape ==
    pc \in PerTarget => /\ i \in DOMAIN tartab /\ ~var.unset
                        /\ UseCache(var) => CacheKey(var) \in DOMAIN tcache

Starts(p, q) == Len(p) <= Len(q) /\ \A n \in 1..Len(p) : p[n] = q[n]

\* The record found last belongs to the target and, without t:-x, to a part
\* of the list so far.
ListShape ==
    pc = "list" =>
        /\ k \in 1 .. Len(rule.tfns) + 1
        /\ norm = Lists(rule.tfns)[k - 1]
        /\ value = Original(i) /\ ~changed /\ ~tfnchanged /\ lastval = Null
        /\ last # Null \/ hit =>
              /\ UseCache(var)
              /\ Shared(Original(i)) \/ Holds(last, Original(i))
              /\ hit => last.path = path
              /\ HasMinus(rule.tfns) \/ Starts(last.path, norm)
        /\ HasMinus(rule.tfns) \/ path = norm

\* The values the operator has seen of target j.
ValuesIn(calls, j) == {calls[n].value : n \in {m \in DOMAIN calls : calls[m].at = j}}

\* The values of target j that were seen or come from a silent change.
SilentValues(j) ==
    LET list == Normalisation(rule.tfns)
    IN  {Steps(Original(j), list)[n] : n \in Silent(Original(j), list)}
Met(calls, j) == ValuesIn(calls, j) \cup SilentValues(j)

\* In the loop the value is that of the path and, when the list is the path,
\* of step k of the list.  A value stored for the target is the current one
\* until the cache is full; one that is stored at the end only comes last.
LoopShape ==
    pc \in {"loop", "transform"} =>
        /\ norm = Normalisation(rule.tfns)
        /\ tfnchanged => changed
        /\ pc = "transform" => k < Len(norm)
        /\ lastval # Null => cfg.incremental \/ k >= Len(norm)
        /\ UseCache(var) /\ ~Shared(Original(i)) /\ Quiet(Original(i), path) =>
              /\ value = End(Original(i), path) /\ (~changed => value = Original(i))
              /\ lastval # Null => Full \/ lastval = value
        /\ rule.multi \/ ~Deceived(i) =>
              k <= Len(norm) /\ value = Steps(Original(i), norm)[k]

\* With multiMatch every value up to here has been seen, the first one in any
\* case and the others unless a silent change made them.
MultiShape ==
    pc \in {"loop", "transform"} /\ rule.multi /\ i \in Inspected =>
        /\ \A n \in 0 .. k - 1 : Steps(Original(i), norm)[n] \in Met(seen, i)
        /\ pc = "transform" \/ (k > 0 /\ ~tfnchanged) => value \in Met(seen, i)
        /\ pc = "transform" \/ k > 0 => Original(i) \in ValuesIn(seen, i)

LastShape ==
    pc = "last" =>
        /\ norm = Normalisation(rule.tfns)
        /\ rule.multi \/ ~Deceived(i) => value = End(Original(i), norm)
        /\ rule.multi /\ i \in Inspected =>
              /\ \A n \in 0 .. Len(norm) - 1 : Steps(Original(i), norm)[n] \in Met(seen, i)
              /\ Len(norm) > 0 => Original(i) \in ValuesIn(seen, i)

\* The calls so far.
SeenShape ==
    /\ pc = "expand" => seen = <<>>
    /\ \A n \in DOMAIN seen :
          /\ seen[n].at \in Inspected /\ seen[n].at <= i
          /\ \/ pc \in {"targets", "list"}
             \/ ~rule.multi /\ pc \in {"loop", "transform", "last"}
             => seen[n].at < i
    /\ pc = "idle" /\ rc \in {"match", "no_match"} => i > Len(tartab)

SingleShape ==
    rule # Null /\ ~rule.multi =>
        /\ \A m, n \in DOMAIN seen : m < n => seen[m].at < seen[n].at
        /\ \A n \in DOMAIN seen :
              \/ Deceived(seen[n].at)
              \/ seen[n].value = End(Original(seen[n].at), Normalisation(rule.tfns))
        /\ pc # "expand" => \A j \in Inspected : j < i => \E n \in DOMAIN seen : seen[n].at = j

StepValues(j) ==
    LET list == Normalisation(rule.tfns)
    IN  {Steps(Original(j), list)[n] : n \in 0..Len(list)}

EveryShape ==
    rule # Null /\ rule.multi /\ Normalisation(rule.tfns) # <<>> =>
        /\ \A n \in DOMAIN seen : seen[n].value \in StepValues(seen[n].at)
        /\ pc # "expand" => \A j \in Inspected : j < i =>
              StepValues(j) \subseteq Met(seen, j) /\ Original(j) \in ValuesIn(seen, j)

Inv ==
    /\ TypeOK /\ CacheShape /\ EntriesShape /\ BetweenShape /\ TargetShape
    /\ ListShape /\ LoopShape /\ MultiShape /\ LastShape
    /\ SeenShape /\ SingleShape /\ EveryShape

-----------------------------------------------------------------------------
(* Ends of lists. *)

Begins(p, q) == p \in Seq(TfnNames) /\ q \in Seq(TfnNames) /\ Starts(p, q)

LEMMA StepsStart ==
    ASSUME NEW text \in Texts, NEW p, NEW q, Begins(p, q)
    PROVE  \A n \in 0..Len(p) : Steps(text, p)[n] = Steps(text, q)[n]
<1> DEFINE N == Len(p)
           f == Steps(text, p)
           g == Steps(text, q)
           S == {n \in Nat : n <= N => f[n] = g[n]}
<1>1. /\ N \in Nat /\ Len(q) \in Nat /\ N <= Len(q)
      /\ \A n \in 1..N : p[n] = q[n]
  BY DEF Begins, Starts
<1>2. /\ f[0] = text /\ \A n \in 1..N : f[n] = Tfn(p[n], f[n - 1])
      /\ g[0] = text /\ \A n \in 1..Len(q) : g[n] = Tfn(q[n], g[n - 1])
  BY StepsDef DEF Begins
<1> HIDE DEF f, g, N
<1>3. 0 \in S
  BY <1>2
<1>4. ASSUME NEW n \in Nat, n \in S PROVE n + 1 \in S
  <2> SUFFICES ASSUME n + 1 <= N PROVE f[n + 1] = g[n + 1]
    OBVIOUS
  <2>1. n + 1 \in 1..N /\ n + 1 \in 1..Len(q) /\ (n + 1) - 1 = n /\ f[n] = g[n]
    BY <1>1, <1>4
  <2>2. QED
    BY <1>1, <1>2, <2>1
<1>5. \A n \in Nat : n \in S
  <2> HIDE DEF S
  <2>1. QED
    BY <1>3, <1>4, Induct
<1>6. \A n \in 0..N : f[n] = g[n]
  BY <1>1, <1>5
<1>7. QED
  BY <1>6 DEF f, g, N

LEMMA EndType ==
    ASSUME NEW text \in Texts, NEW list \in Seq(TfnNames)
    PROVE  End(text, list) \in Texts
  BY StepsDef DEF End

LEMMA EndEmpty ==
    ASSUME NEW text \in Texts
    PROVE  End(text, <<>>) = text
<1>1. <<>> \in Seq(TfnNames) /\ Len(<<>>) = 0
  OBVIOUS
<1>2. QED
  BY <1>1, StepsDef DEF End

LEMMA EndStarts ==
    ASSUME NEW text \in Texts, NEW p, NEW q, Begins(p, q)
    PROVE  Len(p) \in 0..Len(q) /\ End(text, p) = Steps(text, q)[Len(p)]
<1>1. Len(p) \in Nat /\ Len(q) \in Nat /\ Len(p) <= Len(q)
  BY DEF Begins, Starts
<1>2. QED
  BY <1>1, StepsStart DEF End

LEMMA EndAppend ==
    ASSUME NEW text \in Texts, NEW list \in Seq(TfnNames), NEW t \in TfnNames
    PROVE  End(text, Append(list, t)) = Tfn(t, End(text, list))
<1> DEFINE more == Append(list, t)
<1>1. /\ more \in Seq(TfnNames) /\ Len(more) = Len(list) + 1
      /\ Len(list) \in Nat /\ more[Len(list) + 1] = t
  OBVIOUS
<1>2. Begins(list, more)
  BY DEF Begins, Starts
<1>3. End(text, list) = Steps(text, more)[Len(list)]
  BY <1>2, EndStarts
<1>4. Steps(text, more)[Len(list) + 1] = Tfn(t, Steps(text, more)[Len(list)])
  <2>1. /\ Len(list) + 1 \in 1..Len(more) /\ (Len(list) + 1) - 1 = Len(list)
    BY <1>1
  <2>2. QED
    BY <1>1, <2>1, StepsDef
<1>5. QED
  BY <1>1, <1>3, <1>4 DEF End

\* No change is silent in a quiet list, and a part of a quiet list is quiet.
LEMMA QuietIs ==
    \A text, list : Silent(text, list) = {} <=> Quiet(text, list)
  BY DEF Silent, Quiet

LEMMA QuietStarts ==
    ASSUME NEW text \in Texts, NEW p, NEW q, Begins(p, q), Quiet(text, q)
    PROVE  Quiet(text, p)
<1>1. Len(p) \in Nat /\ Len(q) \in Nat /\ Len(p) <= Len(q) /\ \A n \in 1..Len(p) : p[n] = q[n]
  BY DEF Begins, Starts
<1>2. \A n \in 0..Len(p) : Steps(text, p)[n] = Steps(text, q)[n]
  BY StepsStart
<1>3. ASSUME NEW n \in 1..Len(p), Steps(text, p)[n] # Steps(text, p)[n - 1]
      PROVE  Reports(p[n], Steps(text, p)[n - 1])
  <2>1. n \in 0..Len(p) /\ n - 1 \in 0..Len(p) /\ n \in 1..Len(q)
    BY <1>1
  <2>2. /\ Steps(text, p)[n] = Steps(text, q)[n]
        /\ Steps(text, p)[n - 1] = Steps(text, q)[n - 1]
        /\ p[n] = q[n]
    BY <1>1, <1>2, <2>1
  <2>3. QED
    BY <1>3, <2>1, <2>2 DEF Quiet
<1>4. QED
  BY <1>3 DEF Quiet

\* The last step of a quiet list is quiet.
LEMMA QuietAppend ==
    ASSUME NEW text \in Texts, NEW list \in Seq(TfnNames), NEW t \in TfnNames,
           Quiet(text, Append(list, t))
    PROVE  /\ Quiet(text, list)
           /\ Tfn(t, End(text, list)) # End(text, list) => Reports(t, End(text, list))
<1> DEFINE more == Append(list, t)
<1>1. /\ more \in Seq(TfnNames) /\ Len(more) = Len(list) + 1
      /\ Len(list) \in Nat /\ more[Len(list) + 1] = t
  OBVIOUS
<1>2. Begins(list, more)
  BY DEF Begins, Starts
<1>3. End(text, list) = Steps(text, more)[Len(list)]
  BY <1>2, EndStarts
<1>4. Steps(text, more)[Len(list) + 1] = Tfn(t, End(text, list))
  BY <1>1, EndAppend DEF End
<1>5. Len(list) + 1 \in 1..Len(more) /\ (Len(list) + 1) - 1 = Len(list)
  BY <1>1
<1> HIDE DEF more
<1>6. Quiet(text, more)
  BY DEF more
<1>7. Steps(text, more)[Len(list) + 1] # Steps(text, more)[Len(list)]
      => Reports(t, Steps(text, more)[Len(list)])
  BY <1>1, <1>5, <1>6 DEF Quiet
<1>8. QED
  BY <1>2, <1>3, <1>4, <1>6, <1>7, QuietStarts
-----------------------------------------------------------------------------
(* Types. *)

Targets == [name : DOMAIN Variables, count : BOOLEAN, negated : BOOLEAN]

LEMMA RuleTypes ==
    ASSUME NEW r \in Rules
    PROVE  r.targets \in Seq(Targets) /\ r.tfns \in Seq(ListActions) /\ r.multi \in BOOLEAN
  BY TargetsAssumption DEF Targets, ListActions

LEMMA TextTypes ==
    /\ \A v \in Names \cup DOMAIN Variables, c \in BOOLEAN : Text(v, c) \in Texts
    /\ \A e \in Entries : Text(e.name, e.counting) \in Texts
<1>1. \A v \in Names \cup DOMAIN Variables, c \in BOOLEAN : Text(v, c) \in Texts
  BY TargetsAssumption
<1>2. QED
  BY <1>1 DEF Entries

LEMMA VariableTypes ==
    ASSUME NEW g \in DOMAIN Variables
    PROVE  Variables[g] \in Seq(Names)
  BY TargetsAssumption

LEMMA EntryType ==
    ASSUME NEW v \in Names \cup DOMAIN Variables, NEW c \in BOOLEAN
    PROVE  Entry(v, c) \in Entries
  BY DEF Entry, Entries

LEMMA ListElement ==
    ASSUME NEW S, NEW s, ListOf(s, S)
    PROVE  /\ Len(s) \in Nat /\ DOMAIN s = 1..Len(s)
           /\ \A j \in 1..Len(s) : s[j] \in S
  BY DEF ListOf

LEMMA ListAppend ==
    ASSUME NEW S, NEW s, ListOf(s, S), NEW e \in S
    PROVE  /\ ListOf(Append(s, e), S)
           /\ Len(Append(s, e)) = Len(s) + 1
           /\ DOMAIN Append(s, e) = 1 .. Len(s) + 1
           /\ Append(s, e)[Len(s) + 1] = e
           /\ \A j \in 1..Len(s) : Append(s, e)[j] = s[j]
  BY DEF ListOf

Joined(r, s, more) ==
    /\ DOMAIN r = 1 .. Len(s) + Len(more)
    /\ \A j \in 1 .. Len(s) + Len(more) :
          r[j] = IF j <= Len(s) THEN s[j] ELSE more[j - Len(s)]

LEMMA ListConcat ==
    ASSUME NEW S, NEW s, ListOf(s, S), NEW more, ListOf(more, S)
    PROVE  ListOf(s \o more, S) /\ Joined(s \o more, s, more)
  BY DEF ListOf, Joined

LEMMA ListMake ==
    ASSUME NEW S, NEW n \in Nat, NEW f \in [1..n -> S]
    PROVE  ListOf(f, S) /\ Len(f) = n
  BY DEF ListOf

\* The targets stay entries, and those that are not counted have names of
\* variables.
LEMMA ExpandTypes ==
    ASSUME ListOf(tartab, Entries), EntriesShape, rule \in Rules,
           i \in Nat \ {0}, ExpandTarget
    PROVE  ListOf(tartab', Entries) /\ EntriesShape'
<1> PICK t \in Targets : t = rule.targets[i]
  <2>1. ListOf(rule.targets, Targets)
    BY RuleTypes DEF ListOf
  <2>2. i \in 1..Len(rule.targets)
    <3>1. i <= Len(rule.targets)
      BY DEF ExpandTarget
    <3>2. Len(rule.targets) \in Nat
      BY <2>1, ListElement
    <3>3. QED
      BY <3>1, <3>2
  <2>3. QED
    BY <2>1, <2>2, ListElement
<1>1. t.name \in DOMAIN Variables
  BY DEF Targets
<1> PICK g : ListOf(g, Names) /\ g = Variables[t.name]
  BY <1>1, VariableTypes DEF ListOf
<1>2. \/ tartab' = Append(tartab, Entry(t.name, TRUE))
      \/ tartab' = tartab \o [j \in 1..Len(g) |-> Entry(g[j], FALSE)]
      \/ tartab' = [j \in DOMAIN tartab |->
                      [tartab[j] EXCEPT !.unset = @ \/
                         \E m \in DOMAIN g : tartab[j].name = g[m]]]
  BY DEF ExpandTarget
<1>3. CASE tartab' = Append(tartab, Entry(t.name, TRUE))
  <2>1. Entry(t.name, TRUE) \in Entries /\ Entry(t.name, TRUE).counting
    BY <1>1, EntryType DEF Entry
  <2>2. ListOf(tartab', Entries)
    BY <2>1, <1>3, ListAppend
  <2>3. \A j \in DOMAIN tartab' : \/ j \in DOMAIN tartab /\ tartab'[j] = tartab[j]
                                 \/ tartab'[j] = Entry(t.name, TRUE)
    <3>1. /\ Len(tartab) \in Nat /\ DOMAIN tartab = 1..Len(tartab)
          /\ DOMAIN tartab' = 1 .. Len(tartab) + 1
          /\ tartab'[Len(tartab) + 1] = Entry(t.name, TRUE)
          /\ \A j \in 1..Len(tartab) : tartab'[j] = tartab[j]
      <4> DEFINE e == Entry(t.name, TRUE)
      <4> HIDE DEF e
      <4>1. e \in Entries /\ tartab' = Append(tartab, e)
        BY <1>3, <2>1 DEF e
      <4>2. Len(tartab) \in Nat /\ DOMAIN tartab = 1..Len(tartab)
        BY ListElement
      <4>3. /\ DOMAIN Append(tartab, e) = 1 .. Len(tartab) + 1
            /\ Append(tartab, e)[Len(tartab) + 1] = e
            /\ \A j \in 1..Len(tartab) : Append(tartab, e)[j] = tartab[j]
        BY <4>1, ListAppend
      <4>4. QED
        BY <4>1, <4>2, <4>3 DEF e
    <3>2. \A j \in 1 .. Len(tartab) + 1 : j \in 1..Len(tartab) \/ j = Len(tartab) + 1
      BY <3>1
    <3>3. QED
      BY <3>1, <3>2
  <2>4. QED
    BY <2>1, <2>2, <2>3 DEF EntriesShape
<1>4. CASE tartab' = tartab \o [j \in 1..Len(g) |-> Entry(g[j], FALSE)]
  <2> DEFINE more == [j \in 1..Len(g) |-> Entry(g[j], FALSE)]
  <2>1. Len(g) \in Nat /\ \A j \in 1..Len(g) : g[j] \in Names
    BY ListElement
  <2>2. \A j \in 1..Len(g) : Entry(g[j], FALSE) \in Entries /\ Entry(g[j], FALSE).name \in Names
    BY <2>1, EntryType DEF Entry
  <2>3. /\ more \in [1..Len(g) -> Entries]
        /\ \A j \in 1..Len(g) : more[j].name \in Names
    BY <2>2
  <2> HIDE DEF more
  <2>4. ListOf(more, Entries) /\ Len(more) = Len(g)
    BY <2>1, <2>3, ListMake
  <2>5. ListOf(tartab', Entries)
    BY <2>4, <1>4, ListConcat DEF more
  <2>6. /\ DOMAIN tartab' = 1 .. Len(tartab) + Len(more)
        /\ \A j \in 1 .. Len(tartab) + Len(more) :
              tartab'[j] = IF j <= Len(tartab) THEN tartab[j] ELSE more[j - Len(tartab)]
    <3>1. tartab' = tartab \o more
      BY <1>4 DEF more
    <3>2. Joined(tartab', tartab, more)
      BY <2>4, <3>1, ListConcat
    <3>3. QED
      BY <3>2 DEF Joined
  <2>7. Len(tartab) \in Nat /\ DOMAIN tartab = 1..Len(tartab)
    BY ListElement
  <2>8. \A j \in DOMAIN tartab' : \/ j \in DOMAIN tartab /\ tartab'[j] = tartab[j]
                                  \/ tartab'[j].name \in Names
    <3>1. TAKE j \in DOMAIN tartab'
    <3>2. CASE j <= Len(tartab)
      BY <2>6, <2>7, <3>2
    <3>3. CASE ~ (j <= Len(tartab))
      <4>1. j - Len(tartab) \in 1..Len(g)
        BY <2>1, <2>4, <2>6, <2>7, <3>3
      <4>2. QED
        BY <2>3, <2>6, <3>3, <4>1
    <3>4. QED
      BY <3>2, <3>3
  <2>9. QED
    BY <2>5, <2>8 DEF EntriesShape
<1>5. CASE tartab' = [j \in DOMAIN tartab |->
                        [tartab[j] EXCEPT !.unset = @ \/
                           \E m \in DOMAIN g : tartab[j].name = g[m]]]
  <2>1. /\ DOMAIN tartab = 1..Len(tartab) /\ Len(tartab) \in Nat
        /\ \A j \in DOMAIN tartab : tartab[j] \in Entries
    BY ListElement
  <2>2. ASSUME NEW j \in DOMAIN tartab
        PROVE  /\ tartab'[j] \in Entries
               /\ tartab'[j].name = tartab[j].name
               /\ tartab'[j].counting = tartab[j].counting
    <3>1. tartab[j] \in Entries
      BY <2>1
    <3>2. tartab'[j] = [tartab[j] EXCEPT !.unset = tartab[j].unset \/
                           \E m \in DOMAIN g : tartab[j].name = g[m]]
      BY <1>5
    <3>3. PICK u \in BOOLEAN : tartab'[j] = [tartab[j] EXCEPT !.unset = u]
      BY <3>1, <3>2
    <3>4. QED
      BY <3>1, <3>3 DEF Entries
  <2>3. DOMAIN tartab' = 1..Len(tartab)
    BY <1>5, <2>1
  <2>4. tartab' \in [1..Len(tartab) -> Entries]
    BY <1>5, <2>1, <2>2
  <2>5. ListOf(tartab', Entries)
    BY <2>1, <2>4, ListMake
  <2>6. QED
    BY <2>2, <2>3, <2>5, <2>1 DEF EntriesShape
<1>6. QED
  BY <1>2, <1>3, <1>4, <1>5

-----------------------------------------------------------------------------
(* What each action does, variable by variable. *)

LEMMA StartRuleDoes ==
    ASSUME NEW r, StartRule(r)
    PROVE  /\ pc = "idle" /\ rc \notin {"intercepted", "error"}
           /\ pc' = "expand" /\ rule' = r /\ tartab' = <<>> /\ i' = 1 /\ seen' = <<>>
           /\ cfg' = cfg /\ tcache' = tcache /\ rc' = rc /\ norm' = norm /\ path' = path
           /\ last' = last /\ hit' = hit /\ k' = k /\ value' = value
           /\ changed' = changed /\ tfnchanged' = tfnchanged /\ lastval' = lastval
  BY DEF StartRule, results, target

LEMMA TargetsDo ==
    ASSUME ExpandTarget \/ Expanded \/ PassGap
    PROVE  /\ cfg' = cfg /\ tcache' = tcache /\ rc' = rc /\ norm' = norm /\ path' = path
           /\ last' = last /\ hit' = hit /\ k' = k /\ value' = value
           /\ changed' = changed /\ tfnchanged' = tfnchanged /\ lastval' = lastval
           /\ rule' = rule /\ seen' = seen
           /\ \/ pc = "expand" /\ pc' = "expand" /\ i' = i + 1
              \/ pc = "expand" /\ pc' = "targets" /\ i' = 1 /\ tartab' = tartab
              \/ /\ pc = "targets" /\ pc' = "targets" /\ i' = i + 1 /\ tartab' = tartab
                 /\ i <= Len(tartab) /\ var.unset
  BY DEF ExpandTarget, Expanded, PassGap, results, target

LEMMA TakeTargetDoes ==
    ASSUME TakeTarget
    PROVE  /\ pc = "targets" /\ i <= Len(tartab) /\ ~var.unset
           /\ pc' = "list" /\ value' = Text(var.name, var.counting)
           /\ tcache' = IF UseCache(var)
                        THEN [x \in DOMAIN tcache \cup {CacheKey(var)} |->
                                IF x \in DOMAIN tcache THEN tcache[x] ELSE <<>>]
                        ELSE tcache
           /\ cfg' = cfg /\ rc' = rc /\ norm' = norm /\ path' = path
           /\ last' = last /\ hit' = hit /\ k' = k
           /\ changed' = changed /\ tfnchanged' = tfnchanged /\ lastval' = lastval
           /\ rule' = rule /\ seen' = seen /\ i' = i /\ tartab' = tartab
  BY DEF TakeTarget

\* A target is done, or the rule: the variables of the loop are gone.
Leaving ==
    /\ norm' = <<>> /\ path' = <<>> /\ last' = Null /\ hit' = FALSE /\ k' = 1
    /\ changed' = FALSE /\ tfnchanged' = FALSE /\ lastval' = Null
    /\ cfg' = cfg /\ tcache' = tcache /\ rule' = rule /\ tartab' = tartab
    /\ \/ pc' = "targets" /\ i' = i + 1 /\ rc' = rc
       \/ pc' = "idle" /\ i' = i /\ rc' \in {"intercepted", "error"}

LEMMA NoMoreTargetsDoes ==
    ASSUME NoMoreTargets
    PROVE  /\ pc = "targets" /\ i > Len(tartab) /\ pc' = "idle"
           /\ rc' \in {"match", "no_match"}
           /\ norm' = <<>> /\ path' = <<>> /\ last' = Null /\ hit' = FALSE /\ k' = 1
           /\ changed' = FALSE /\ tfnchanged' = FALSE /\ lastval' = Null
           /\ cfg' = cfg /\ tcache' = tcache /\ rule' = rule /\ tartab' = tartab
           /\ i' = i /\ seen' = seen
  BY DEF NoMoreTargets, Return, Forget

LEMMA BuildListDoes ==
    ASSUME BuildList
    PROVE  /\ pc = "list" /\ k <= Len(rule.tfns) /\ pc' = "list" /\ k' = k + 1
           /\ norm' = Listed(norm, rule.tfns[k])
           /\ LET t     == rule.tfns[k]
                  key   == Append(path, t.name)
                  table == CacheTable(var)
              IN  \/ /\ t.name = "none"
                     /\ path' = <<>> /\ last' = Null /\ hit' = FALSE
                  \/ /\ t.name # "none" /\ t.minus
                     /\ path' = path /\ last' = last /\ hit' = hit
                  \/ /\ t.name # "none" /\ ~t.minus
                     /\ path' = key
                     /\ hit' = (key \in DOMAIN table)
                     /\ last' = IF hit' THEN table[key] ELSE last
           /\ cfg' = cfg /\ tcache' = tcache /\ rc' = rc /\ value' = value
           /\ changed' = changed /\ tfnchanged' = tfnchanged /\ lastval' = lastval
           /\ rule' = rule /\ seen' = seen /\ i' = i /\ tartab' = tartab
  BY DEF BuildList, results

LEMMA FullyCachedDoes ==
    ASSUME FullyCached
    PROVE  /\ pc = "list" /\ k > Len(rule.tfns) /\ ~rule.multi /\ hit
           /\ pc' = "last" /\ value' = Cached(last)
           /\ cfg' = cfg /\ tcache' = tcache /\ rc' = rc /\ norm' = norm /\ path' = path
           /\ last' = last /\ hit' = hit /\ k' = k
           /\ changed' = changed /\ tfnchanged' = tfnchanged /\ lastval' = lastval
           /\ rule' = rule /\ seen' = seen /\ i' = i /\ tartab' = tartab
  BY DEF FullyCached, AllListed, results

LEMMA StartLoopDoes ==
    ASSUME StartLoop
    PROVE  /\ pc = "list" /\ k > Len(rule.tfns) /\ (rule.multi \/ ~hit)
           /\ pc' = "loop"
           /\ \/ /\ ~rule.multi /\ last # Null
                 /\ k' = Len(last.path) /\ path' = last.path
                 /\ changed' = last.changed /\ value' = Cached(last)
              \/ /\ rule.multi \/ last = Null
                 /\ k' = 0 /\ path' = <<>> /\ changed' = changed /\ value' = value
           /\ cfg' = cfg /\ tcache' = tcache /\ rc' = rc /\ norm' = norm
           /\ last' = last /\ hit' = hit /\ tfnchanged' = tfnchanged /\ lastval' = lastval
           /\ rule' = rule /\ seen' = seen /\ i' = i /\ tartab' = tartab
  BY DEF StartLoop, FromCache, AllListed, results

Called == seen' = Append(seen, [at |-> i, value |-> value])
CallsOrNot == IF var.name \in rule.except THEN seen' = seen ELSE Called

LEMMA CallInLoopDoes ==
    ASSUME NEW o, CallInLoop(o)
    PROVE  /\ pc = "loop" /\ k < Len(norm) /\ rule.multi /\ (k = 0 \/ tfnchanged)
           /\ CallsOrNot
           /\ \/ Leaving /\ pc' = "idle"
              \/ /\ pc' = "transform"
                 /\ cfg' = cfg /\ tcache' = tcache /\ rc' = rc /\ norm' = norm
                 /\ path' = path /\ last' = last /\ hit' = hit /\ k' = k
                 /\ value' = value /\ changed' = changed /\ tfnchanged' = tfnchanged
                 /\ lastval' = lastval /\ items' = items
                 /\ rule' = rule /\ i' = i /\ tartab' = tartab
  BY DEF CallInLoop, CallBefore, ExecuteOperator, CallsOrNot, Called, Ends, Return,
         Forget, Leaving, target

\* What is stored, and when.
StoredValue == IF lastval = Null \/ tfnchanged' THEN value' ELSE lastval
Stored ==
    /\ ~Full /\ (cfg.incremental \/ k + 1 = Len(norm))
    /\ lastval' = IF tfnchanged' THEN StoredValue ELSE lastval
    /\ tcache' = [tcache EXCEPT ![CacheKey(var)] =
                     [q \in DOMAIN @ \cup {path'} |->
                        IF q = path' THEN [value |-> StoredValue, changed |-> changed',
                                           path |-> path']
                        ELSE @[q]]]
Unstored ==
    /\ tcache' = tcache /\ lastval' = lastval
    /\ \/ Full /\ items' = IF items = cfg.maxitems THEN items + 1 ELSE items
       \/ ~cfg.incremental /\ k + 1 # Len(norm)

LEMMA TransformDoes ==
    ASSUME Transform
    PROVE  /\ \/ pc = "transform"
              \/ pc = "loop" /\ k < Len(norm) /\ ~CallBefore
           /\ pc' = "loop" /\ k' = k + 1
           /\ value' = Tfn(norm[k + 1], value)
           /\ tfnchanged' = Reports(norm[k + 1], value)
           /\ changed' = (changed \/ tfnchanged')
           /\ IF UseCache(var)
              THEN path' = Append(path, norm[k + 1]) /\ (Stored \/ Unstored)
              ELSE path' = path /\ tcache' = tcache /\ lastval' = lastval
           /\ cfg' = cfg /\ rc' = rc /\ norm' = norm /\ last' = last /\ hit' = hit
           /\ rule' = rule /\ seen' = seen /\ i' = i /\ tartab' = tartab
  BY DEF Transform, Transforming, StoreInCache, Full, Stored, StoredValue, Unstored

LEMMA TransformFailsDoes ==
    ASSUME TransformFails
    PROVE  /\ pc \in {"loop", "transform"} /\ Leaving /\ pc' = "idle" /\ seen' = seen
  BY DEF TransformFails, Transforming, Return, Forget, Leaving

LEMMA LoopEndsDoes ==
    ASSUME LoopEnds
    PROVE  /\ pc = "loop" /\ k >= Len(norm) /\ seen' = seen
           /\ \/ /\ ~rule.multi \/ changed
                 /\ pc' = "last"
                 /\ cfg' = cfg /\ tcache' = tcache /\ rc' = rc /\ norm' = norm
                 /\ path' = path /\ last' = last /\ hit' = hit /\ k' = k
                 /\ value' = value /\ changed' = changed /\ tfnchanged' = tfnchanged
                 /\ lastval' = lastval
                 /\ rule' = rule /\ i' = i /\ tartab' = tartab
              \/ rule.multi /\ ~changed /\ Leaving /\ pc' = "targets"
  BY DEF LoopEnds, NextTarget, Forget, Leaving, target

LEMMA CallLastDoes ==
    ASSUME NEW o, CallLast(o)
    PROVE  pc = "last" /\ CallsOrNot /\ Leaving
  BY DEF CallLast, ExecuteOperator, CallsOrNot, Called, Ends, Return, NextTarget,
         Forget, Leaving

LEMMA NextPhaseDoes ==
    ASSUME NextPhase
    PROVE  /\ pc = "idle" /\ pc' = "idle" /\ tcache' = <<>> /\ rc' = "none"
           /\ rule' = Null /\ tartab' = <<>> /\ i' = 1 /\ seen' = <<>>
           /\ cfg' = cfg /\ norm' = norm /\ path' = path
           /\ last' = last /\ hit' = hit /\ k' = k /\ value' = value
           /\ changed' = changed /\ tfnchanged' = tfnchanged /\ lastval' = lastval
  BY DEF NextPhase, target
-----------------------------------------------------------------------------
(* Types are kept.                                                         *)

LEMMA LeavingControl ==
    ASSUME ControlType, pc # "idle", Leaving
    PROVE  ControlType'
<1>1. i \in Nat /\ i >= 1 /\ i + 1 \in Nat /\ i + 1 >= 1 /\ rule \in Rules
  BY DEF ControlType
<1>2. /\ cfg' \in Configs /\ rule' \in Rules /\ k' \in Nat
      /\ rc' \in {"none", "match", "no_match", "intercepted", "error"}
  BY <1>1 DEF Leaving, ControlType
<1>3. i' \in Nat /\ i' >= 1 /\ pc' \in {"idle", "targets"}
  BY <1>1 DEF Leaving
<1>4. QED
  BY <1>2, <1>3 DEF ControlType

LEMMA ControlStep ==
    ASSUME ControlType, PathType, Next
    PROVE  ControlType'
<1>0. /\ i \in Nat /\ i >= 1 /\ k \in Nat
      /\ i + 1 \in Nat /\ i + 1 >= 1 /\ k + 1 \in Nat
  BY DEF ControlType
<1>1. ASSUME NEW r \in Rules, StartRule(r) PROVE ControlType'
  BY <1>0, <1>1, StartRuleDoes DEF ControlType, PerTarget
<1>2. CASE ExpandTarget \/ Expanded \/ PassGap
  BY <1>0, <1>2, TargetsDo DEF ControlType, PerTarget
<1>3. CASE TakeTarget
  BY <1>3, TakeTargetDoes DEF ControlType, PerTarget
<1>4. CASE NoMoreTargets
  BY <1>4, NoMoreTargetsDoes DEF ControlType, PerTarget
<1>5. CASE BuildList
  <2>1. /\ pc = "list" /\ pc' = "list" /\ k' = k + 1
        /\ UNCHANGED <<cfg, rc, rule, i>>
    BY <1>5, BuildListDoes
  <2>2. QED
    BY <1>0, <2>1 DEF ControlType, PerTarget
<1>6. CASE FullyCached
  BY <1>6, FullyCachedDoes DEF ControlType, PerTarget
<1>7. CASE StartLoop
  <2>1. last # Null => last.path \in Paths
    BY DEF PathType, Records
  <2>2. \A p \in Paths : Len(p) \in Nat
    BY DEF Paths
  <2>3. k' \in Nat
    BY <1>7, <2>1, <2>2, StartLoopDoes
  <2>4. pc = "list" /\ pc' = "loop" /\ UNCHANGED <<cfg, rc, rule, i>>
    BY <1>7, StartLoopDoes
  <2>5. QED
    BY <2>3, <2>4 DEF ControlType, PerTarget
<1>8. ASSUME NEW o \in Outcomes, CallInLoop(o) PROVE ControlType'
  BY <1>8, CallInLoopDoes, LeavingControl DEF ControlType
<1>9. CASE Transform
  <2>1. /\ pc' = "loop" /\ k' = k + 1 /\ UNCHANGED <<cfg, rc, rule, i>>
        /\ pc # "idle"
    BY <1>9, TransformDoes
  <2>2. QED
    BY <1>0, <2>1 DEF ControlType, PerTarget
<1>10. CASE TransformFails
  BY <1>10, TransformFailsDoes, LeavingControl
<1>11. CASE LoopEnds
  BY <1>11, LoopEndsDoes, LeavingControl DEF ControlType
<1>12. ASSUME NEW o \in Outcomes, CallLast(o) PROVE ControlType'
  BY <1>12, CallLastDoes, LeavingControl
<1>13. CASE NextPhase
  BY <1>13, NextPhaseDoes DEF ControlType, PerTarget
<1>14. QED
  BY <1>1, <1>2, <1>3, <1>4, <1>5, <1>6, <1>7, <1>8, <1>9, <1>10, <1>11, <1>12,
     <1>13 DEF Next

LEMMA PathFacts ==
    /\ <<>> \in Paths
    /\ \A p \in Paths, t \in TfnNames : Append(p, t) \in Paths
    /\ \A p \in Paths : Len(p) \in Nat /\ \A n \in 1..Len(p) : p[n] \in TfnNames
    /\ \A tfns : ListOf(tfns, ListActions) =>
          \A n \in 1..Len(tfns) : tfns[n] \in ListActions
  BY DEF Paths, ListOf

\* The record the cache has for a path.
LEMMA TableRecord ==
    ASSUME NEW key, key \in DOMAIN CacheTable(var)
    PROVE  /\ UseCache(var) /\ CacheKey(var) \in DOMAIN tcache
           /\ key \in DOMAIN tcache[CacheKey(var)]
           /\ CacheTable(var)[key] = tcache[CacheKey(var)][key]
<1>1. CASE UseCache(var) /\ CacheKey(var) \in DOMAIN tcache
  BY <1>1 DEF CacheTable
<1>2. CASE ~ (UseCache(var) /\ CacheKey(var) \in DOMAIN tcache)
  <2>1. CacheTable(var) = <<>>
    BY <1>2 DEF CacheTable
  <2>2. QED
    BY <2>1
<1>3. QED
  BY <1>1, <1>2

LEMMA RuleActions ==
    ASSUME rule \in Rules
    PROVE  /\ ListOf(rule.tfns, ListActions) /\ Len(rule.tfns) \in Nat
           /\ DOMAIN rule.tfns = 1..Len(rule.tfns)
           /\ \A n \in 1..Len(rule.tfns) : rule.tfns[n] \in ListActions
<1>1. ListOf(rule.tfns, ListActions)
  BY RuleTypes DEF ListOf
<1>2. QED
  BY <1>1, ListElement

\* What a step of the list does to the path and the last record.
LEMMA BuildListTypes ==
    ASSUME ControlType, PathType, CacheType, BuildList, k >= 1
    PROVE  PathType'
<1>1. PICK t \in ListActions : t = rule.tfns[k] /\ k \in Nat /\ rule \in Rules
  <2>1. rule \in Rules /\ k \in Nat /\ k <= Len(rule.tfns)
    BY BuildListDoes DEF ControlType
  <2>2. QED
    BY <2>1, RuleActions
<1>2. norm' \in Paths
  BY <1>1, BuildListDoes, ListedType DEF PathType, Paths
<1>3. path' \in Paths
  <2>1. t.name # "none" => t.name \in TfnNames
    BY DEF ListActions
  <2>2. \/ path' = <<>> \/ path' = path
        \/ t.name # "none" /\ path' = Append(path, t.name)
    BY <1>1, BuildListDoes
  <2>3. QED
    BY <2>1, <2>2, PathFacts DEF PathType
<1>4. last' # Null \/ hit' => last' \in Records
  <2>1. \A key : key \in DOMAIN CacheTable(var) => CacheTable(var)[key] \in Records
    BY TableRecord DEF CacheType
  <2>2. \/ last' = Null /\ hit' = FALSE
        \/ last' = last /\ (hit' = hit \/ ~hit')
        \/ \E key : key \in DOMAIN CacheTable(var) /\ last' = CacheTable(var)[key]
    <3> DEFINE key == Append(path, t.name)
    <3>1. \/ last' = Null /\ hit' = FALSE
          \/ last' = last /\ hit' = hit
          \/ /\ hit' = (key \in DOMAIN CacheTable(var))
             /\ last' = IF hit' THEN CacheTable(var)[key] ELSE last
      BY <1>1, BuildListDoes
    <3> HIDE DEF key
    <3>2. QED
      BY <3>1
  <2>3. QED
    BY <2>1, <2>2 DEF PathType
<1>5. QED
  BY <1>2, <1>3, <1>4, BuildListDoes DEF PathType, PerTarget

\* The variable of the current target and its text.
LEMMA TargetTypes ==
    ASSUME ControlType, ListOf(tartab, Entries), i <= Len(tartab)
    PROVE  /\ i \in DOMAIN tartab /\ var \in Entries
           /\ Text(var.name, var.counting) \in Texts
           /\ Original(i) = Text(var.name, var.counting)
<1>1. i \in 1..Len(tartab) /\ DOMAIN tartab = 1..Len(tartab)
  BY ListElement DEF ControlType
<1>2. var \in Entries
  BY <1>1, ListElement DEF var
<1>3. QED
  BY <1>1, <1>2, TextTypes DEF Original, var

LEMMA CachedType ==
    ASSUME PathType, pc \in PerTarget, last # Null \/ hit
    PROVE  Cached(last) \in Texts /\ last.path \in Paths /\ last \in Records
  BY DEF PathType, Records, Cached

\* What is transformed.
LEMMA TransformTypes ==
    ASSUME ControlType, PathType, LoopShape, Transform
    PROVE  /\ k \in Nat /\ k + 1 \in 1..Len(norm)
           /\ norm[k + 1] \in TfnNames /\ value \in Texts
<1>1. k < Len(norm) /\ pc \in PerTarget
  BY TransformDoes DEF LoopShape, PerTarget
<1>2. k \in Nat /\ k + 1 \in 1..Len(norm)
  BY <1>1, PathFacts DEF ControlType, PathType
<1>3. QED
  BY <1>1, <1>2, PathFacts DEF PathType

LEMMA PathStep ==
    ASSUME ControlType, PathType, CacheType, ListOf(tartab, Entries),
           ListShape, LoopShape, Next
    PROVE  PathType'
<1>1. ASSUME NEW r \in Rules, StartRule(r) PROVE PathType'
  BY <1>1, StartRuleDoes DEF PathType, PerTarget
<1>2. CASE ExpandTarget \/ Expanded \/ PassGap
  BY <1>2, TargetsDo DEF PathType, PerTarget
<1>3. CASE TakeTarget
  BY <1>3, TakeTargetDoes, TargetTypes DEF PathType
<1>4. CASE NoMoreTargets
  BY <1>4, NoMoreTargetsDoes, PathFacts DEF PathType, PerTarget
<1>5. CASE BuildList
  <2>1. k >= 1
    BY <1>5, BuildListDoes, RuleActions DEF ListShape, ControlType
  <2>2. QED
    BY <1>5, <2>1, BuildListTypes
<1>6. CASE FullyCached
  BY <1>6, FullyCachedDoes, CachedType DEF PathType, PerTarget
<1>7. CASE StartLoop
  <2>1. pc \in PerTarget
    BY <1>7, StartLoopDoes DEF PerTarget
  <2>2. path' \in Paths /\ value' \in Texts
    BY <1>7, <2>1, StartLoopDoes, CachedType, PathFacts DEF PathType
  <2>3. QED
    BY <1>7, <2>2, StartLoopDoes DEF PathType
<1>8. ASSUME Leaving PROVE PathType'
  BY <1>8, PathFacts DEF Leaving, PathType, PerTarget
<1>9. ASSUME NEW o \in Outcomes, CallInLoop(o) PROVE PathType'
  BY <1>8, <1>9, CallInLoopDoes DEF PathType, PerTarget
<1>10. CASE Transform
  <2>2. norm[k + 1] \in TfnNames /\ value \in Texts
    BY <1>10, TransformTypes
  <2>3. value' \in Texts
    BY <1>10, <2>2, TransformDoes, TfnsKept
  <2>4. path' \in Paths
    BY <1>10, <2>2, TransformDoes, PathFacts DEF PathType
  <2>5. lastval' # Null => lastval' \in Texts
    <3>1. lastval' = lastval \/ lastval' = value'
      BY <1>10, TransformDoes DEF Stored, Unstored, StoredValue
    <3>2. QED
      BY <2>3, <3>1 DEF PathType
  <2>6. QED
    BY <1>10, <2>3, <2>4, <2>5, TransformDoes DEF PathType
<1>11. CASE TransformFails
  BY <1>8, <1>11, TransformFailsDoes
<1>12. CASE LoopEnds
  BY <1>8, <1>12, LoopEndsDoes DEF PathType, PerTarget
<1>13. ASSUME NEW o \in Outcomes, CallLast(o) PROVE PathType'
  BY <1>8, <1>13, CallLastDoes
<1>14. CASE NextPhase
  BY <1>14, NextPhaseDoes DEF PathType, PerTarget
<1>15. QED
  BY <1>1, <1>2, <1>3, <1>4, <1>5, <1>6, <1>7, <1>9, <1>10, <1>11, <1>12,
     <1>13, <1>14 DEF Next

LEMMA FlagStep ==
    ASSUME FlagType, ControlType, PathType, LoopShape, Next
    PROVE  FlagType'
<1>1. ASSUME NEW r \in Rules, StartRule(r) PROVE FlagType'
  BY <1>1, StartRuleDoes DEF FlagType
<1>2. CASE ExpandTarget \/ Expanded \/ PassGap
  BY <1>2, TargetsDo DEF FlagType
<1>3. CASE TakeTarget
  BY <1>3, TakeTargetDoes DEF FlagType
<1>4. CASE NoMoreTargets
  BY <1>4, NoMoreTargetsDoes DEF FlagType
<1>5. CASE BuildList
  <2>1. hit' = hit \/ hit' = FALSE \/ \E key : hit' = (key \in DOMAIN CacheTable(var))
    BY <1>5, BuildListDoes, Zenon
  <2>2. ASSUME NEW key, hit' = (key \in DOMAIN CacheTable(var)) PROVE hit' \in BOOLEAN
    <3>1. CASE key \in DOMAIN CacheTable(var)
      BY <2>2, <3>1
    <3>2. CASE key \notin DOMAIN CacheTable(var)
      BY <2>2, <3>2
    <3>3. QED
      BY <3>1, <3>2
  <2>3. hit' = hit \/ hit' = FALSE => hit' \in BOOLEAN
    BY DEF FlagType
  <2>4. hit' \in BOOLEAN
    BY <2>1, <2>2, <2>3
  <2>5. QED
    BY <1>5, <2>4, BuildListDoes DEF FlagType
<1>6. CASE FullyCached
  BY <1>6, FullyCachedDoes DEF FlagType
<1>7. CASE StartLoop
  <2>1. last # Null => last.changed \in BOOLEAN
    BY Zenon DEF PathType, Records
  <2>2. QED
    BY <1>7, <2>1, StartLoopDoes, Zenon DEF FlagType
<1>8. ASSUME Leaving PROVE FlagType'
  BY <1>8, Zenon DEF Leaving, FlagType
<1>9. ASSUME NEW o \in Outcomes, CallInLoop(o) PROVE FlagType'
  BY <1>8, <1>9, CallInLoopDoes DEF FlagType
<1>10. CASE Transform
  <2>1. /\ tfnchanged' = Reports(norm[k + 1], value)
        /\ changed' = (changed \/ tfnchanged') /\ hit' = hit
    BY <1>10, TransformDoes
  <2>2. tfnchanged' \in BOOLEAN
    BY <1>10, <2>1, TransformTypes, TfnsKept
  <2>3. changed' \in BOOLEAN
    <3>1. CASE changed \/ tfnchanged'
      BY <2>1, <3>1
    <3>2. CASE ~ (changed \/ tfnchanged')
      BY <2>1, <3>2
    <3>3. QED
      BY <3>1, <3>2
  <2>4. QED
    BY <2>1, <2>2, <2>3, Zenon DEF FlagType
<1>11. CASE TransformFails
  BY <1>8, <1>11, TransformFailsDoes
<1>12. CASE LoopEnds
  BY <1>8, <1>12, LoopEndsDoes DEF FlagType
<1>13. ASSUME NEW o \in Outcomes, CallLast(o) PROVE FlagType'
  BY <1>8, <1>13, CallLastDoes
<1>14. CASE NextPhase
  BY <1>14, NextPhaseDoes DEF FlagType
<1>15. QED
  BY <1>1, <1>2, <1>3, <1>4, <1>5, <1>6, <1>7, <1>9, <1>10, <1>11, <1>12,
     <1>13, <1>14 DEF Next

LEMMA CallTypes ==
    ASSUME ListOf(seen, Calls), ControlType, value \in Texts, CallsOrNot
    PROVE  /\ ListOf(seen', Calls)
           /\ Len(seen) \in Nat
           /\ \/ seen' = seen
              \/ /\ var.name \notin rule.except
                 /\ DOMAIN seen' = 1 .. Len(seen) + 1 /\ DOMAIN seen = 1..Len(seen)
                 /\ seen'[Len(seen) + 1].at = i /\ seen'[Len(seen) + 1].value = value
                 /\ \A n \in 1..Len(seen) : seen'[n] = seen[n]
<1> PICK e : e = [at |-> i, value |-> value]
  OBVIOUS
<1>1. e \in Calls /\ e.at = i /\ e.value = value
  BY DEF Calls, ControlType
<1>2. Len(seen) \in Nat /\ DOMAIN seen = 1..Len(seen)
  BY ListElement
<1>3. CASE seen' = seen
  BY <1>2, <1>3
<1>4. CASE var.name \notin rule.except /\ seen' = Append(seen, e)
  <2>1. /\ ListOf(Append(seen, e), Calls)
        /\ DOMAIN Append(seen, e) = 1 .. Len(seen) + 1
        /\ Append(seen, e)[Len(seen) + 1] = e
        /\ \A j \in 1..Len(seen) : Append(seen, e)[j] = seen[j]
    BY <1>1, ListAppend
  <2>2. QED
    BY <1>1, <1>2, <1>4, <2>1
<1>5. QED
  BY <1>3, <1>4 DEF CallsOrNot, Called

LEMMA SeenTypeStep ==
    ASSUME ListOf(seen, Calls), ControlType, PathType, Next
    PROVE  ListOf(seen', Calls)
<1>0. ListOf(<<>>, Calls)
  BY DEF ListOf
<1>1. ASSUME NEW r \in Rules, StartRule(r) PROVE ListOf(seen', Calls)
  BY <1>0, <1>1, StartRuleDoes
<1>2. CASE ExpandTarget \/ Expanded \/ PassGap
  BY <1>2, TargetsDo
<1>3. CASE TakeTarget
  BY <1>3, TakeTargetDoes
<1>4. CASE NoMoreTargets
  BY <1>4, NoMoreTargetsDoes
<1>5. CASE BuildList
  BY <1>5, BuildListDoes
<1>6. CASE FullyCached
  BY <1>6, FullyCachedDoes
<1>7. CASE StartLoop
  BY <1>7, StartLoopDoes
<1>8. ASSUME NEW o \in Outcomes, CallInLoop(o) PROVE ListOf(seen', Calls)
  BY <1>8, CallInLoopDoes, CallTypes DEF PathType, PerTarget
<1>9. CASE Transform
  BY <1>9, TransformDoes
<1>10. CASE TransformFails
  BY <1>10, TransformFailsDoes
<1>11. CASE LoopEnds
  BY <1>11, LoopEndsDoes
<1>12. ASSUME NEW o \in Outcomes, CallLast(o) PROVE ListOf(seen', Calls)
  BY <1>12, CallLastDoes, CallTypes DEF PathType, PerTarget
<1>13. CASE NextPhase
  BY <1>0, <1>13, NextPhaseDoes
<1>14. QED
  BY <1>1, <1>2, <1>3, <1>4, <1>5, <1>6, <1>7, <1>8, <1>9, <1>10, <1>11, <1>12,
     <1>13 DEF Next

\* Targets change only while a rule is expanded, or when one begins.
LEMMA EntriesStep ==
    ASSUME ListOf(tartab, Entries), EntriesShape, ControlType, Next
    PROVE  ListOf(tartab', Entries) /\ EntriesShape'
<1>0. ASSUME tartab' = <<>> PROVE ListOf(tartab', Entries) /\ EntriesShape'
  BY <1>0 DEF ListOf, EntriesShape
<1>1. ASSUME tartab' = tartab PROVE ListOf(tartab', Entries) /\ EntriesShape'
  BY <1>1 DEF EntriesShape
<1>2. ASSUME NEW r \in Rules, StartRule(r) PROVE tartab' = <<>>
  BY <1>2, StartRuleDoes
<1>3. CASE ExpandTarget
  <2>1. rule \in Rules /\ i \in Nat \ {0}
    <3>1. pc = "expand"
      BY <1>3 DEF ExpandTarget
    <3>2. QED
      BY <3>1 DEF ControlType
  <2>2. QED
    BY <1>3, <2>1, ExpandTypes
<1>4. CASE Expanded \/ PassGap
  <2>1. tartab' = tartab
    BY <1>4 DEF Expanded, PassGap
  <2>2. QED
    BY <1>1, <2>1
<1>5. CASE TakeTarget \/ NoMoreTargets \/ BuildList \/ FullyCached \/ StartLoop
           \/ Transform \/ TransformFails \/ LoopEnds
  <2>1. tartab' = tartab
    BY <1>5, TakeTargetDoes, NoMoreTargetsDoes, BuildListDoes, FullyCachedDoes,
       StartLoopDoes, TransformDoes, TransformFailsDoes, LoopEndsDoes DEF Leaving
  <2>2. QED
    BY <1>1, <2>1
<1>6. ASSUME NEW o \in Outcomes, CallInLoop(o) \/ CallLast(o) PROVE tartab' = tartab
  BY <1>6, CallInLoopDoes, CallLastDoes DEF Leaving
<1>7. CASE NextPhase
  BY <1>0, <1>7, NextPhaseDoes
<1>8. QED
  BY <1>0, <1>1, <1>2, <1>3, <1>4, <1>5, <1>6, <1>7 DEF Next

LEMMA BetweenStep ==
    ASSUME BetweenShape, ControlType, Next
    PROVE  BetweenShape'
<1>1. ASSUME NEW r \in Rules, StartRule(r) PROVE BetweenShape'
  BY <1>1, StartRuleDoes DEF BetweenShape, PerTarget
<1>2. CASE ExpandTarget \/ Expanded \/ PassGap
  BY <1>2, TargetsDo DEF BetweenShape, PerTarget
<1>3. CASE TakeTarget \/ BuildList \/ FullyCached \/ StartLoop \/ Transform
  <2>1. pc' \in PerTarget
    BY <1>3, TakeTargetDoes, BuildListDoes, FullyCachedDoes, StartLoopDoes, TransformDoes
       DEF PerTarget
  <2>2. QED
    BY <2>1 DEF BetweenShape
<1>4. CASE NoMoreTargets
  BY <1>4, NoMoreTargetsDoes DEF BetweenShape
<1>5. ASSUME Leaving PROVE BetweenShape'
  BY <1>5 DEF Leaving, BetweenShape
<1>6. ASSUME pc' \in PerTarget PROVE BetweenShape'
  BY <1>6 DEF BetweenShape
<1>7. ASSUME NEW o \in Outcomes, CallInLoop(o) \/ CallLast(o) PROVE BetweenShape'
  BY <1>5, <1>6, <1>7, CallInLoopDoes, CallLastDoes DEF PerTarget
<1>8. CASE TransformFails \/ LoopEnds
  BY <1>5, <1>6, <1>8, TransformFailsDoes, LoopEndsDoes DEF PerTarget
<1>9. CASE NextPhase
  BY <1>9, NextPhaseDoes DEF BetweenShape, PerTarget
<1>10. QED
  BY <1>1, <1>2, <1>3, <1>4, <1>7, <1>8, <1>9 DEF Next
-----------------------------------------------------------------------------
(* The cache. *)

\* What storing one record does to the tables.
LEMMA StoreOne ==
    ASSUME NEW tables, NEW stored, NEW K, NEW P, NEW R,
           stored = [tables EXCEPT ![K] = [q \in DOMAIN @ \cup {P} |->
                                             IF q = P THEN R ELSE @[q]]]
    PROVE  /\ DOMAIN stored = DOMAIN tables
           /\ \A key \in DOMAIN stored : \A p \in DOMAIN stored[key] :
                 \/ key = K /\ p = P /\ stored[key][p] = R
                 \/ p \in DOMAIN tables[key] /\ stored[key][p] = tables[key][p]
<1>1. DOMAIN stored = DOMAIN tables
  OBVIOUS
<1>2. ASSUME NEW key \in DOMAIN stored, NEW p \in DOMAIN stored[key]
      PROVE  \/ key = K /\ p = P /\ stored[key][p] = R
             \/ p \in DOMAIN tables[key] /\ stored[key][p] = tables[key][p]
  <2>1. CASE key = K
    <3>1. stored[K] = [q \in DOMAIN tables[K] \cup {P} |-> IF q = P THEN R ELSE tables[K][q]]
      BY <1>1, <2>1
    <3>2. QED
      BY <2>1, <3>1
  <2>2. CASE key # K
    BY <1>1, <2>2
  <2>3. QED
    BY <2>1, <2>2
<1>3. QED
  BY <1>1, <1>2

LEMMA SharedStays ==
    ASSUME cfg' = cfg
    PROVE  /\ \A text : Shared(text)' <=> Shared(text)
           /\ \A w : Cacheable(w)' <=> Cacheable(w)
  BY DEF Shared, Cacheable

\* A target that uses the cache has the text of its variable.
LEMMA UsesText ==
    ASSUME ControlType, ListOf(tartab, Entries), EntriesShape, i \in DOMAIN tartab,
           UseCache(var)
    PROVE  /\ var.name \in Names /\ Cacheable(var.name)
           /\ Original(i) = Text(var.name, FALSE)
           /\ CacheKey(var) = Prefix(Original(i))
           /\ Original(i) \in Texts
<1>1. DOMAIN tartab = 1..Len(tartab) /\ \A j \in 1..Len(tartab) : tartab[j] \in Entries
  BY ListElement
<1>2. var \in Entries /\ var = tartab[i]
  BY <1>1 DEF var
<1>3. var.counting = FALSE /\ Cacheable(var.name)
  BY <1>2 DEF UseCache, Entries
<1>4. var.name \in Names
  BY <1>2, <1>3 DEF EntriesShape
<1>5. Original(i) = Text(var.name, FALSE)
  BY <1>2, <1>3 DEF Original
<1>6. QED
  BY <1>3, <1>4, <1>5, TextTypes DEF CacheKey

\* The tables of a cache are as they should be.
LEMMA CacheTake ==
    ASSUME CacheType, CacheShape, TakeTarget
    PROVE  CacheType' /\ CacheShape'
<1>1. cfg' = cfg
  BY TakeTargetDoes
<1>2. CASE tcache' = tcache
  <2>1. CacheType'
    BY <1>2 DEF CacheType
  <2>2. QED
    BY <1>1, <1>2, <2>1, SharedStays DEF CacheShape
<1>3. CASE tcache' = [x \in DOMAIN tcache \cup {CacheKey(var)} |->
                        IF x \in DOMAIN tcache THEN tcache[x] ELSE <<>>]
  <2> DOMAIN <<>> = {}
    OBVIOUS
  <2>1. \A key \in DOMAIN tcache' : \A p \in DOMAIN tcache'[key] :
           /\ key \in DOMAIN tcache /\ p \in DOMAIN tcache[key]
           /\ tcache'[key][p] = tcache[key][p]
    <3>1. TAKE key \in DOMAIN tcache'
    <3>2. CASE key \in DOMAIN tcache
      BY <1>3, <3>2
    <3>3. CASE key \notin DOMAIN tcache
      <4>1. tcache'[key] = <<>>
        BY <1>3, <3>3
      <4>2. QED
        BY <4>1
    <3>4. QED
      BY <3>2, <3>3
  <2>2. CacheType'
    BY <2>1 DEF CacheType
  <2>3. QED
    BY <1>1, <2>1, <2>2, SharedStays DEF CacheShape
<1>4. QED
  BY <1>2, <1>3, TakeTargetDoes

LEMMA CacheTransform ==
    ASSUME TypeOK, CacheShape, EntriesShape, TargetShape, LoopShape, Transform
    PROVE  CacheType' /\ CacheShape'
<1>1. /\ ControlType /\ CacheType /\ ListOf(tartab, Entries) /\ i \in DOMAIN tartab
      /\ norm \in Paths /\ path \in Paths /\ cfg' = cfg
      /\ pc \in {"loop", "transform"}
  BY TransformDoes DEF TypeOK, PathType, TargetShape, PerTarget
<1>2. CASE tcache' = tcache
  <2>1. CacheType'
    BY <1>1, <1>2 DEF CacheType
  <2>2. QED
    BY <1>1, <1>2, <2>1, SharedStays DEF CacheShape
<1>3. CASE tcache' # tcache
  <2> PICK P, K, v, c, t : /\ P = path' /\ K = CacheKey(var) /\ v = StoredValue
                           /\ c = changed' /\ t = norm[k + 1]
    OBVIOUS
  <2> PICK R : R = [value |-> v, changed |-> c, path |-> P]
    OBVIOUS
  <2>1. /\ UseCache(var)
        /\ tcache' = [tcache EXCEPT ![K] =
              [q \in DOMAIN @ \cup {P} |-> IF q = P THEN R ELSE @[q]]]
        /\ P = Append(path, t)
        /\ v = Tfn(t, value) \/ (v = lastval /\ lastval # Null /\ ~Reports(t, value))
        /\ c = (changed \/ Reports(t, value))
        /\ ~Full
    BY <1>3, TransformDoes DEF Stored, Unstored, StoredValue
  <2>2. /\ DOMAIN tcache' = DOMAIN tcache
        /\ \A key \in DOMAIN tcache' : \A p \in DOMAIN tcache'[key] :
              \/ key = K /\ p = P /\ tcache'[key][p] = R
              \/ p \in DOMAIN tcache[key] /\ tcache'[key][p] = tcache[key][p]
    BY <2>1, StoreOne
  <2>3. R.value = v /\ R.changed = c /\ R.path = P
    OBVIOUS
  <2>4. t \in TfnNames /\ value \in Texts
    BY TransformTypes DEF TypeOK
  <2>5. R \in Records
    <3>1. v \in Texts /\ P \in Paths
      BY <1>1, <2>1, <2>4, TfnsKept, PathFacts DEF TypeOK, PathType
    <3>2. c \in BOOLEAN
      <4>1. CASE changed \/ Reports(t, value)
        BY <2>1, <4>1
      <4>2. CASE ~ (changed \/ Reports(t, value))
        BY <2>1, <4>2
      <4>3. QED
        BY <4>1, <4>2
    <3>3. QED
      BY <3>1, <3>2 DEF Records
  <2>6. CacheType'
    BY <1>1, <2>2, <2>5 DEF CacheType
  <2>7. ASSUME NEW w \in Names, Cacheable(w), ~Shared(Text(w, FALSE)),
               Prefix(Text(w, FALSE)) = K
        PROVE  Holds(R, Text(w, FALSE))
    <3> PICK text : text = Original(i)
      OBVIOUS
    <3>1. /\ var.name \in Names /\ Cacheable(var.name) /\ text = Text(var.name, FALSE)
          /\ K = Prefix(text) /\ text \in Texts
      BY <1>1, <2>1, UsesText
    <3>2. Text(w, FALSE) = text
      BY <2>7, <3>1 DEF Shared
    <3> SUFFICES ASSUME Quiet(text, P) PROVE v = End(text, P) /\ (~c => v = text)
      BY <2>3, <3>2 DEF Holds
    <3>3. Quiet(text, path) /\ (Tfn(t, End(text, path)) # End(text, path)
                                => Reports(t, End(text, path)))
      BY <1>1, <2>1, <2>4, <3>1, QuietAppend DEF Paths
    <3>4. /\ value = End(text, path) /\ (~changed => value = text)
          /\ lastval # Null => lastval = value
      BY <1>1, <2>1, <2>7, <3>2, <3>3 DEF LoopShape
    <3>5. v = Tfn(t, value) /\ (~Reports(t, value) => v = value)
      BY <2>1, <3>3, <3>4
    <3>6. v = End(text, P)
      BY <1>1, <2>1, <2>4, <3>1, <3>4, <3>5, EndAppend DEF Paths
    <3>7. ~c => v = text
      BY <2>1, <3>4, <3>5
    <3>8. QED
      BY <3>6, <3>7
  <2>8. CacheShape'
    <3>1. \A key \in DOMAIN tcache' : \A p \in DOMAIN tcache'[key] : tcache'[key][p].path = p
      BY <2>2, <2>3 DEF CacheShape
    <3>2. ASSUME NEW w \in Names, Cacheable(w), ~Shared(Text(w, FALSE)),
                 Prefix(Text(w, FALSE)) \in DOMAIN tcache',
                 NEW p \in DOMAIN tcache'[Prefix(Text(w, FALSE))]
          PROVE  Holds(tcache'[Prefix(Text(w, FALSE))][p], Text(w, FALSE))
      <4> PICK key, text : key = Prefix(text) /\ text = Text(w, FALSE)
        OBVIOUS
      <4>1. CASE key = K /\ p = P /\ tcache'[key][p] = R
        BY <2>7, <3>2, <4>1
      <4>2. CASE p \in DOMAIN tcache[key] /\ tcache'[key][p] = tcache[key][p]
        BY <2>2, <3>2, <4>2 DEF CacheShape
      <4>3. QED
        BY <2>2, <3>2, <4>1, <4>2
    <3>3. QED
      BY <1>1, <3>1, <3>2, SharedStays DEF CacheShape, Holds, Quiet
  <2>9. QED
    BY <2>6, <2>8
<1>4. QED
  BY <1>2, <1>3

LEMMA CacheStep ==
    ASSUME TypeOK, CacheShape, EntriesShape, TargetShape, LoopShape, Next
    PROVE  CacheType' /\ CacheShape'
<1>0. CacheType
  BY DEF TypeOK
<1>1. ASSUME cfg' = cfg, tcache' = tcache PROVE CacheType' /\ CacheShape'
  <2>1. CacheType'
    BY <1>0, <1>1 DEF CacheType
  <2>2. QED
    BY <1>1, <2>1, SharedStays DEF CacheShape
<1>2. ASSUME NEW r \in Rules, StartRule(r) PROVE CacheType' /\ CacheShape'
  BY <1>1, <1>2, StartRuleDoes
<1>3. CASE ExpandTarget \/ Expanded \/ PassGap
  BY <1>1, <1>3, TargetsDo
<1>4. CASE TakeTarget
  BY <1>0, <1>4, CacheTake
<1>5. CASE NoMoreTargets \/ BuildList \/ FullyCached \/ StartLoop \/ TransformFails
           \/ LoopEnds
  <2>1. cfg' = cfg /\ tcache' = tcache
    BY <1>5, NoMoreTargetsDoes, BuildListDoes, FullyCachedDoes, StartLoopDoes,
       TransformFailsDoes, LoopEndsDoes DEF Leaving
  <2>2. QED
    BY <1>1, <2>1
<1>6. ASSUME NEW o \in Outcomes, CallInLoop(o) \/ CallLast(o)
      PROVE  CacheType' /\ CacheShape'
  <2>1. cfg' = cfg /\ tcache' = tcache
    BY <1>6, CallInLoopDoes, CallLastDoes DEF Leaving
  <2>2. QED
    BY <1>1, <2>1
<1>7. CASE Transform
  BY <1>7, CacheTransform
<1>8. CASE NextPhase
  <2>1. tcache' = <<>> /\ DOMAIN <<>> = {}
    BY <1>8, NextPhaseDoes
  <2>2. QED
    BY <2>1 DEF CacheType, CacheShape
<1>9. QED
  BY <1>2, <1>3, <1>4, <1>5, <1>6, <1>7, <1>8 DEF Next
-----------------------------------------------------------------------------
(* One target. *)

\* What is said of the target stays while it is the same target.
LEMMA VarStays ==
    ASSUME cfg' = cfg, tartab' = tartab, i' = i, rule' = rule
    PROVE  /\ var' = var
           /\ UseCache(var)' <=> UseCache(var)
           /\ CacheKey(var)' = CacheKey(var)
           /\ Original(i)' = Original(i)
           /\ Shared(Original(i))' <=> Shared(Original(i))
           /\ HasMinus(rule.tfns)' <=> HasMinus(rule.tfns)
           /\ Deceived(i)' <=> Deceived(i)
           /\ (i \in Inspected)' <=> i \in Inspected
           /\ Normalisation(rule.tfns)' = Normalisation(rule.tfns)
           /\ SilentValues(i)' = SilentValues(i)
<1>1. var' = var
  BY DEF var
<1>2. Original(i)' = Original(i)
  BY DEF Original
<1>3. UseCache(var)' <=> UseCache(var)
  BY <1>1 DEF UseCache, Cacheable
<1>4. CacheKey(var)' = CacheKey(var)
  BY <1>1 DEF CacheKey
<1>5. Shared(Original(i))' <=> Shared(Original(i))
  BY <1>2 DEF Shared, Cacheable
<1>6. HasMinus(rule.tfns)' <=> HasMinus(rule.tfns)
  BY DEF HasMinus
<1>7. Deceived(i)' <=> Deceived(i)
  <2>1. Mistaken(tartab[i])' <=> Mistaken(tartab[i])
    BY DEF Mistaken, UseCache, Cacheable, CacheKey
  <2>2. Silenced(i)' <=> Silenced(i)
    BY DEF Silenced, UseCache, Cacheable, Original, Normalisation
  <2>3. QED
    BY <2>1, <2>2 DEF Deceived
<1>8. (i \in Inspected)' <=> i \in Inspected
  BY DEF Inspected
<1>9. Normalisation(rule.tfns)' = Normalisation(rule.tfns)
  BY DEF Normalisation
<1>10. SilentValues(i)' = SilentValues(i)
  BY <1>2, <1>9 DEF SilentValues
<1>11. QED
  BY <1>1, <1>2, <1>3, <1>4, <1>5, <1>6, <1>7, <1>8, <1>9, <1>10

\* The ways in which the cache may give the wrong value.
DeceivedBecause ==
    /\ UseCache(var)
    /\ \/ Shared(Original(i)) \/ HasMinus(rule.tfns)
       \/ ~Quiet(Original(i), Normalisation(rule.tfns))

LEMMA DeceivedIs ==
    ASSUME ControlType, ListOf(tartab, Entries), EntriesShape, i \in DOMAIN tartab
    PROVE  Deceived(i) <=> DeceivedBecause
<1>1. ~UseCache(var) => ~Mistaken(var)
  BY DEF Mistaken
<1>2. ASSUME UseCache(var)
      PROVE  Mistaken(var) <=> Shared(Original(i)) \/ HasMinus(rule.tfns)
  <2>1. Original(i) = Text(var.name, FALSE) /\ CacheKey(var) = Prefix(Original(i))
    BY <1>2, UsesText
  <2>2. QED
    BY <1>2, <2>1 DEF Mistaken, Shared, HasMinus
<1>3. Silenced(i) <=> UseCache(var) /\ ~Quiet(Original(i), Normalisation(rule.tfns))
  BY QuietIs DEF Silenced, var
<1>4. Deceived(i) <=> Mistaken(var) \/ Silenced(i)
  BY DEF Deceived, var
<1>5. QED
  BY <1>1, <1>2, <1>3, <1>4 DEF DeceivedBecause

LEMMA TargetStep ==
    ASSUME TypeOK, TargetShape, Next
    PROVE  TargetShape'
<1>0. ControlType /\ ListOf(tartab, Entries)
  BY DEF TypeOK
<1>1. ASSUME pc' \notin PerTarget PROVE TargetShape'
  BY <1>1 DEF TargetShape
<1>2. ASSUME pc \in PerTarget, cfg' = cfg, tartab' = tartab, i' = i, rule' = rule,
             DOMAIN tcache' = DOMAIN tcache
      PROVE  TargetShape'
  BY <1>2, VarStays DEF TargetShape
<1>3. ASSUME NEW r \in Rules, StartRule(r) PROVE TargetShape'
  BY <1>1, <1>3, StartRuleDoes DEF PerTarget
<1>4. CASE ExpandTarget \/ Expanded \/ PassGap
  BY <1>1, <1>4, TargetsDo DEF PerTarget
<1>5. CASE TakeTarget
  <2>1. i \in DOMAIN tartab /\ ~var.unset
    BY <1>0, <1>5, TakeTargetDoes, TargetTypes
  <2>2. UseCache(var) => CacheKey(var) \in DOMAIN tcache'
    BY <1>5, TakeTargetDoes
  <2>3. cfg' = cfg /\ tartab' = tartab /\ i' = i /\ rule' = rule
    BY <1>5, TakeTargetDoes
  <2>4. QED
    BY <2>1, <2>2, <2>3, VarStays DEF TargetShape
<1>6. CASE NoMoreTargets
  BY <1>1, <1>6, NoMoreTargetsDoes DEF PerTarget
<1>7. CASE BuildList
  BY <1>2, <1>7, BuildListDoes DEF PerTarget
<1>8. CASE FullyCached
  BY <1>2, <1>8, FullyCachedDoes DEF PerTarget
<1>9. CASE StartLoop
  BY <1>2, <1>9, StartLoopDoes DEF PerTarget
<1>10. ASSUME Leaving PROVE TargetShape'
  BY <1>1, <1>10 DEF Leaving, PerTarget
<1>11. ASSUME NEW o \in Outcomes, CallInLoop(o) PROVE TargetShape'
  BY <1>2, <1>10, <1>11, CallInLoopDoes DEF PerTarget
<1>12. CASE Transform
  <2>1. DOMAIN tcache' = DOMAIN tcache
    <3>1. CASE tcache' = tcache
      BY <3>1
    <3>2. CASE tcache' # tcache
      BY <1>12, <3>2, TransformDoes DEF Stored, Unstored
    <3>3. QED
      BY <3>1, <3>2
  <2>2. QED
    BY <1>2, <1>12, <2>1, TransformDoes DEF PerTarget
<1>13. CASE TransformFails
  BY <1>10, <1>13, TransformFailsDoes
<1>14. CASE LoopEnds
  BY <1>2, <1>10, <1>14, LoopEndsDoes DEF PerTarget
<1>15. ASSUME NEW o \in Outcomes, CallLast(o) PROVE TargetShape'
  BY <1>10, <1>15, CallLastDoes
<1>16. CASE NextPhase
  BY <1>1, <1>16, NextPhaseDoes DEF PerTarget
<1>17. QED
  BY <1>3, <1>4, <1>5, <1>6, <1>7, <1>8, <1>9, <1>11, <1>12, <1>13, <1>14, <1>15,
     <1>16 DEF Next

\* The list begins empty.
LEMMA ListBegins ==
    ASSUME TypeOK, BetweenShape, TakeTarget
    PROVE  ListShape'
<1>1. /\ ControlType /\ ListOf(tartab, Entries) /\ i <= Len(tartab) /\ rule \in Rules
      /\ norm = <<>> /\ path = <<>> /\ last = Null /\ ~hit /\ k = 1
      /\ ~changed /\ ~tfnchanged /\ lastval = Null
  BY TakeTargetDoes DEF TypeOK, ControlType, BetweenShape, PerTarget
<1>2. ListOf(rule.tfns, ListActions) /\ Len(rule.tfns) \in Nat
  BY <1>1, RuleActions
<1>3. k \in 1 .. Len(rule.tfns) + 1 /\ norm = Lists(rule.tfns)[k - 1]
  <2>1. Lists(rule.tfns)[0] = <<>>
    BY <1>2, ListsDef DEF ListOf
  <2>2. QED
    BY <1>1, <1>2, <2>1
<1>4. value' = Original(i)
  BY <1>1, TakeTargetDoes, TargetTypes
<1>5. UNCHANGED <<cfg, tartab, i, rule, norm, path, last, hit, k, changed, tfnchanged,
                  lastval>>
  BY TakeTargetDoes
<1>6. Original(i)' = Original(i)
  BY <1>5, VarStays
<1>7. QED
  BY <1>1, <1>3, <1>4, <1>5, <1>6 DEF ListShape

LEMMA StartsFacts ==
    /\ \A p \in Paths : Starts(p, p)
    /\ \A p, q \in Paths, t \in TfnNames : Starts(p, q) => Starts(p, Append(q, t))
<1>1. ASSUME NEW p \in Paths PROVE Starts(p, p)
  BY <1>1, PathFacts DEF Starts
<1>2. ASSUME NEW p \in Paths, NEW q \in Paths, NEW t \in TfnNames, Starts(p, q)
      PROVE  Starts(p, Append(q, t))
  <2>1. Len(p) \in Nat /\ Len(q) \in Nat /\ Len(p) <= Len(q) /\ \A n \in 1..Len(p) : p[n] = q[n]
    BY <1>2, PathFacts DEF Starts
  <2>2. /\ Len(Append(q, t)) = Len(q) + 1
        /\ \A n \in 1..Len(q) : Append(q, t)[n] = q[n]
    BY DEF Paths
  <2>3. QED
    BY <2>1, <2>2 DEF Starts
<1>3. QED
  BY <1>1, <1>2

\* One action of the rule: what becomes of the list, the path and the record.
LEMMA ListGrows ==
    ASSUME TypeOK, CacheShape, EntriesShape, TargetShape, ListShape, BuildList
    PROVE  ListShape'
<1>1. /\ ControlType /\ ListOf(tartab, Entries) /\ i \in DOMAIN tartab /\ rule \in Rules
      /\ pc = "list" /\ pc' = "list" /\ k' = k + 1 /\ k \in Nat
      /\ UNCHANGED <<cfg, tartab, i, rule, value, changed, tfnchanged, lastval>>
  BY BuildListDoes DEF TypeOK, ControlType, TargetShape, PerTarget
<1>p. path \in Paths /\ norm \in Paths
  BY DEF TypeOK, PathType
<1>l. last # Null => last.path \in Paths
  BY DEF TypeOK, PathType, Records
<1>2. /\ k \in 1..Len(rule.tfns) /\ Len(rule.tfns) \in Nat
      /\ ListOf(rule.tfns, ListActions)
      /\ DOMAIN rule.tfns = 1..Len(rule.tfns)
      /\ rule.tfns[k] \in ListActions
  <2>1. k \in 1 .. Len(rule.tfns) + 1 /\ k <= Len(rule.tfns)
    BY <1>1, BuildListDoes DEF ListShape
  <2>2. QED
    BY <1>1, <2>1, RuleActions
<1> PICK t, text, M : t = rule.tfns[k] /\ text = Original(i) /\ M = HasMinus(rule.tfns)
  OBVIOUS
<1>3. /\ norm = Lists(rule.tfns)[k - 1]
      /\ value = text /\ ~changed /\ ~tfnchanged /\ lastval = Null
      /\ last # Null \/ hit =>
            /\ UseCache(var)
            /\ Shared(text) \/ Holds(last, text)
            /\ hit => last.path = path
            /\ M \/ Starts(last.path, norm)
      /\ M \/ path = norm
  BY <1>1 DEF ListShape
<1>4. k' \in 1 .. Len(rule.tfns) + 1 /\ norm' = Lists(rule.tfns)[k' - 1]
  <2>1. norm' = Listed(norm, t)
    BY BuildListDoes
  <2>2. Lists(rule.tfns)[k] = Listed(Lists(rule.tfns)[k - 1], t)
    BY <1>2, ListsDef DEF ListOf
  <2>3. k' \in 1 .. Len(rule.tfns) + 1 /\ k' - 1 = k
    BY <1>1, <1>2
  <2>4. QED
    BY <1>3, <2>1, <2>2, <2>3
<1>5. M <=> \E n \in 1..Len(rule.tfns) : rule.tfns[n].minus
  BY <1>2 DEF HasMinus
<1>6. /\ last' # Null \/ hit' =>
            /\ UseCache(var)
            /\ Shared(text) \/ Holds(last', text)
            /\ hit' => last'.path = path'
            /\ M \/ Starts(last'.path, norm')
      /\ M \/ path' = norm'
  <2>1. CASE t.name = "none"
    <3>1. path' = <<>> /\ last' = Null /\ ~hit' /\ norm' = <<>>
      BY <2>1, BuildListDoes DEF Listed
    <3>2. QED
      BY <3>1
  <2>2. CASE t.name # "none" /\ t.minus
    <3>1. path' = path /\ last' = last /\ (hit' <=> hit) /\ M
      <4>1. M
        BY <1>2, <1>5, <2>2
      <4>2. path' = path /\ last' = last /\ (hit' <=> hit)
        <5>1. path' = path /\ last' = last /\ hit' = hit
          BY <2>2, BuildListDoes, Zenon
        <5>2. QED
          BY <5>1, Zenon
      <4>3. QED
        BY <4>1, <4>2
    <3>2. QED
      BY <1>3, <3>1
  <2>3. CASE t.name # "none" /\ ~t.minus
    <3>1. t.name \in TfnNames
      BY <1>2, <2>3 DEF ListActions
    <3> PICK key : key = Append(path, t.name)
      OBVIOUS
    <3>2. /\ norm' = Append(norm, t.name) /\ path' = key
          /\ hit' <=> key \in DOMAIN CacheTable(var)
          /\ hit' => last' = CacheTable(var)[key]
          /\ ~hit' => last' = last
      BY <2>3, BuildListDoes DEF Listed
    <3>3. M \/ path' = norm'
      BY <1>3, <3>2
    <3>4. CASE hit'
      <4>1. /\ UseCache(var) /\ CacheKey(var) \in DOMAIN tcache
            /\ key \in DOMAIN tcache[CacheKey(var)]
            /\ last' = tcache[CacheKey(var)][key]
        BY <3>2, <3>4, TableRecord
      <4>2. /\ var.name \in Names /\ Cacheable(var.name)
            /\ text = Text(var.name, FALSE) /\ CacheKey(var) = Prefix(text)
        BY <1>1, <4>1, UsesText
      <4>3. last'.path = key
        BY <4>1 DEF CacheShape
      <4>4. Shared(text) \/ Holds(last', text)
        BY <4>1, <4>2 DEF CacheShape
      <4>5. M \/ Starts(last'.path, norm')
        <5>1. norm' \in Paths
          BY <1>p, <3>1, <3>2, PathFacts
        <5>2. QED
          BY <3>2, <3>3, <4>3, <5>1, StartsFacts
      <4>6. QED
        BY <3>2, <3>3, <4>1, <4>3, <4>4, <4>5
    <3>5. CASE ~hit'
      <4>0. last' = last
        BY <3>2, <3>5, Zenon
      <4>1. last' # Null => last.path \in Paths
        BY <1>l, <4>0
      <4>2. last' # Null => M \/ Starts(last.path, norm')
        BY <1>p, <1>3, <3>1, <3>2, <4>0, <4>1, StartsFacts
      <4>3. QED
        BY <1>3, <3>2, <3>3, <3>5, <4>0, <4>2
    <3>6. QED
      BY <3>4, <3>5
  <2>4. QED
    BY <2>1, <2>2, <2>3
<1>7. /\ UseCache(var)' <=> UseCache(var)
      /\ Original(i)' = text
      /\ Shared(Original(i))' <=> Shared(text)
      /\ HasMinus(rule.tfns)' <=> M
  BY <1>1, VarStays
<1>8. \A r : Holds(r, Original(i))' <=> Holds(r, text)'
  BY <1>7 DEF Holds
<1>9. Holds(last, Original(i))' <=> Holds(last', text)
  BY <1>7 DEF Holds
<1>10. Starts(last.path, norm)' <=> Starts(last'.path, norm')
  BY DEF Starts
<1>11. QED
  BY <1>1, <1>3, <1>4, <1>6, <1>7, <1>9, <1>10 DEF ListShape

LEMMA ListStep ==
    ASSUME TypeOK, CacheShape, EntriesShape, TargetShape, BetweenShape, ListShape, Next
    PROVE  ListShape'
<1>1. ASSUME pc' # "list" PROVE ListShape'
  BY <1>1 DEF ListShape
<1>2. ASSUME NEW r \in Rules, StartRule(r) PROVE ListShape'
  BY <1>1, <1>2, StartRuleDoes
<1>3. CASE ExpandTarget \/ Expanded \/ PassGap
  BY <1>1, <1>3, TargetsDo
<1>4. CASE TakeTarget
  BY <1>4, ListBegins
<1>5. CASE NoMoreTargets \/ FullyCached \/ StartLoop \/ Transform \/ TransformFails
  BY <1>1, <1>5, NoMoreTargetsDoes, FullyCachedDoes, StartLoopDoes, TransformDoes,
     TransformFailsDoes
<1>6. CASE BuildList
  BY <1>6, ListGrows
<1>7. CASE LoopEnds
  BY <1>1, <1>7, LoopEndsDoes
<1>8. ASSUME NEW o \in Outcomes, CallInLoop(o) \/ CallLast(o) PROVE ListShape'
  BY <1>1, <1>8, CallInLoopDoes, CallLastDoes DEF Leaving
<1>9. CASE NextPhase
  BY <1>1, <1>9, NextPhaseDoes
<1>10. QED
  BY <1>2, <1>3, <1>4, <1>5, <1>6, <1>7, <1>8, <1>9 DEF Next

\* The values of a target and of its calls stay what they were.
LEMMA ListDone ==
    ASSUME TypeOK, ListShape, TargetShape, pc = "list", k > Len(rule.tfns)
    PROVE  norm = Normalisation(rule.tfns)
<1>1. rule \in Rules /\ k \in Nat
  BY DEF TypeOK, ControlType
<1>2. Len(rule.tfns) \in Nat
  BY <1>1, RuleActions
<1>3. k \in 1 .. Len(rule.tfns) + 1 /\ norm = Lists(rule.tfns)[k - 1]
  BY DEF ListShape
<1>4. k - 1 = Len(rule.tfns)
  BY <1>1, <1>2, <1>3
<1>5. QED
  BY <1>3, <1>4 DEF Normalisation

\* What is true of the target whenever there is one.
LEMMA TargetFacts ==
    ASSUME TypeOK, EntriesShape, TargetShape, pc \in PerTarget
    PROVE  /\ ControlType /\ ListOf(tartab, Entries) /\ i \in DOMAIN tartab
           /\ rule \in Rules /\ norm \in Paths /\ path \in Paths
           /\ value \in Texts /\ Original(i) \in Texts
           /\ k \in Nat /\ Len(norm) \in Nat
           /\ Deceived(i) <=> DeceivedBecause
<1>1. /\ ControlType /\ ListOf(tartab, Entries) /\ i \in DOMAIN tartab
      /\ rule \in Rules /\ k \in Nat
  BY DEF TypeOK, ControlType, TargetShape, PerTarget
<1>2. norm \in Paths /\ path \in Paths /\ value \in Texts
  BY DEF TypeOK, PathType
<1>3. Len(norm) \in Nat
  BY <1>2, PathFacts
<1>4. Original(i) \in Texts
  <2>1. i <= Len(tartab)
    BY <1>1, ListElement
  <2>2. QED
    BY <1>1, <2>1, TargetTypes
<1>5. QED
  BY <1>1, <1>2, <1>3, <1>4, DeceivedIs

\* The loop begins with the value of a cached part of the list, or with the
\* text.
LEMMA LoopBegins ==
    ASSUME TypeOK, EntriesShape, TargetShape, ListShape, StartLoop
    PROVE  LoopShape' /\ MultiShape'
<1>1. /\ pc = "list" /\ pc' = "loop" /\ k > Len(rule.tfns)
      /\ UNCHANGED <<cfg, tartab, i, rule, norm, tfnchanged, lastval>>
  BY StartLoopDoes
<1>2. /\ rule \in Rules /\ norm \in Paths /\ Len(norm) \in Nat /\ Original(i) \in Texts
      /\ Deceived(i) <=> DeceivedBecause
  BY <1>1, TargetFacts DEF PerTarget
<1>3. norm = Normalisation(rule.tfns)
  BY <1>1, ListDone
<1> PICK text : text = Original(i)
  OBVIOUS
<1>4. /\ value = text /\ ~changed /\ ~tfnchanged /\ lastval = Null
      /\ last # Null =>
            /\ UseCache(var)
            /\ Shared(text) \/ Holds(last, text)
            /\ HasMinus(rule.tfns) \/ Starts(last.path, norm)
  BY <1>1 DEF ListShape
<1>5. /\ UseCache(var) /\ ~Shared(text) /\ Quiet(text, path') =>
            value' = End(text, path') /\ (~changed' => value' = text)
      /\ rule.multi \/ ~Deceived(i) =>
            k' <= Len(norm) /\ value' = Steps(text, norm)[k']
  <2>1. CASE ~rule.multi /\ last # Null
    <3>1. /\ k' = Len(last.path) /\ path' = last.path
          /\ changed' = last.changed /\ value' = Cached(last)
      <4>1. ~ (rule.multi \/ last = Null)
        BY <2>1
      <4>2. QED
        BY <4>1, StartLoopDoes, Zenon
    <3>2. last.path \in Paths
      BY <2>1 DEF TypeOK, PathType, Records
    <3>3. ~Shared(text) /\ Quiet(text, last.path) =>
             value' = End(text, last.path) /\ (~last.changed => value' = text)
      BY <1>4, <2>1, <3>1 DEF Holds, Cached
    <3>4. ~Deceived(i) => k' <= Len(norm) /\ value' = Steps(text, norm)[k']
      <4>1. SUFFICES ASSUME ~Deceived(i)
                     PROVE  k' <= Len(norm) /\ value' = Steps(text, norm)[k']
        OBVIOUS
      <4>2. ~Shared(text) /\ Begins(last.path, norm) /\ Quiet(text, norm)
        BY <1>2, <1>3, <1>4, <2>1, <3>2, <4>1 DEF Begins, Paths, DeceivedBecause
      <4>3. Quiet(text, last.path)
        BY <1>2, <4>2, QuietStarts
      <4>4. Len(last.path) \in 0..Len(norm)
            /\ End(text, last.path) = Steps(text, norm)[Len(last.path)]
        BY <1>2, <4>2, EndStarts
      <4>5. QED
        BY <1>2, <3>1, <3>3, <4>2, <4>3, <4>4
    <3>5. QED
      BY <2>1, <3>1, <3>3, <3>4
  <2>2. CASE ~ (~rule.multi /\ last # Null)
    <3>1. k' = 0 /\ path' = <<>> /\ value' = value
      BY <2>2, StartLoopDoes, Zenon
    <3>2. End(text, <<>>) = text /\ Steps(text, norm)[0] = text
      BY <1>2, EndEmpty, StepsDef DEF Paths
    <3>3. QED
      BY <1>2, <1>4, <3>1, <3>2
  <2>3. QED
    BY <2>1, <2>2
<1>6. /\ UseCache(var)' <=> UseCache(var)
      /\ Original(i)' = text
      /\ Shared(Original(i))' <=> Shared(text)
      /\ Deceived(i)' <=> Deceived(i)
      /\ Normalisation(rule.tfns)' = Normalisation(rule.tfns)
  BY <1>1, VarStays
<1>7. /\ End(Original(i), path)' = End(text, path')
      /\ Quiet(Original(i), path)' <=> Quiet(text, path')
  BY <1>6 DEF End, Quiet
<1>8. LoopShape'
  BY <1>1, <1>3, <1>4, <1>5, <1>6, <1>7 DEF LoopShape
<1>9. MultiShape'
  <2>1. rule.multi => k' = 0
    BY StartLoopDoes, Zenon
  <2>2. QED
    BY <1>1, <2>1 DEF MultiShape
<1>10. QED
  BY <1>8, <1>9

\* The value of a transformation.
LEMMA LoopTransforms ==
    ASSUME TypeOK, EntriesShape, TargetShape, LoopShape, Transform
    PROVE  LoopShape'
<1>1. /\ pc \in {"loop", "transform"} /\ pc' = "loop" /\ k' = k + 1
      /\ UNCHANGED <<cfg, tartab, i, rule, norm>>
      /\ value' = Tfn(norm[k + 1], value)
      /\ tfnchanged' = Reports(norm[k + 1], value)
      /\ changed' = (changed \/ tfnchanged')
      /\ UseCache(var) => path' = Append(path, norm[k + 1]) /\ (Stored \/ Unstored)
      /\ ~UseCache(var) => lastval' = lastval
  BY TransformDoes
<1>2. /\ rule \in Rules /\ norm \in Paths /\ path \in Paths /\ Len(norm) \in Nat
      /\ Original(i) \in Texts /\ k \in Nat /\ value \in Texts
  BY <1>1, TargetFacts DEF PerTarget
<1> PICK text, t : text = Original(i) /\ t = norm[k + 1]
  OBVIOUS
<1>3. /\ norm = Normalisation(rule.tfns)
      /\ lastval # Null => cfg.incremental \/ k >= Len(norm)
      /\ UseCache(var) /\ ~Shared(text) /\ Quiet(text, path) =>
            /\ value = End(text, path) /\ (~changed => value = text)
            /\ lastval # Null => Full \/ lastval = value
      /\ rule.multi \/ ~Deceived(i) => k <= Len(norm) /\ value = Steps(text, norm)[k]
  BY <1>1 DEF LoopShape
<1>4. k < Len(norm) /\ k + 1 \in 1..Len(norm) /\ t \in TfnNames
  <2>1. k < Len(norm)
    BY TransformDoes DEF LoopShape
  <2>2. k + 1 \in 1..Len(norm)
    BY <1>2, <2>1
  <2>3. QED
    BY <1>2, <2>1, <2>2, PathFacts
<1>5. cfg.maxitems \in Nat
  BY TargetsAssumption DEF TypeOK, ControlType
<1>6. UseCache(var) /\ ~Shared(text) /\ Quiet(text, path') =>
         /\ value' = End(text, path') /\ (~changed' => value' = text)
         /\ lastval' # Null => Full' \/ lastval' = value'
  <2>1. SUFFICES ASSUME UseCache(var), ~Shared(text), Quiet(text, path')
                 PROVE  /\ value' = End(text, path') /\ (~changed' => value' = text)
                        /\ lastval' # Null => Full' \/ lastval' = value'
    OBVIOUS
  <2>2. path' = Append(path, t) /\ (Stored \/ Unstored)
    BY <1>1, <2>1
  <2>3. Quiet(text, path) /\ (Tfn(t, End(text, path)) # End(text, path)
                              => Reports(t, End(text, path)))
    BY <1>2, <1>4, <2>1, <2>2, QuietAppend DEF Paths
  <2>4. /\ value = End(text, path) /\ (~changed => value = text)
        /\ lastval # Null => Full \/ lastval = value
    BY <1>3, <2>1, <2>3
  <2>5. End(text, path') = Tfn(t, End(text, path))
    BY <1>2, <1>4, <2>2, EndAppend DEF Paths
  <2>6. value' = End(text, path') /\ (~Reports(t, value) => value' = value)
    BY <1>1, <2>3, <2>4, <2>5
  <2>7. ~changed' => value' = text
    BY <1>1, <2>4, <2>6
  <2>8. CASE Stored
    BY <1>1, <2>4, <2>6, <2>8 DEF Stored, StoredValue
  <2>9. CASE Unstored
    <3>1. lastval' = lastval
      BY <2>9 DEF Unstored
    <3>2. CASE Full /\ items' = IF items = cfg.maxitems THEN items + 1 ELSE items
      <4>1. Full'
        BY <1>1, <1>5, <3>2 DEF Full
      <4>2. QED
        BY <2>6, <2>7, <4>1
    <3>3. CASE ~cfg.incremental /\ k + 1 # Len(norm)
      BY <1>2, <1>3, <1>4, <2>6, <2>7, <3>1, <3>3
    <3>4. QED
      BY <2>9, <3>2, <3>3 DEF Unstored
  <2>10. QED
    BY <2>2, <2>6, <2>7, <2>8, <2>9
<1>7. lastval' # Null => cfg.incremental \/ k' >= Len(norm)
  <2>1. CASE lastval' = lastval
    BY <1>1, <1>2, <1>3, <2>1
  <2>2. CASE lastval' # lastval
    BY <1>1, <1>2, <2>2 DEF Stored, Unstored
  <2>3. QED
    BY <2>1, <2>2
<1>8. rule.multi \/ ~Deceived(i) => k' <= Len(norm) /\ value' = Steps(text, norm)[k']
  <2>1. Steps(text, norm)[k + 1] = Tfn(t, Steps(text, norm)[(k + 1) - 1])
    BY <1>2, <1>4, StepsDef DEF Paths
  <2>2. (k + 1) - 1 = k /\ k + 1 <= Len(norm)
    BY <1>2, <1>4
  <2>3. QED
    BY <1>1, <1>3, <2>1, <2>2
<1>9. /\ UseCache(var)' <=> UseCache(var)
      /\ Original(i)' = text
      /\ Shared(Original(i))' <=> Shared(text)
      /\ Deceived(i)' <=> Deceived(i)
      /\ Normalisation(rule.tfns)' = Normalisation(rule.tfns)
  BY <1>1, VarStays
<1>10. /\ End(Original(i), path)' = End(text, path')
      /\ Quiet(Original(i), path)' <=> Quiet(text, path')
  BY <1>9 DEF End, Quiet
<1>11. tfnchanged' => changed'
  BY <1>1
<1>12. QED
  BY <1>1, <1>3, <1>6, <1>7, <1>8, <1>9, <1>10, <1>11 DEF LoopShape

\* A call adds the value of the current target, and no call takes one away.
LEMMA CallValues ==
    ASSUME TypeOK, pc \in PerTarget, CallsOrNot
    PROVE  /\ \A j : \A v \in ValuesIn(seen, j) : v \in ValuesIn(seen', j)
           /\ i \in Inspected => value \in ValuesIn(seen', i)
           /\ \A j : \A v \in Met(seen, j) : v \in Met(seen', j)
           /\ i \in Inspected => value \in Met(seen', i)
<1>1. /\ Len(seen) \in Nat
      /\ \/ seen' = seen
         \/ /\ var.name \notin rule.except
            /\ DOMAIN seen' = 1 .. Len(seen) + 1 /\ DOMAIN seen = 1..Len(seen)
            /\ seen'[Len(seen) + 1].at = i /\ seen'[Len(seen) + 1].value = value
            /\ \A n \in 1..Len(seen) : seen'[n] = seen[n]
  BY CallTypes DEF TypeOK, PathType
<1>2. \A n \in DOMAIN seen : n \in DOMAIN seen' /\ seen'[n] = seen[n]
  BY <1>1
<1>3. ASSUME NEW j, NEW v \in ValuesIn(seen, j) PROVE v \in ValuesIn(seen', j)
  <2>1. PICK n \in DOMAIN seen : seen[n].at = j /\ v = seen[n].value
    BY <1>3 DEF ValuesIn
  <2>2. n \in DOMAIN seen' /\ seen'[n].at = j /\ v = seen'[n].value
    BY <1>2, <2>1
  <2>3. QED
    BY <2>2 DEF ValuesIn
<1>4. ASSUME i \in Inspected PROVE value \in ValuesIn(seen', i)
  <2>1. Called /\ DOMAIN seen = 1..Len(seen)
    BY <1>4, ListElement DEF CallsOrNot, Inspected, var, TypeOK
  <2>2. /\ Len(seen) + 1 \in DOMAIN seen'
        /\ seen'[Len(seen) + 1].at = i /\ seen'[Len(seen) + 1].value = value
    <3> PICK e : e = [at |-> i, value |-> value]
      OBVIOUS
    <3>1. e \in Calls /\ e.at = i /\ e.value = value
      BY DEF Calls, TypeOK, ControlType, PathType
    <3>2. seen' = Append(seen, e)
      BY <2>1 DEF Called
    <3>3. /\ DOMAIN Append(seen, e) = 1 .. Len(seen) + 1
          /\ Append(seen, e)[Len(seen) + 1] = e
      BY <3>1, ListAppend DEF TypeOK
    <3>4. QED
      BY <1>1, <3>1, <3>2, <3>3
  <2>3. QED
    BY <2>2 DEF ValuesIn
<1>5. QED
  BY <1>3, <1>4 DEF Met

\* A call before a transformation, or the end of the rule.
LEMMA MultiCalls ==
    ASSUME TypeOK, EntriesShape, TargetShape, LoopShape, MultiShape,
           NEW o, CallInLoop(o)
    PROVE  MultiShape'
<1>1. CASE pc' = "idle"
  BY <1>1 DEF MultiShape
<1>2. CASE pc' # "idle"
  <2>1. /\ pc = "loop" /\ CallsOrNot
        /\ UNCHANGED <<cfg, tartab, i, rule, norm, k, value, tfnchanged>>
    BY <1>2, CallInLoopDoes DEF Leaving
  <2>2. /\ Original(i)' = Original(i)
        /\ (i \in Inspected)' <=> i \in Inspected
        /\ SilentValues(i)' = SilentValues(i)
    BY <1>2, <2>1, VarStays
  <2>3. /\ \A j : \A v \in ValuesIn(seen, j) : v \in ValuesIn(seen', j)
        /\ \A j : \A v \in Met(seen, j) : v \in Met(seen', j)
        /\ i \in Inspected => value \in ValuesIn(seen', i) /\ value \in Met(seen', i)
    BY <2>1, CallValues DEF PerTarget
  <2>4. Met(seen, i)' = Met(seen', i)
    BY <2>1, <2>2 DEF Met
  <2>5. rule.multi /\ k = 0 => value = Original(i)
    <3>1. Original(i) \in Texts /\ norm \in Paths
      BY <2>1, TargetFacts DEF PerTarget
    <3>2. Steps(Original(i), norm)[0] = Original(i)
      BY <3>1, StepsDef DEF Paths
    <3>3. QED
      BY <2>1, <3>2 DEF LoopShape
  <2>6. rule.multi /\ i \in Inspected => Original(i) \in ValuesIn(seen', i)
    <3>1. k = 0 \/ k > 0
      BY DEF TypeOK, ControlType
    <3>2. QED
      BY <2>1, <2>3, <2>5, <3>1 DEF MultiShape
  <2>7. rule.multi /\ i \in Inspected =>
           \A n \in 0 .. k - 1 : Steps(Original(i), norm)[n] \in Met(seen', i)
    BY <2>1, <2>3 DEF MultiShape
  <2>8. QED
    BY <2>1, <2>2, <2>3, <2>4, <2>6, <2>7 DEF MultiShape
<1>3. QED
  BY <1>1, <1>2

\* A step of the list that does not report a change leaves the value as it
\* was, or is silent.
LEMMA StepMet ==
    ASSUME TypeOK, EntriesShape, TargetShape, LoopShape, Transform,
           rule.multi, value \in Met(seen, i), ~tfnchanged'
    PROVE  value' \in Met(seen, i)
<1>1. /\ pc \in {"loop", "transform"} /\ pc \in PerTarget
      /\ value' = Tfn(norm[k + 1], value) /\ ~Reports(norm[k + 1], value)
  BY TransformDoes DEF PerTarget
<1>2. /\ norm \in Paths /\ Original(i) \in Texts /\ k \in Nat
      /\ norm = Normalisation(rule.tfns) /\ value = Steps(Original(i), norm)[k]
      /\ k + 1 \in 1..Len(norm)
  BY <1>1, TargetFacts, TransformTypes DEF LoopShape, TypeOK
<1>3. value' = Steps(Original(i), norm)[k + 1] /\ (k + 1) - 1 = k
  <2>1. (k + 1) - 1 = k
    BY <1>2
  <2>2. Steps(Original(i), norm)[k + 1] = Tfn(norm[k + 1], Steps(Original(i), norm)[(k + 1) - 1])
    BY <1>2, StepsDef DEF Paths
  <2>3. QED
    BY <1>1, <1>2, <2>1, <2>2
<1>4. CASE value' = value
  BY <1>4
<1>5. CASE value' # value
  <2>1. k + 1 \in Silent(Original(i), norm)
    BY <1>1, <1>2, <1>3, <1>5 DEF Silent
  <2>2. value' \in SilentValues(i)
    BY <1>2, <1>3, <2>1 DEF SilentValues
  <2>3. QED
    BY <2>2 DEF Met
<1>6. QED
  BY <1>4, <1>5

LEMMA MultiTransforms ==
    ASSUME TypeOK, EntriesShape, TargetShape, LoopShape, MultiShape, Transform
    PROVE  MultiShape'
<1>1. /\ pc' = "loop" /\ k' = k + 1
      /\ UNCHANGED <<cfg, tartab, i, rule, norm, seen>>
  BY TransformDoes
<1>0. pc = "transform" \/ (pc = "loop" /\ ~CallBefore)
  BY TransformDoes, Zenon
<1>2. k \in Nat
  BY DEF TypeOK, ControlType
<1>3. /\ Original(i)' = Original(i)
      /\ (i \in Inspected)' <=> i \in Inspected
      /\ Met(seen, i)' = Met(seen, i)
  <2>1. /\ Original(i)' = Original(i)
        /\ (i \in Inspected)' <=> i \in Inspected
        /\ SilentValues(i)' = SilentValues(i)
    BY <1>1, VarStays
  <2>2. QED
    BY <1>1, <2>1 DEF Met
<1>4. SUFFICES ASSUME rule.multi, i \in Inspected
               PROVE  /\ \A n \in 0..k : Steps(Original(i), norm)[n] \in Met(seen, i)
                      /\ ~tfnchanged' => value' \in Met(seen, i)
                      /\ Original(i) \in ValuesIn(seen, i)
  <2>1. k' - 1 = k
    BY <1>1, <1>2
  <2>2. QED
    BY <1>1, <1>3, <2>1 DEF MultiShape
<1>5. pc = "transform" \/ (k > 0 /\ ~tfnchanged)
  <2>1. CASE pc = "loop" /\ ~CallBefore
    BY <1>2, <1>4, <2>1 DEF CallBefore
  <2>2. QED
    BY <1>0, <2>1
<1>6. /\ \A n \in 0 .. k - 1 : Steps(Original(i), norm)[n] \in Met(seen, i)
      /\ value \in Met(seen, i) /\ Original(i) \in ValuesIn(seen, i)
  BY <1>0, <1>4, <1>5 DEF MultiShape
<1>7. value = Steps(Original(i), norm)[k]
  BY <1>0, <1>4 DEF LoopShape
<1>8. \A n \in 0..k : n \in 0 .. k - 1 \/ n = k
  BY <1>2
<1>9. ~tfnchanged' => value' \in Met(seen, i)
  BY <1>4, <1>6, StepMet
<1>10. QED
  BY <1>6, <1>7, <1>8, <1>9

LEMMA LoopStep ==
    ASSUME TypeOK, EntriesShape, TargetShape, ListShape, LoopShape, MultiShape, Next
    PROVE  LoopShape' /\ MultiShape'
<1>1. ASSUME pc' \notin {"loop", "transform"} PROVE LoopShape' /\ MultiShape'
  BY <1>1 DEF LoopShape, MultiShape
<1>2. ASSUME NEW r \in Rules, StartRule(r) PROVE LoopShape' /\ MultiShape'
  BY <1>1, <1>2, StartRuleDoes
<1>3. CASE ExpandTarget \/ Expanded \/ PassGap
  BY <1>1, <1>3, TargetsDo
<1>4. CASE TakeTarget \/ NoMoreTargets \/ BuildList \/ FullyCached \/ TransformFails
  BY <1>1, <1>4, TakeTargetDoes, NoMoreTargetsDoes, BuildListDoes, FullyCachedDoes,
     TransformFailsDoes
<1>5. CASE StartLoop
  BY <1>5, LoopBegins
<1>6. ASSUME NEW o \in Outcomes, CallInLoop(o) PROVE LoopShape' /\ MultiShape'
  <2>1. MultiShape'
    BY <1>6, MultiCalls
  <2>2. CASE pc' = "idle"
    BY <1>1, <2>2
  <2>3. CASE pc' # "idle"
    <3>1. /\ pc = "loop" /\ k < Len(norm)
          /\ UNCHANGED <<cfg, tartab, i, rule, norm, k, value, path, changed, tfnchanged>>
          /\ UNCHANGED <<lastval, items>>
      BY <1>6, <2>3, CallInLoopDoes DEF Leaving
    <3>2. /\ UseCache(var)' <=> UseCache(var)
          /\ Original(i)' = Original(i)
          /\ Shared(Original(i))' <=> Shared(Original(i))
          /\ Deceived(i)' <=> Deceived(i)
          /\ Normalisation(rule.tfns)' = Normalisation(rule.tfns)
      BY <3>1, VarStays
    <3>3. /\ End(Original(i), path)' = End(Original(i), path)
          /\ Quiet(Original(i), path)' <=> Quiet(Original(i), path)
          /\ Full' <=> Full
      BY <3>1, <3>2 DEF End, Quiet, Full
    <3>4. LoopShape'
      BY <3>1, <3>2, <3>3 DEF LoopShape
    <3>5. QED
      BY <2>1, <3>4
  <2>4. QED
    BY <2>2, <2>3
<1>7. CASE Transform
  BY <1>7, LoopTransforms, MultiTransforms
<1>8. CASE LoopEnds
  BY <1>1, <1>8, LoopEndsDoes
<1>9. ASSUME NEW o \in Outcomes, CallLast(o) PROVE LoopShape' /\ MultiShape'
  BY <1>1, <1>9, CallLastDoes DEF Leaving
<1>10. CASE NextPhase
  BY <1>1, <1>10, NextPhaseDoes
<1>11. QED
  BY <1>2, <1>3, <1>4, <1>5, <1>6, <1>7, <1>8, <1>9, <1>10 DEF Next

\* The last call gets what all transformations make of the text.
LEMMA LastCached ==
    ASSUME TypeOK, EntriesShape, TargetShape, ListShape, FullyCached
    PROVE  LastShape'
<1>1. /\ pc = "list" /\ k > Len(rule.tfns) /\ ~rule.multi /\ hit /\ pc' = "last"
      /\ value' = Cached(last)
      /\ UNCHANGED <<cfg, tartab, i, rule, norm>>
  BY FullyCachedDoes
<1>2. norm = Normalisation(rule.tfns)
  BY <1>1, ListDone
<1>3. Deceived(i) <=> DeceivedBecause
  BY <1>1, TargetFacts DEF PerTarget
<1>4. /\ UseCache(var)
      /\ Shared(Original(i)) \/ Holds(last, Original(i))
      /\ last.path = path
      /\ HasMinus(rule.tfns) \/ path = norm
      /\ value = Original(i)
  BY <1>1 DEF ListShape
<1>5. ~Deceived(i) => value' = End(Original(i), norm)
  BY <1>1, <1>2, <1>3, <1>4 DEF Holds, Cached, DeceivedBecause
<1>6. /\ Deceived(i)' <=> Deceived(i)
      /\ Original(i)' = Original(i)
      /\ Normalisation(rule.tfns)' = Normalisation(rule.tfns)
  BY <1>1, VarStays
<1>7. End(Original(i), norm)' = End(Original(i), norm)
  BY <1>1, <1>6 DEF End
<1>8. QED
  BY <1>1, <1>2, <1>5, <1>6, <1>7 DEF LastShape

LEMMA LastLoop ==
    ASSUME TypeOK, EntriesShape, TargetShape, LoopShape, MultiShape, LoopEnds, pc' = "last"
    PROVE  LastShape'
<1>1. /\ pc = "loop" /\ k >= Len(norm)
      /\ UNCHANGED <<cfg, tartab, i, rule, norm, value, seen>>
  BY LoopEndsDoes DEF Leaving
<1>2. k \in Nat /\ Len(norm) \in Nat
  BY <1>1, TargetFacts DEF PerTarget
<1>3. /\ norm = Normalisation(rule.tfns)
      /\ rule.multi \/ ~Deceived(i) =>
            k <= Len(norm) /\ value = Steps(Original(i), norm)[k]
  BY <1>1 DEF LoopShape
<1>4. rule.multi \/ ~Deceived(i) => k = Len(norm) /\ value = End(Original(i), norm)
  BY <1>1, <1>2, <1>3 DEF End
<1>5. rule.multi /\ i \in Inspected =>
         /\ \A n \in 0 .. Len(norm) - 1 : Steps(Original(i), norm)[n] \in Met(seen, i)
         /\ Len(norm) > 0 => Original(i) \in ValuesIn(seen, i)
  BY <1>1, <1>4 DEF MultiShape
<1>6. /\ Deceived(i)' <=> Deceived(i)
      /\ Original(i)' = Original(i)
      /\ (i \in Inspected)' <=> i \in Inspected
      /\ Normalisation(rule.tfns)' = Normalisation(rule.tfns)
      /\ SilentValues(i)' = SilentValues(i)
  BY <1>1, VarStays
<1>7. /\ End(Original(i), norm)' = End(Original(i), norm)
      /\ Met(seen, i)' = Met(seen, i)
  BY <1>1, <1>6 DEF End, Met
<1>8. QED
  BY <1>1, <1>3, <1>4, <1>5, <1>6, <1>7 DEF LastShape

LEMMA LastStep ==
    ASSUME TypeOK, EntriesShape, TargetShape, ListShape, LoopShape, MultiShape, Next
    PROVE  LastShape'
<1>1. ASSUME pc' # "last" PROVE LastShape'
  BY <1>1 DEF LastShape
<1>2. ASSUME NEW r \in Rules, StartRule(r) PROVE LastShape'
  BY <1>1, <1>2, StartRuleDoes
<1>3. CASE ExpandTarget \/ Expanded \/ PassGap
  BY <1>1, <1>3, TargetsDo
<1>4. CASE TakeTarget \/ NoMoreTargets \/ BuildList \/ StartLoop \/ Transform \/ TransformFails
  BY <1>1, <1>4, TakeTargetDoes, NoMoreTargetsDoes, BuildListDoes, StartLoopDoes,
     TransformDoes, TransformFailsDoes
<1>5. CASE FullyCached
  BY <1>5, LastCached
<1>6. CASE LoopEnds
  BY <1>1, <1>6, LastLoop
<1>7. ASSUME NEW o \in Outcomes, CallInLoop(o) \/ CallLast(o) PROVE LastShape'
  BY <1>1, <1>7, CallInLoopDoes, CallLastDoes DEF Leaving
<1>8. CASE NextPhase
  BY <1>1, <1>8, NextPhaseDoes
<1>9. QED
  BY <1>2, <1>3, <1>4, <1>5, <1>6, <1>7, <1>8 DEF Next
-----------------------------------------------------------------------------
(* The calls of the operator. *)

\* The calls for the current target are still to come.
NotYet == pc \in {"targets", "list"} \/ (~rule.multi /\ pc \in {"loop", "transform", "last"})

LEMMA SeenFacts ==
    ASSUME TypeOK, SeenShape
    PROVE  /\ i \in Nat
           /\ \A n \in DOMAIN seen : /\ seen[n].at \in Nat /\ seen[n].at \in Inspected
                                     /\ seen[n].at <= i
                                     /\ NotYet => seen[n].at < i
<1>1. i \in Nat /\ DOMAIN seen = 1..Len(seen) /\ \A n \in 1..Len(seen) : seen[n] \in Calls
  BY ListElement DEF TypeOK, ControlType
<1>2. \A n \in DOMAIN seen : seen[n].at \in Nat
  BY <1>1 DEF Calls
<1>3. \A n \in DOMAIN seen : seen[n].at \in Inspected /\ seen[n].at <= i
  BY DEF SeenShape
<1>4. NotYet => \A n \in DOMAIN seen : seen[n].at < i
  BY DEF SeenShape, NotYet
<1>5. QED
  BY <1>1, <1>2, <1>3, <1>4

\* A step that calls nothing.
LEMMA SeenSame ==
    ASSUME TypeOK, SeenShape, seen' = seen, tartab' = tartab, rule' = rule,
           pc' # "expand", (i' = i /\ (NotYet' => NotYet)) \/ i' = i + 1,
           pc' = "idle" /\ rc' \in {"match", "no_match"} => i' > Len(tartab)
    PROVE  SeenShape'
<1>1. Inspected' = Inspected
  BY DEF Inspected
<1>2. i \in Nat /\ (i' = i \/ i' = i + 1)
  BY SeenFacts
<1>3. ASSUME NEW n \in DOMAIN seen
      PROVE  seen[n].at \in Inspected' /\ seen[n].at <= i' /\ (NotYet' => seen[n].at < i')
  BY <1>1, <1>2, SeenFacts
<1>4. QED
  BY <1>3 DEF SeenShape, NotYet

\* A step that may call the operator.
LEMMA SeenCall ==
    ASSUME TypeOK, TargetShape, SeenShape, pc \in PerTarget, CallsOrNot,
           tartab' = tartab, rule' = rule, pc' # "expand",
           (i' = i /\ ~NotYet') \/ i' = i + 1,
           pc' = "idle" => rc' \notin {"match", "no_match"}
    PROVE  SeenShape'
<1>1. Inspected' = Inspected
  BY DEF Inspected
<1>2. i \in Nat /\ (i' = i \/ i' = i + 1)
  BY SeenFacts
<1>3. /\ Len(seen) \in Nat
      /\ \/ seen' = seen
         \/ /\ var.name \notin rule.except
            /\ DOMAIN seen' = 1 .. Len(seen) + 1 /\ DOMAIN seen = 1..Len(seen)
            /\ seen'[Len(seen) + 1].at = i /\ seen'[Len(seen) + 1].value = value
            /\ \A n \in 1..Len(seen) : seen'[n] = seen[n]
  BY CallTypes DEF TypeOK, PathType
<1>4. \A n \in DOMAIN seen' : \/ n \in DOMAIN seen /\ seen'[n] = seen[n]
                              \/ var.name \notin rule.except /\ seen'[n].at = i
  BY <1>3
<1>5. var.name \notin rule.except => i \in Inspected
  BY DEF TargetShape, Inspected, var
<1>6. ASSUME NEW n \in DOMAIN seen'
      PROVE  seen'[n].at \in Inspected' /\ seen'[n].at <= i' /\ (NotYet' => seen'[n].at < i')
  <2>1. CASE n \in DOMAIN seen /\ seen'[n] = seen[n]
    BY <1>1, <1>2, <2>1, SeenFacts
  <2>2. CASE var.name \notin rule.except /\ seen'[n].at = i
    BY <1>1, <1>2, <1>5, <2>2
  <2>3. QED
    BY <1>4, <2>1, <2>2
<1>7. QED
  BY <1>6 DEF SeenShape, NotYet

LEMMA SeenStep ==
    ASSUME TypeOK, TargetShape, SeenShape, Next
    PROVE  SeenShape'
<1>0. DOMAIN <<>> = {}
  OBVIOUS
<1>1. ASSUME NEW r \in Rules, StartRule(r) PROVE SeenShape'
  BY <1>0, <1>1, StartRuleDoes DEF SeenShape
<1>2. CASE ExpandTarget \/ Expanded \/ PassGap
  <2>1. CASE pc = "expand"
    <3>1. seen' = <<>> /\ pc' \in {"expand", "targets"}
      BY <1>2, <2>1, TargetsDo DEF SeenShape
    <3>2. QED
      BY <1>0, <3>1 DEF SeenShape
  <2>2. CASE pc # "expand"
    <3>1. pc' = "targets" /\ i' = i + 1 /\ UNCHANGED <<seen, tartab, rule>>
      BY <1>2, <2>2, TargetsDo
    <3>2. QED
      BY <3>1, SeenSame
  <2>3. QED
    BY <2>1, <2>2
<1>3. CASE TakeTarget
  BY <1>3, TakeTargetDoes, SeenSame DEF NotYet
<1>4. CASE NoMoreTargets
  BY <1>4, NoMoreTargetsDoes, SeenSame DEF NotYet
<1>5. CASE BuildList
  BY <1>5, BuildListDoes, SeenSame DEF NotYet
<1>6. CASE FullyCached
  BY <1>6, FullyCachedDoes, SeenSame DEF NotYet
<1>7. CASE StartLoop
  BY <1>7, StartLoopDoes, SeenSame DEF NotYet
<1>8. ASSUME NEW o \in Outcomes, CallInLoop(o) PROVE SeenShape'
  <2>1. /\ pc \in PerTarget /\ CallsOrNot /\ rule.multi
        /\ UNCHANGED <<tartab, rule, i>> /\ pc' \in {"idle", "transform"}
        /\ pc' = "idle" => rc' \notin {"match", "no_match"}
    BY <1>8, CallInLoopDoes DEF Leaving, PerTarget
  <2>2. QED
    BY <2>1, SeenCall DEF NotYet
<1>9. CASE Transform
  BY <1>9, TransformDoes, SeenSame DEF NotYet
<1>10. CASE TransformFails
  BY <1>10, TransformFailsDoes, SeenSame DEF NotYet, Leaving
<1>11. CASE LoopEnds
  BY <1>11, LoopEndsDoes, SeenSame DEF NotYet, Leaving
<1>12. ASSUME NEW o \in Outcomes, CallLast(o) PROVE SeenShape'
  <2>1. /\ pc \in PerTarget /\ CallsOrNot /\ UNCHANGED <<tartab, rule>>
        /\ (i' = i /\ ~NotYet') \/ i' = i + 1
        /\ pc' # "expand"
        /\ pc' = "idle" => rc' \notin {"match", "no_match"}
    BY <1>12, CallLastDoes DEF Leaving, PerTarget, NotYet
  <2>2. QED
    BY <2>1, SeenCall
<1>13. CASE NextPhase
  BY <1>0, <1>13, NextPhaseDoes DEF SeenShape
<1>14. QED
  BY <1>1, <1>2, <1>3, <1>4, <1>5, <1>6, <1>7, <1>8, <1>9, <1>10, <1>11, <1>12,
     <1>13 DEF Next

\* What is said of all targets stays while the rule runs.
LEMMA TargetsStay ==
    ASSUME cfg' = cfg, tartab' = tartab, rule' = rule
    PROVE  /\ Inspected' = Inspected
           /\ \A j : Original(j)' = Original(j)
           /\ \A j : Deceived(j)' <=> Deceived(j)
           /\ Normalisation(rule.tfns)' = Normalisation(rule.tfns)
           /\ \A j : StepValues(j)' = StepValues(j)
           /\ \A j : SilentValues(j)' = SilentValues(j)
<1>1. Inspected' = Inspected
  BY DEF Inspected
<1>2. \A j : Original(j)' = Original(j)
  BY DEF Original
<1>3. \A j : Mistaken(tartab[j])' <=> Mistaken(tartab[j])
  BY DEF Mistaken, UseCache, Cacheable, CacheKey
<1>4. \A j : Deceived(j)' <=> Deceived(j)
  <2>1. \A j : Silenced(j)' <=> Silenced(j)
    BY DEF Silenced, UseCache, Cacheable, Original, Normalisation
  <2>2. QED
    BY <1>3, <2>1 DEF Deceived
<1>5. Normalisation(rule.tfns)' = Normalisation(rule.tfns)
  BY DEF Normalisation
<1>6. \A j : StepValues(j)' = StepValues(j)
  BY <1>2, <1>5 DEF StepValues
<1>7. \A j : SilentValues(j)' = SilentValues(j)
  BY <1>2, <1>5 DEF SilentValues
<1>8. QED
  BY <1>1, <1>2, <1>4, <1>5, <1>6, <1>7

\* The value of a call is what it should be, or the cache may have given it.
Right(j, v) == Deceived(j) \/ v = End(Original(j), Normalisation(rule.tfns))

LEMMA RightStays ==
    ASSUME cfg' = cfg, tartab' = tartab, rule' = rule
    PROVE  \A j, v : Right(j, v)' <=> Right(j, v)
  BY TargetsStay DEF Right, End

SingleCalls == /\ \A m, n \in DOMAIN seen : m < n => seen[m].at < seen[n].at
               /\ \A n \in DOMAIN seen : Right(seen[n].at, seen[n].value)
SingleCovers == \A j \in Inspected : j < i => \E n \in DOMAIN seen : seen[n].at = j

LEMMA SingleParts ==
    SingleShape <=> (rule # Null /\ ~rule.multi =>
                        SingleCalls /\ (pc # "expand" => SingleCovers))
  BY DEF SingleShape, SingleCalls, SingleCovers, Right

\* A step that calls nothing.
LEMMA SingleSame ==
    ASSUME SingleShape, UNCHANGED <<cfg, tartab, rule, seen>>,
           pc' = "expand" \/ (pc # "expand" /\ i' = i)
              \/ (pc # "expand" /\ i \in Nat /\ i' = i + 1 /\ i \notin Inspected)
              \/ rule.multi,
           \A j \in Inspected : j \in Nat
    PROVE  SingleShape'
<1>1. SUFFICES ASSUME rule # Null, ~rule.multi
               PROVE  SingleCalls' /\ (pc' # "expand" => SingleCovers')
  BY DEF SingleShape, SingleCalls, SingleCovers, Right
<1>2. SingleCalls /\ (pc # "expand" => SingleCovers)
  BY <1>1, SingleParts
<1>3. Inspected' = Inspected
  BY TargetsStay
<1>4. SingleCalls'
  BY <1>2, RightStays DEF SingleCalls
<1>5. pc' # "expand" => SingleCovers'
  <2>1. SUFFICES ASSUME pc' # "expand", NEW j \in Inspected, j < i'
                 PROVE  \E n \in DOMAIN seen : seen[n].at = j
    BY <1>3 DEF SingleCovers
  <2>2. pc # "expand" /\ j < i
    BY <1>1, <2>1
  <2>3. QED
    BY <1>2, <2>1, <2>2 DEF SingleCovers
<1>6. QED
  BY <1>4, <1>5

\* The last call, and with it the target.
LEMMA SingleCall ==
    ASSUME TypeOK, TargetShape, LastShape, SeenShape, SingleShape,
           NEW o, CallLast(o)
    PROVE  SingleShape'
<1>1. /\ pc = "last" /\ CallsOrNot /\ UNCHANGED <<cfg, tartab, rule>>
      /\ i' = i \/ i' = i + 1
  BY CallLastDoes DEF Leaving
<1>2. SUFFICES ASSUME rule # Null, ~rule.multi
               PROVE  SingleCalls' /\ SingleCovers'
  BY <1>1 DEF SingleShape, SingleCalls, SingleCovers, Right
<1>3. SingleCalls /\ SingleCovers
  BY <1>1, <1>2, SingleParts
<1>4. Inspected' = Inspected /\ \A j, v : Right(j, v)' <=> Right(j, v)
  BY <1>1, TargetsStay, RightStays
<1>5. /\ Len(seen) \in Nat /\ DOMAIN seen = 1..Len(seen)
      /\ \/ seen' = seen
         \/ /\ var.name \notin rule.except
            /\ DOMAIN seen' = 1 .. Len(seen) + 1 /\ DOMAIN seen = 1..Len(seen)
            /\ seen'[Len(seen) + 1].at = i /\ seen'[Len(seen) + 1].value = value
            /\ \A n \in 1..Len(seen) : seen'[n] = seen[n]
  BY <1>1, CallTypes, ListElement DEF TypeOK, PathType, PerTarget
<1>6. i \in Nat /\ \A n \in DOMAIN seen : seen[n].at \in Nat /\ seen[n].at < i
  BY <1>1, <1>2, SeenFacts DEF NotYet
<1>7. Right(i, value)
  BY <1>1, <1>2 DEF LastShape, Right, var
<1>8. \A j \in Inspected : j \in Nat
  <2>1. \A j \in DOMAIN tartab : j \in Nat
    BY ListElement DEF TypeOK
  <2>2. QED
    BY <2>1 DEF Inspected
<1>9. SingleCalls'
  <2>1. CASE seen' = seen
    BY <1>3, <1>4, <2>1 DEF SingleCalls
  <2>2. CASE seen' # seen
    <3>1. ASSUME NEW n \in DOMAIN seen' PROVE Right(seen'[n].at, seen'[n].value)
      <4>1. CASE n \in 1..Len(seen)
        BY <1>3, <1>5, <2>2, <4>1 DEF SingleCalls
      <4>2. CASE n = Len(seen) + 1
        BY <1>5, <1>7, <2>2, <4>2
      <4>3. QED
        BY <1>5, <2>2, <4>1, <4>2
    <3>2. ASSUME NEW m \in DOMAIN seen', NEW n \in DOMAIN seen', m < n
          PROVE  seen'[m].at < seen'[n].at
      <4>1. m \in 1..Len(seen) /\ seen'[m] = seen[m]
        BY <1>5, <2>2, <3>2
      <4>2. CASE n \in 1..Len(seen)
        BY <1>3, <1>5, <2>2, <3>2, <4>1, <4>2 DEF SingleCalls
      <4>3. CASE n = Len(seen) + 1
        BY <1>5, <1>6, <2>2, <4>1, <4>3
      <4>4. QED
        BY <1>5, <2>2, <4>2, <4>3
    <3>3. QED
      BY <1>4, <3>1, <3>2 DEF SingleCalls
  <2>3. QED
    BY <2>1, <2>2
<1>10. SingleCovers'
  <2>1. SUFFICES ASSUME NEW j \in Inspected, j < i'
                 PROVE  \E n \in DOMAIN seen' : seen'[n].at = j
    BY <1>4 DEF SingleCovers
  <2>2. CASE j < i
    <3>1. PICK n \in DOMAIN seen : seen[n].at = j
      BY <1>3, <2>2 DEF SingleCovers
    <3>2. n \in DOMAIN seen' /\ seen'[n].at = j
      BY <1>5, <3>1
    <3>3. QED
      BY <3>2
  <2>3. CASE ~ (j < i)
    <3>1. j = i
      BY <1>1, <1>6, <1>8, <2>1, <2>3
    <3>2. i \in Inspected /\ var.name \notin rule.except
      BY <3>1 DEF Inspected, var
    <3>3. seen' # seen
      <4> PICK e : e = [at |-> i, value |-> value]
        OBVIOUS
      <4>1. e \in Calls /\ seen' = Append(seen, e)
        BY <1>1, <3>2 DEF CallsOrNot, Called, Calls, TypeOK, PathType, PerTarget, ControlType
      <4>2. DOMAIN Append(seen, e) = 1 .. Len(seen) + 1
        BY <4>1, ListAppend DEF TypeOK
      <4>3. Len(seen) + 1 \in 1 .. Len(seen) + 1 /\ Len(seen) + 1 \notin 1..Len(seen)
        BY <1>5
      <4>5. Len(seen) + 1 \in DOMAIN seen' /\ Len(seen) + 1 \notin DOMAIN seen
        BY <1>5, <4>1, <4>2, <4>3, Zenon
      <4>6. QED
        BY <4>5
    <3>4. Len(seen) + 1 \in DOMAIN seen' /\ seen'[Len(seen) + 1].at = j
      BY <1>5, <3>1, <3>3
    <3>5. QED
      BY <3>4
  <2>4. QED
    BY <2>2, <2>3
<1>11. QED
  BY <1>9, <1>10

LEMMA SingleStep ==
    ASSUME TypeOK, TargetShape, LastShape, SeenShape, SingleShape, Next
    PROVE  SingleShape'
<1>0. i \in Nat /\ \A j \in Inspected : j \in Nat /\ j >= 1
  <2>1. \A j \in DOMAIN tartab : j \in Nat /\ j >= 1
    BY ListElement DEF TypeOK
  <2>2. QED
    BY <2>1 DEF Inspected, TypeOK, ControlType
<1>1. ASSUME seen' = <<>>, pc' = "expand" PROVE SingleShape'
  <2>1. DOMAIN seen' = {}
    BY <1>1
  <2>2. QED
    BY <1>1, <2>1 DEF SingleShape
<1>2. ASSUME NEW r \in Rules, StartRule(r) PROVE SingleShape'
  BY <1>1, <1>2, StartRuleDoes
<1>3. CASE ExpandTarget
  <2>1. seen' = <<>> /\ pc' = "expand"
    BY <1>3, TargetsDo DEF ExpandTarget, SeenShape
  <2>2. QED
    BY <1>1, <2>1
<1>4. CASE Expanded
  <2>1. /\ seen = <<>> /\ seen' = <<>> /\ i' = 1
        /\ UNCHANGED <<cfg, tartab, rule>>
    BY <1>4, TargetsDo DEF Expanded, SeenShape
  <2>2. Inspected' = Inspected /\ DOMAIN seen' = {}
    BY <2>1, TargetsStay
  <2>3. \A j \in Inspected' : ~ (j < i')
    BY <1>0, <2>1, <2>2
  <2>4. QED
    BY <2>2, <2>3 DEF SingleShape
<1>5. CASE PassGap
  <2>1. /\ pc = "targets" /\ pc' = "targets" /\ i' = i + 1 /\ var.unset
        /\ UNCHANGED <<cfg, tartab, rule, seen>>
    BY <1>5, TargetsDo DEF PassGap
  <2>2. i \notin Inspected
    BY <2>1 DEF Inspected, var
  <2>3. QED
    BY <1>0, <2>1, <2>2, SingleSame
<1>6. CASE TakeTarget \/ NoMoreTargets \/ BuildList \/ FullyCached \/ StartLoop \/ Transform
  <2>1. UNCHANGED <<cfg, tartab, rule, seen, i>> /\ pc # "expand"
    BY <1>6, TakeTargetDoes, NoMoreTargetsDoes, BuildListDoes, FullyCachedDoes,
       StartLoopDoes, TransformDoes
  <2>2. QED
    BY <1>0, <2>1, SingleSame
<1>7. CASE TransformFails
  <2>1. UNCHANGED <<cfg, tartab, rule, seen, i>> /\ pc # "expand"
    BY <1>7, TransformFailsDoes DEF Leaving
  <2>2. QED
    BY <1>0, <2>1, SingleSame
<1>8. CASE LoopEnds
  <2>1. /\ UNCHANGED <<cfg, tartab, rule, seen>> /\ pc # "expand"
        /\ i' = i \/ rule.multi
    BY <1>8, LoopEndsDoes DEF Leaving
  <2>2. QED
    BY <1>0, <2>1, SingleSame
<1>9. ASSUME NEW o \in Outcomes, CallInLoop(o) PROVE SingleShape'
  <2>1. rule.multi /\ rule' = rule
    BY <1>9, CallInLoopDoes DEF Leaving
  <2>2. QED
    BY <2>1 DEF SingleShape
<1>10. ASSUME NEW o \in Outcomes, CallLast(o) PROVE SingleShape'
  BY <1>10, SingleCall
<1>11. CASE NextPhase
  BY <1>11, NextPhaseDoes DEF SingleShape
<1>12. QED
  BY <1>2, <1>3, <1>4, <1>5, <1>6, <1>7, <1>8, <1>9, <1>10, <1>11 DEF Next

EveryCalls == \A n \in DOMAIN seen : seen[n].value \in StepValues(seen[n].at)
Covered(calls, j) == StepValues(j) \subseteq Met(calls, j) /\ Original(j) \in ValuesIn(calls, j)
EveryCovers == \A j \in Inspected : j < i => Covered(seen, j)
EveryRule == rule # Null /\ rule.multi /\ Normalisation(rule.tfns) # <<>>

LEMMA EveryParts ==
    EveryShape <=> (EveryRule => EveryCalls /\ (pc # "expand" => EveryCovers))
  BY DEF EveryShape, EveryCalls, EveryCovers, EveryRule, Covered

\* A step that calls nothing.
LEMMA EverySame ==
    ASSUME EveryShape, UNCHANGED <<cfg, tartab, rule, seen>>,
           EveryRule =>
              \/ pc' = "expand" \/ (pc # "expand" /\ i' = i)
              \/ /\ pc # "expand" /\ i \in Nat /\ i' = i + 1
                 /\ i \in Inspected => Covered(seen, i),
           \A j \in Inspected : j \in Nat
    PROVE  EveryShape'
<1>1. SUFFICES ASSUME EveryRule
               PROVE  EveryCalls' /\ (pc' # "expand" => EveryCovers')
  BY DEF EveryShape, EveryCalls, EveryCovers, EveryRule, Covered
<1>2. EveryCalls /\ (pc # "expand" => EveryCovers)
  BY <1>1, EveryParts
<1>3. /\ Inspected' = Inspected /\ \A j : StepValues(j)' = StepValues(j)
      /\ \A j : Covered(seen, j)' <=> Covered(seen', j)
  BY TargetsStay DEF Covered, Met
<1>4. EveryCalls'
  BY <1>2, <1>3 DEF EveryCalls
<1>5. pc' # "expand" => EveryCovers'
  <2>1. SUFFICES ASSUME pc' # "expand", NEW j \in Inspected, j < i'
                 PROVE  Covered(seen, j)
    BY <1>3 DEF EveryCovers
  <2>2. pc # "expand" /\ (j < i \/ j = i)
    BY <1>1, <2>1
  <2>3. CASE j < i
    BY <1>2, <2>1, <2>2, <2>3 DEF EveryCovers
  <2>4. CASE ~ (j < i)
    BY <1>1, <2>1, <2>2, <2>4
  <2>5. QED
    BY <2>3, <2>4
<1>6. QED
  BY <1>4, <1>5

\* A target whose value did not change at the end: its value was seen before.
LEMMA EveryUnchanged ==
    ASSUME TypeOK, EntriesShape, TargetShape, LoopShape, MultiShape,
           LoopEnds, pc' = "targets", EveryRule, i \in Inspected
    PROVE  Covered(seen, i)
<1>1. pc = "loop" /\ k >= Len(norm) /\ rule.multi /\ ~changed
  BY LoopEndsDoes
<1>2. /\ k \in Nat /\ Len(norm) \in Nat
      /\ norm = Normalisation(rule.tfns) /\ norm \in Paths
      /\ ~tfnchanged /\ k <= Len(norm) /\ value = Steps(Original(i), norm)[k]
  BY <1>1, TargetFacts DEF LoopShape, PerTarget
<1>3. k = Len(norm) /\ k > 0
  <2>1. norm # <<>>
    BY <1>2 DEF EveryRule
  <2>2. Len(norm) # 0
    BY <1>2, <2>1 DEF Paths
  <2>3. QED
    BY <1>1, <1>2, <2>2
<1>4. /\ \A n \in 0 .. k - 1 : Steps(Original(i), norm)[n] \in Met(seen, i)
      /\ value \in Met(seen, i) /\ Original(i) \in ValuesIn(seen, i)
  BY <1>1, <1>2, <1>3 DEF MultiShape
<1>5. \A n \in 0..Len(norm) : n \in 0 .. k - 1 \/ n = k
  BY <1>2, <1>3
<1>6. QED
  BY <1>2, <1>4, <1>5 DEF StepValues, Covered

\* A call: its value is one of the steps.  If it was the last one, all have
\* been seen.
LEMMA EveryCall ==
    ASSUME TypeOK, EntriesShape, TargetShape, LoopShape, LastShape, EveryShape, SeenShape,
           NEW o, CallInLoop(o) \/ CallLast(o)
    PROVE  EveryShape'
<1>1. /\ pc \in {"loop", "last"} /\ CallsOrNot /\ UNCHANGED <<cfg, tartab, rule>>
      /\ pc \in PerTarget
      /\ i' = i \/ (i' = i + 1 /\ CallLast(o))
  BY CallInLoopDoes, CallLastDoes DEF Leaving, PerTarget
<1>2. SUFFICES ASSUME EveryRule
               PROVE  EveryCalls' /\ EveryCovers'
  BY <1>1 DEF EveryShape, EveryCalls, EveryCovers, EveryRule, Covered
<1>3. EveryCalls /\ EveryCovers
  BY <1>1, <1>2, EveryParts
<1>4. /\ Inspected' = Inspected /\ \A j : StepValues(j)' = StepValues(j)
      /\ \A j : Covered(seen, j)' <=> Covered(seen', j)
  BY <1>1, TargetsStay DEF Covered, Met
<1>5. /\ norm = Normalisation(rule.tfns) /\ Len(norm) \in Nat /\ k \in Nat
      /\ rule.multi
  BY <1>1, <1>2, TargetFacts DEF LoopShape, LastShape, EveryRule
<1>6. value \in StepValues(i)
  <2>1. CASE pc = "loop"
    <3>1. k \in 0..Len(norm) /\ value = Steps(Original(i), norm)[k]
      BY <1>5, <2>1 DEF LoopShape
    <3>2. QED
      BY <1>5, <3>1 DEF StepValues
  <2>2. CASE pc = "last"
    <3>1. Len(norm) \in 0..Len(norm) /\ value = Steps(Original(i), norm)[Len(norm)]
      BY <1>5, <2>2 DEF LastShape, End
    <3>2. QED
      BY <1>5, <3>1 DEF StepValues
  <2>3. QED
    BY <1>1, <2>1, <2>2
<1>7. /\ \/ seen' = seen
         \/ /\ DOMAIN seen' = 1 .. Len(seen) + 1 /\ DOMAIN seen = 1..Len(seen)
            /\ seen'[Len(seen) + 1].at = i /\ seen'[Len(seen) + 1].value = value
            /\ \A n \in 1..Len(seen) : seen'[n] = seen[n]
      /\ Len(seen) \in Nat
  BY <1>1, CallTypes DEF TypeOK, PathType
<1>8. EveryCalls'
  <2>1. \A n \in DOMAIN seen' : \/ n \in DOMAIN seen /\ seen'[n] = seen[n]
                                \/ seen'[n].at = i /\ seen'[n].value = value
    BY <1>7
  <2>2. QED
    BY <1>3, <1>4, <1>6, <2>1 DEF EveryCalls
<1>9. /\ \A j : \A v \in ValuesIn(seen, j) : v \in ValuesIn(seen', j)
      /\ \A j : \A v \in Met(seen, j) : v \in Met(seen', j)
      /\ i \in Inspected => value \in Met(seen', i)
  BY <1>1, CallValues
<1>10. EveryCovers'
  <2>1. SUFFICES ASSUME NEW j \in Inspected, j < i'
                 PROVE  Covered(seen', j)
    BY <1>4 DEF EveryCovers
  <2>2. CASE j < i
    BY <1>3, <1>9, <2>1, <2>2 DEF EveryCovers, Covered
  <2>3. CASE ~ (j < i)
    <3>1. i \in Nat /\ j \in Nat
      <4>1. \A m \in DOMAIN tartab : m \in Nat
        BY ListElement DEF TypeOK
      <4>2. QED
        BY <4>1, <2>1 DEF Inspected, TypeOK, ControlType
    <3>2. j = i /\ pc = "last"
      BY <1>1, <2>1, <2>3, <3>1, CallLastDoes
    <3>3. /\ value = Steps(Original(i), norm)[Len(norm)]
          /\ \A n \in 0 .. Len(norm) - 1 : Steps(Original(i), norm)[n] \in Met(seen, i)
          /\ Len(norm) > 0 => Original(i) \in ValuesIn(seen, i)
      BY <1>5, <2>1, <3>2 DEF LastShape, End
    <3>4. \A n \in 0..Len(norm) : n \in 0 .. Len(norm) - 1 \/ n = Len(norm)
      BY <1>5
    <3>5. \A n \in 0..Len(norm) : Steps(Original(i), norm)[n] \in Met(seen', i)
      BY <1>9, <2>1, <3>2, <3>3, <3>4
    <3>6. Len(norm) > 0
      <4>1. norm \in Paths /\ norm # <<>>
        BY <1>1, <1>2, <1>5, TargetFacts DEF EveryRule
      <4>2. QED
        BY <4>1 DEF Paths
    <3>7. QED
      BY <1>5, <1>9, <2>1, <3>2, <3>3, <3>5, <3>6 DEF StepValues, Covered
  <2>4. QED
    BY <2>2, <2>3
<1>11. QED
  BY <1>8, <1>10

LEMMA EveryStep ==
    ASSUME TypeOK, EntriesShape, TargetShape, LoopShape, MultiShape, LastShape,
           SeenShape, EveryShape, Next
    PROVE  EveryShape'
<1>0. i \in Nat /\ \A j \in Inspected : j \in Nat /\ j >= 1
  <2>1. \A j \in DOMAIN tartab : j \in Nat /\ j >= 1
    BY ListElement DEF TypeOK
  <2>2. QED
    BY <2>1 DEF Inspected, TypeOK, ControlType
<1>1. ASSUME seen' = <<>>, pc' = "expand" PROVE EveryShape'
  <2>1. DOMAIN seen' = {}
    BY <1>1
  <2>2. QED
    BY <1>1, <2>1 DEF EveryShape
<1>2. ASSUME NEW r \in Rules, StartRule(r) PROVE EveryShape'
  BY <1>1, <1>2, StartRuleDoes
<1>3. CASE ExpandTarget
  <2>1. seen' = <<>> /\ pc' = "expand"
    BY <1>3, TargetsDo DEF ExpandTarget, SeenShape
  <2>2. QED
    BY <1>1, <2>1
<1>4. CASE Expanded
  <2>1. /\ seen = <<>> /\ seen' = <<>> /\ i' = 1
        /\ UNCHANGED <<cfg, tartab, rule>>
    BY <1>4, TargetsDo DEF Expanded, SeenShape
  <2>2. Inspected' = Inspected /\ DOMAIN seen' = {}
    BY <2>1, TargetsStay
  <2>3. \A j \in Inspected' : ~ (j < i')
    BY <1>0, <2>1, <2>2
  <2>4. QED
    BY <2>2, <2>3 DEF EveryShape
<1>5. CASE PassGap
  <2>1. /\ pc = "targets" /\ pc' = "targets" /\ i' = i + 1 /\ var.unset
        /\ UNCHANGED <<cfg, tartab, rule, seen>>
    BY <1>5, TargetsDo DEF PassGap
  <2>2. i \notin Inspected
    BY <2>1 DEF Inspected, var
  <2>3. QED
    BY <1>0, <2>1, <2>2, EverySame
<1>6. CASE TakeTarget \/ NoMoreTargets \/ BuildList \/ FullyCached \/ StartLoop \/ Transform
  <2>1. UNCHANGED <<cfg, tartab, rule, seen, i>> /\ pc # "expand"
    BY <1>6, TakeTargetDoes, NoMoreTargetsDoes, BuildListDoes, FullyCachedDoes,
       StartLoopDoes, TransformDoes
  <2>2. QED
    BY <1>0, <2>1, EverySame
<1>7. CASE TransformFails
  <2>1. UNCHANGED <<cfg, tartab, rule, seen, i>> /\ pc # "expand"
    BY <1>7, TransformFailsDoes DEF Leaving
  <2>2. QED
    BY <1>0, <2>1, EverySame
<1>8. CASE LoopEnds
  <2>1. /\ UNCHANGED <<cfg, tartab, rule, seen>> /\ pc # "expand"
        /\ i' = i \/ (i' = i + 1 /\ pc' = "targets")
    BY <1>8, LoopEndsDoes DEF Leaving
  <2>2. i' = i + 1 /\ pc' = "targets" /\ EveryRule /\ i \in Inspected =>
           Covered(seen, i)
    BY <1>8, EveryUnchanged
  <2>3. QED
    BY <1>0, <2>1, <2>2, EverySame
<1>9. ASSUME NEW o \in Outcomes, CallInLoop(o) \/ CallLast(o) PROVE EveryShape'
  BY <1>9, EveryCall
<1>10. CASE NextPhase
  BY <1>10, NextPhaseDoes DEF EveryShape
<1>11. QED
  BY <1>2, <1>3, <1>4, <1>5, <1>6, <1>7, <1>8, <1>9, <1>10 DEF Next
-----------------------------------------------------------------------------
(* The invariant and what follows from it. *)

LEMMA InitInv == Init => Inv
<1> SUFFICES ASSUME Init PROVE Inv
  OBVIOUS
<1> DOMAIN <<>> = {}
  OBVIOUS
<1>1. TypeOK
  <2>1. ControlType /\ FlagType /\ CacheType
    <3>1. ControlType
      BY DEF Init, ControlType
    <3>2. FlagType
      BY DEF Init, FlagType
    <3>3. CacheType
      BY DEF Init, CacheType
    <3>4. QED
      BY <3>1, <3>2, <3>3
  <2>2. PathType
    BY PathFacts DEF Init, PathType, PerTarget
  <2>3. ListOf(tartab, Entries) /\ ListOf(seen, Calls)
    BY DEF Init, ListOf
  <2>4. QED
    BY <2>1, <2>2, <2>3 DEF TypeOK
<1>2. CacheShape /\ EntriesShape
  BY DEF Init, CacheShape, EntriesShape
<1>3. BetweenShape
  BY DEF Init, BetweenShape
<1>4. TargetShape /\ ListShape /\ LoopShape /\ MultiShape /\ LastShape
  BY DEF Init, TargetShape, ListShape, LoopShape, MultiShape, LastShape, PerTarget
<1>5. SeenShape /\ SingleShape /\ EveryShape
  BY DEF Init, SeenShape, SingleShape, EveryShape
<1>6. QED
  BY <1>1, <1>2, <1>3, <1>4, <1>5 DEF Inv

LEMMA StutterInv == Inv /\ UNCHANGED vars => Inv'
<1> SUFFICES ASSUME Inv, UNCHANGED vars PROVE Inv'
  OBVIOUS
<1>1. /\ UNCHANGED <<cfg, tcache, rc, pc, rule, tartab, i, norm, path, last, hit, k>>
      /\ UNCHANGED <<value, changed, tfnchanged, lastval, items, seen>>
  BY DEF vars, results, target
<1>2. TypeOK'
  <2>1. TypeOK
    BY DEF Inv
  <2>2. ControlType' /\ FlagType'
    BY <1>1, <2>1 DEF TypeOK, ControlType, FlagType
  <2>3. PathType' /\ CacheType'
    BY <1>1, <2>1 DEF TypeOK, PathType, CacheType
  <2>4. QED
    BY <1>1, <2>1, <2>2, <2>3 DEF TypeOK
<1>3. CacheShape'
  BY <1>1, SharedStays DEF Inv, CacheShape, Holds, Quiet
<1>4. EntriesShape' /\ BetweenShape'
  BY <1>1 DEF Inv, EntriesShape, BetweenShape
<1>5. /\ var' = var
      /\ UseCache(var)' <=> UseCache(var)
      /\ CacheKey(var)' = CacheKey(var)
      /\ Original(i)' = Original(i)
      /\ Shared(Original(i))' <=> Shared(Original(i))
      /\ HasMinus(rule.tfns)' <=> HasMinus(rule.tfns)
      /\ Deceived(i)' <=> Deceived(i)
      /\ (i \in Inspected)' <=> i \in Inspected
      /\ Normalisation(rule.tfns)' = Normalisation(rule.tfns)
      /\ Met(seen, i)' = Met(seen, i)
  BY <1>1, VarStays DEF Met
<1>6. TargetShape'
  BY <1>1, <1>5 DEF Inv, TargetShape
<1>7. ListShape'
  <2>1. Holds(last, Original(i))' <=> Holds(last, Original(i))
    BY <1>1, <1>5 DEF Holds, Quiet
  <2>2. Starts(last.path, norm)' <=> Starts(last.path, norm)
    BY <1>1
  <2>3. QED
    BY <1>1, <1>5, <2>1, <2>2 DEF Inv, ListShape
<1>8. LoopShape'
  <2>1. /\ End(Original(i), path)' = End(Original(i), path)
        /\ Quiet(Original(i), path)' <=> Quiet(Original(i), path)
        /\ Full' <=> Full
    BY <1>1, <1>5 DEF End, Quiet, Full
  <2>2. QED
    BY <1>1, <1>5, <2>1 DEF Inv, LoopShape
<1>9. MultiShape'
  BY <1>1, <1>5 DEF Inv, MultiShape
<1>10. LastShape'
  <2>1. End(Original(i), norm)' = End(Original(i), norm)
    BY <1>1, <1>5 DEF End
  <2>2. QED
    BY <1>1, <1>5, <2>1 DEF Inv, LastShape
<1>11. Inspected' = Inspected
  BY <1>1, TargetsStay
<1>12. SeenShape'
  BY <1>1, <1>11 DEF Inv, SeenShape
<1>13. SingleShape'
  <2>1. \A j, v : Right(j, v)' <=> Right(j, v)
    BY <1>1, RightStays
  <2>2. rule # Null /\ ~rule.multi => SingleCalls /\ (pc # "expand" => SingleCovers)
    BY SingleParts DEF Inv
  <2>3. SingleCalls => SingleCalls'
    BY <1>1, <2>1 DEF SingleCalls
  <2>4. SingleCovers => SingleCovers'
    BY <1>1, <1>11 DEF SingleCovers
  <2>5. rule' # Null /\ ~rule'.multi => SingleCalls' /\ (pc' # "expand" => SingleCovers')
    BY <1>1, <2>2, <2>3, <2>4
  <2>6. QED
    BY <2>5 DEF SingleShape, SingleCalls, SingleCovers, Right
<1>14. EveryShape'
  <2>1. /\ \A j : StepValues(j)' = StepValues(j)
        /\ \A j : Covered(seen, j)' <=> Covered(seen, j)
    BY <1>1, TargetsStay DEF Covered, Met
  <2>2. EveryRule => EveryCalls /\ (pc # "expand" => EveryCovers)
    BY EveryParts DEF Inv
  <2>3. EveryCalls => EveryCalls'
    BY <1>1, <2>1 DEF EveryCalls
  <2>4. EveryCovers => EveryCovers'
    BY <1>1, <1>11, <2>1 DEF EveryCovers
  <2>5. EveryRule' => EveryRule
    BY <1>1, <1>5 DEF EveryRule
  <2>6. EveryRule' => EveryCalls' /\ (pc' # "expand" => EveryCovers')
    BY <1>1, <2>2, <2>3, <2>4, <2>5
  <2>7. QED
    BY <2>6 DEF EveryShape, EveryRule, EveryCalls, EveryCovers, Covered
<1>15. QED
  BY <1>2, <1>3, <1>4, <1>6, <1>7, <1>8, <1>9, <1>10, <1>12, <1>13, <1>14 DEF Inv

LEMMA NextInv == Inv /\ Next => Inv'
<1> SUFFICES ASSUME Inv, Next PROVE Inv'
  OBVIOUS
<1>1. /\ TypeOK /\ CacheShape /\ EntriesShape /\ BetweenShape /\ TargetShape
      /\ ListShape /\ LoopShape /\ MultiShape /\ LastShape
      /\ SeenShape /\ SingleShape /\ EveryShape
  BY DEF Inv
<1>2. ControlType /\ FlagType /\ PathType /\ CacheType
      /\ ListOf(tartab, Entries) /\ ListOf(seen, Calls)
  BY <1>1 DEF TypeOK
<1>3. ControlType' /\ FlagType' /\ PathType'
  BY <1>1, <1>2, ControlStep, FlagStep, PathStep
<1>4. CacheType' /\ CacheShape'
  BY <1>1, CacheStep
<1>5. ListOf(tartab', Entries) /\ EntriesShape'
  BY <1>1, <1>2, EntriesStep
<1>6. ListOf(seen', Calls)
  BY <1>2, SeenTypeStep
<1>7. TypeOK'
  BY <1>3, <1>4, <1>5, <1>6 DEF TypeOK
<1>8. BetweenShape' /\ TargetShape' /\ ListShape'
  BY <1>1, <1>2, BetweenStep, TargetStep, ListStep
<1>9. LoopShape' /\ MultiShape' /\ LastShape'
  BY <1>1, LoopStep, LastStep
<1>10. SeenShape' /\ SingleShape' /\ EveryShape'
  BY <1>1, SeenStep, SingleStep, EveryStep
<1>11. QED
  BY <1>4, <1>5, <1>7, <1>8, <1>9, <1>10 DEF Inv

LEMMA SpecInv == Spec => []Inv
<1>1. Inv /\ [Next]_vars => Inv'
  BY NextInv, StutterInv
<1>2. QED
  BY InitInv, <1>1, PTL DEF Spec

\* A target that the loop is past comes before the current one.
LEMMA PastBefore ==
    ASSUME Inv, NEW j \in Inspected, Past(j)
    PROVE  j < i /\ pc # "expand"
<1>1. CASE pc \notin {"idle", "expand"} /\ j < i
  BY <1>1
<1>2. CASE pc = "idle" /\ rc \in {"match", "no_match"}
  <2>1. i > Len(tartab)
    BY <1>2 DEF Inv, SeenShape
  <2>2. i \in Nat /\ DOMAIN tartab = 1..Len(tartab) /\ Len(tartab) \in Nat
    BY ListElement DEF Inv, TypeOK, ControlType
  <2>3. j \in DOMAIN tartab
    BY DEF Inspected
  <2>4. QED
    BY <1>2, <2>1, <2>2, <2>3
<1>3. QED
  BY <1>1, <1>2 DEF Past

LEMMA SeenInspected ==
    ASSUME Inv
    PROVE  \A n \in DOMAIN seen :
              /\ seen[n].at \in Inspected /\ seen[n].at <= i
              /\ pc \in {"targets", "list"} => seen[n].at < i
  BY DEF Inv, SeenShape

LEMMA InvSingle == Inv => OperatorSeesTransformed
<1> SUFFICES ASSUME Inv, rule # Null, ~rule.multi
             PROVE  /\ NoTargetMissed
                    /\ \A m, n \in DOMAIN seen : m < n => seen[m].at < seen[n].at
                    /\ \A n \in DOMAIN seen : Right(seen[n].at, seen[n].value)
  BY DEF OperatorSeesTransformed, Right, End, Deceived
<1>1. SingleCalls /\ (pc # "expand" => SingleCovers)
  BY SingleParts DEF Inv
<1>2. ASSUME NEW j \in Inspected, Past(j) PROVE \E n \in DOMAIN seen : seen[n].at = j
  BY <1>1, <1>2, PastBefore DEF SingleCovers
<1>3. QED
  BY <1>1, <1>2, SeenInspected DEF SingleCalls, NoTargetMissed

LEMMA InvEvery == Inv => MultiMatchSeesEveryStep
<1> SUFFICES ASSUME Inv, EveryRule
             PROVE  /\ NoTargetMissed
                    /\ \A n \in DOMAIN seen : seen[n].value \in StepValues(seen[n].at)
                    /\ \A j \in Inspected : Past(j) => StepValues(j) \subseteq Met(seen, j)
  BY DEF MultiMatchSeesEveryStep, EveryRule, StepValues, ValuesIn, SilentValues, Met
<1>1. EveryCalls /\ (pc # "expand" => EveryCovers)
  BY EveryParts DEF Inv
<1>2. ASSUME NEW j \in Inspected, Past(j) PROVE Covered(seen, j)
  BY <1>1, <1>2, PastBefore DEF EveryCovers
<1>3. ASSUME NEW j \in Inspected, Past(j) PROVE \E n \in DOMAIN seen : seen[n].at = j
  BY <1>2, <1>3 DEF Covered, ValuesIn
<1>4. QED
  BY <1>1, <1>2, <1>3, SeenInspected DEF EveryCalls, NoTargetMissed, Covered

\* Every variable has its type (msre_rule_process_normal).
THEOREM TargetsTypeCorrect == Spec => []TypeOK
<1>1. Inv => TypeOK
  BY DEF Inv
<1>2. QED
  BY SpecInv, <1>1, PTL

\* Without multiMatch the operator is called once for every target that
\* remains, in order, with what all transformations make of its text, whatever
\* the cache holds, unless the cache takes the target for another or lacks a
\* change that was not reported (msre_rule_process_normal, execute_operator).
THEOREM OperatorSeesTransformedAlways == Spec => []OperatorSeesTransformed
  BY SpecInv, InvSingle, PTL

\* With multiMatch the operator sees every value on the way that was not
\* reached by an unreported change, and no value that is not on the way
\* (msre_rule_process_normal).
THEOREM MultiMatchSeesEveryStepAlways == Spec => []MultiMatchSeesEveryStep
  BY SpecInv, InvEvery, PTL
=============================================================================
