---------------------------- MODULE RuleTargets ----------------------------
(***************************************************************************)
(* What the operator of a rule gets to see: msre_rule_process_normal and   *)
(* execute_operator of re.c, with the expansion of targets, the list of    *)
(* transformations, multiMatch, exceptions for targets, and the cache of   *)
(* transformed values that the rules of one phase share.  One action is    *)
(* one turn of one of the loops.                                           *)
(*                                                                         *)
(* A text is whatever Text and Tfn make it.  A transformation also reports *)
(* whether it changed the text; the report need not be true: hexDecode     *)
(* reports a change always, compressWhitespace none when one tab becomes   *)
(* one space.  The cache is keyed by the first bytes of a text and then by *)
(* the path, the names of the transformations (the number of names in the  *)
(* code's key adds nothing).                                               *)
(***************************************************************************)
EXTENDS Integers, Sequences

CONSTANTS Variables,    \* target name -> names of the variables it generates
          Text(_, _),   \* Text(name, counting): value of a variable or count
          Prefix(_),    \* the first bytes of a text
          Tfn(_, _),    \* Tfn(t, text): what transformation t makes of text
          Reports(_, _),    \* Reports(t, text): does t return that it changed it
          Texts,        \* values of variables
          TfnNames,     \* names of transformations
          Uncached,     \* variables that may not be cached (VAR_DONT_CACHE,
                        \* too short, too long, not available in this phase)
          Rules,        \* the rules that may run
          MaxRules,     \* bound: rules in the phase
          Configs,      \* settings of the cache: [enabled, maxitems (0: no
                        \* limit), incremental]
          Null          \* NULL

Names == UNION {{Variables[g][m] : m \in DOMAIN Variables[g]} : g \in DOMAIN Variables}

ASSUME TargetsAssumption ==
    /\ \A r \in Rules :
          /\ r.targets \in Seq([name : DOMAIN Variables, count : BOOLEAN,
                                negated : BOOLEAN])
          /\ r.tfns \in Seq([name : TfnNames \cup {"none"}, minus : BOOLEAN])
          /\ r.multi \in BOOLEAN
    /\ \A c \in Configs : /\ c.enabled \in BOOLEAN /\ c.incremental \in BOOLEAN
                          /\ c.maxitems \in Nat
    /\ \A g \in DOMAIN Variables : Variables[g] \in Seq(Names)
    /\ \A v \in Names \cup DOMAIN Variables, c \in BOOLEAN : Text(v, c) \in Texts
    /\ \A t \in TfnNames, text \in Texts : /\ Tfn(t, text) \in Texts
                                         /\ Reports(t, text) \in BOOLEAN

VARIABLES
    cfg,        \* txcfg: cache_trans and its options
    tcache,     \* msr->tcache: key -> path -> cache record
    items,      \* msr->tcache_items
    done,       \* rules processed in this phase
    rc,         \* what msre_rule_process returned for the last one
    pc,         \* "idle", or the loop that msre_rule_process_normal is in
    rule,       \* the rule, and until the next one starts (history)
    tartab,     \* its targets; one that was unset stays as a gap
    i,          \* the target
    norm,       \* normtab, the list of transformations
    path,       \* tfnspath
    last, hit,  \* last_crec, and is it crec, the last one looked up
    k,          \* position in the list of actions, then in norm
    value,      \* var->value
    changed, tfnchanged,
    lastval,    \* lastvarval, the last value stored that was reported changed
    matched,    \* match_count > 0
    seen        \* the calls of the operator (history)

results == <<cfg, tcache, items, done, rc>>
target  == <<norm, path, last, hit, k, value, changed, tfnchanged,
             lastval>>
vars == <<results, pc, rule, tartab, i, target, matched, seen>>

Init ==
    /\ cfg \in Configs
    /\ tcache = <<>> /\ items = 0 /\ done = 0 /\ rc = "none"
    /\ pc = "idle" /\ rule = Null /\ tartab = <<>> /\ i = 1
    /\ norm = <<>> /\ path = <<>> /\ last = Null /\ hit = FALSE
    /\ k = 1 /\ value = Null /\ changed = FALSE /\ tfnchanged = FALSE
    /\ lastval = Null /\ matched = FALSE /\ seen = <<>>

Entry(name, counting) == [name |-> name, counting |-> counting, unset |-> FALSE]
var == tartab[i]

Cacheable(v) == cfg.enabled /\ v \notin Uncached
UseCache(v) == ~v.counting /\ Cacheable(v.name)

\* Mutant: all values share one table.
CacheKeyOfNone(v) == Null

\* apr_hash_get(msr->tcache, var->value, sizeof(var->value)).
CacheKey(v) == Prefix(Text(v.name, FALSE))

\* The cache table of the target, if it has one.
CacheTable(v) == IF UseCache(v) /\ CacheKey(v) \in DOMAIN tcache
                 THEN tcache[CacheKey(v)] ELSE <<>>

-----------------------------------------------------------------------------
(* The targets. *)

StartRule(r) ==
    /\ pc = "idle" /\ done < MaxRules /\ rc \notin {"intercepted", "error"}
    /\ pc' = "expand" /\ rule' = r /\ tartab' = <<>> /\ i' = 1
    /\ matched' = FALSE /\ seen' = <<>>
    /\ UNCHANGED <<results, target>>

\* A counting target adds the number of its variables, a negated one takes
\* back what earlier targets added.
ExpandTarget ==
    /\ pc = "expand" /\ i <= Len(rule.targets)
    /\ LET t == rule.targets[i]
           generated == Variables[t.name]
       IN  \/ /\ t.count
              /\ tartab' = Append(tartab, Entry(t.name, TRUE))
           \/ /\ ~t.count /\ ~t.negated
              /\ tartab' = tartab \o [j \in 1..Len(generated) |->
                                        Entry(generated[j], FALSE)]
           \/ /\ ~t.count /\ t.negated
              /\ tartab' = [j \in DOMAIN tartab |->
                              [tartab[j] EXCEPT !.unset = @ \/
                                 \E m \in DOMAIN generated :
                                    tartab[j].name = generated[m]]]
    /\ i' = i + 1
    /\ UNCHANGED <<results, pc, rule, target, matched, seen>>

Expanded ==
    /\ pc = "expand" /\ i > Len(rule.targets)
    /\ pc' = "targets" /\ i' = 1
    /\ UNCHANGED <<results, rule, tartab, target, matched, seen>>

PassGap ==
    /\ pc = "targets" /\ i <= Len(tartab) /\ var.unset
    /\ i' = i + 1
    /\ UNCHANGED <<results, pc, rule, tartab, target, matched, seen>>

\* Take one target.  From here on its cache table exists.
TakeTarget ==
    /\ pc = "targets" /\ i <= Len(tartab) /\ ~var.unset
    /\ pc' = "list"
    /\ value' = Text(var.name, var.counting)
    /\ tcache' = IF UseCache(var)
                 THEN [x \in DOMAIN tcache \cup {CacheKey(var)} |->
                         IF x \in DOMAIN tcache THEN tcache[x] ELSE <<>>]
                 ELSE tcache
    /\ UNCHANGED <<cfg, items, done, rc, rule, tartab, i, norm, path, last, hit,
                   k, changed, tfnchanged, lastval, matched, seen>>

\* The variables of the loop are gone.
Forget ==
    /\ norm' = <<>> /\ path' = <<>> /\ last' = Null /\ hit' = FALSE
    /\ k' = 1 /\ value' = Null /\ changed' = FALSE /\ tfnchanged' = FALSE
    /\ lastval' = Null

NextTarget ==
    /\ pc' = "targets" /\ i' = i + 1 /\ Forget
    /\ UNCHANGED <<rc, done>>

Return(result) ==
    /\ rc' = result /\ done' = done + 1
    /\ pc' = "idle" /\ Forget
    /\ UNCHANGED i

NoMoreTargets ==
    /\ pc = "targets" /\ i > Len(tartab)
    /\ Return(IF matched THEN "match" ELSE "no_match")
    /\ UNCHANGED <<cfg, tcache, items, rule, tartab, matched, seen>>

-----------------------------------------------------------------------------
(* The list of transformations. *)

Without(list, name) ==
    LET kept[n \in 0..Len(list)] ==
            IF n = 0 THEN <<>>
            ELSE IF list[n] = name THEN kept[n - 1] ELSE Append(kept[n - 1], list[n])
    IN  kept[Len(list)]

\* t:none clears the list, t:-x takes x out of it.
Listed(list, t) ==
    IF t.name = "none" THEN <<>>
    ELSE IF t.minus THEN Without(list, t.name) ELSE Append(list, t.name)

\* One action of the rule.  For t:x the cache is asked for the path so far;
\* the most complete record found is kept.  t:-x leaves the path as it is.
BuildList ==
    /\ pc = "list" /\ k <= Len(rule.tfns)
    /\ LET t     == rule.tfns[k]
           key   == Append(path, t.name)
           table == CacheTable(var)
       IN  /\ norm' = Listed(norm, t)
           /\ \/ /\ t.name = "none"
                 /\ path' = <<>> /\ last' = Null /\ hit' = FALSE
              \/ /\ t.name # "none" /\ t.minus
                 /\ UNCHANGED <<path, last, hit>>
              \/ /\ t.name # "none" /\ ~t.minus
                 /\ path' = key
                 /\ hit' = (key \in DOMAIN table)
                 /\ last' = IF hit' THEN table[key] ELSE last
    /\ k' = k + 1
    /\ UNCHANGED <<results, pc, rule, tartab, i, value, changed, tfnchanged,
                   lastval, matched, seen>>

AllListed == pc = "list" /\ k > Len(rule.tfns)

\* The text a cache record stands for.
Cached(record) == IF record.changed THEN record.value ELSE value

\* The last transformation is cached: the operator can be called at once.
FullyCached ==
    /\ AllListed /\ ~rule.multi /\ hit
    /\ value' = Cached(last)
    /\ pc' = "last"
    /\ UNCHANGED <<results, rule, tartab, i, norm, path, last, hit, k, changed,
                   tfnchanged, lastval, matched, seen>>

\* Mutant: multiMatch does not start from the beginning.
FromCacheUnchecked == last # Null

\* Start after the last known cached transformation if we can.
FromCache == ~rule.multi /\ last # Null

StartLoop ==
    /\ AllListed /\ (rule.multi \/ ~hit)
    /\ IF FromCache
       THEN /\ k' = Len(last.path) /\ path' = last.path
            /\ changed' = last.changed /\ value' = Cached(last)
       ELSE k' = 0 /\ path' = <<>> /\ UNCHANGED <<changed, value>>
    /\ pc' = "loop"
    /\ UNCHANGED <<results, rule, tartab, i, norm, last, hit, tfnchanged,
                   lastval, matched, seen>>

-----------------------------------------------------------------------------
(* The loop of transformations and the calls of the operator. *)

\* execute_operator: an exception of ctl:ruleRemoveTarget* leaves the
\* variable out.  A match may intercept; an error ends the rule.
Outcomes == {"no", "match", "deny", "error"}
ExecuteOperator(o) ==
    IF var.name \in rule.except
    THEN o = "no" /\ UNCHANGED <<matched, seen>>
    ELSE /\ matched' = (matched \/ o \in {"match", "deny"})
         /\ seen' = Append(seen, [at |-> i, value |-> value])

Ends(o) == /\ o \in {"deny", "error"}
           /\ Return(IF o = "deny" THEN "intercepted" ELSE "error")

\* In multi-match mode the operator is called once at the beginning and then
\* once every time the value is changed.
CallBefore == rule.multi /\ (k = 0 \/ tfnchanged)

CallInLoop(o) ==
    /\ pc = "loop" /\ k < Len(norm) /\ CallBefore
    /\ ExecuteOperator(o)
    /\ \/ Ends(o)
       \/ /\ o \notin {"deny", "error"} /\ pc' = "transform"
          /\ UNCHANGED <<i, rc, done, target>>
    /\ UNCHANGED <<cfg, tcache, items, rule, tartab>>

Transforming ==
    \/ pc = "transform"
    \/ pc = "loop" /\ k < Len(norm) /\ ~CallBefore

\* Cache the result: every one if the cache is incremental, the last one
\* otherwise, none beyond the limit, where items goes one further.  A result
\* that is reported unchanged shares the value stored last for the target.
StoreInCache(p, new, reported) ==
    IF cfg.maxitems # 0 /\ items >= cfg.maxitems
    THEN /\ items' = IF items = cfg.maxitems THEN items + 1 ELSE items
         /\ UNCHANGED <<tcache, lastval>>
    ELSE IF cfg.incremental \/ k + 1 = Len(norm)
    THEN LET stored == IF lastval = Null \/ reported THEN new ELSE lastval
             record == [value |-> stored, changed |-> changed \/ reported, path |-> p]
         IN  /\ items' = items + 1
             /\ lastval' = IF reported THEN stored ELSE lastval
             /\ tcache' = [tcache EXCEPT ![CacheKey(var)] =
                              [q \in DOMAIN @ \cup {p} |-> IF q = p THEN record ELSE @[q]]]
    ELSE UNCHANGED <<tcache, items, lastval>>

Transform ==
    /\ Transforming
    /\ LET new      == Tfn(norm[k + 1], value)
           reported == Reports(norm[k + 1], value)
           p        == Append(path, norm[k + 1])
       IN  /\ value' = new
           /\ tfnchanged' = reported
           /\ changed' = (changed \/ reported)
           /\ IF UseCache(var)
              THEN path' = p /\ StoreInCache(p, new, reported)
              ELSE UNCHANGED <<path, tcache, items, lastval>>
    /\ k' = k + 1 /\ pc' = "loop"
    /\ UNCHANGED <<cfg, done, rc, rule, tartab, i, norm, last, hit, matched, seen>>

\* A transformation reports an error.
TransformFails ==
    /\ Transforming
    /\ Return("error")
    /\ UNCHANGED <<cfg, tcache, items, rule, tartab, matched, seen>>

LoopEnds ==
    /\ pc = "loop" /\ k >= Len(norm)
    /\ IF ~rule.multi \/ changed
       THEN pc' = "last" /\ UNCHANGED <<i, rc, done, target>>
       ELSE NextTarget
    /\ UNCHANGED <<cfg, tcache, items, rule, tartab, matched, seen>>

CallLast(o) ==
    /\ pc = "last"
    /\ ExecuteOperator(o)
    /\ Ends(o) \/ (o \notin {"deny", "error"} /\ NextTarget)
    /\ UNCHANGED <<cfg, tcache, items, rule, tartab>>

\* The next phase begins with an empty cache.
NextPhase ==
    /\ pc = "idle" /\ done > 0 /\ rc \notin {"intercepted", "error"}
    /\ tcache' = <<>> /\ items' = 0 /\ done' = 0 /\ rc' = "none"
    /\ rule' = Null /\ tartab' = <<>> /\ i' = 1 /\ matched' = FALSE /\ seen' = <<>>
    /\ UNCHANGED <<cfg, pc, target>>

Next ==
    \/ \E r \in Rules : StartRule(r)
    \/ ExpandTarget \/ Expanded \/ PassGap \/ TakeTarget \/ NoMoreTargets
    \/ BuildList \/ FullyCached \/ StartLoop
    \/ \E o \in Outcomes : CallInLoop(o) \/ CallLast(o)
    \/ Transform \/ TransformFails \/ LoopEnds
    \/ NextPhase

Spec == Init /\ [][Next]_vars
-----------------------------------------------------------------------------
(* What the operator should see. *)

\* The list of transformations after each action of a rule, and of all.
Lists(tfns) ==
    LET list[n \in 0..Len(tfns)] ==
            IF n = 0 THEN <<>> ELSE Listed(list[n - 1], tfns[n])
    IN  list
Normalisation(tfns) == Lists(tfns)[Len(tfns)]

\* A text after each of a list of transformations, the first one untransformed.
Steps(text, list) ==
    LET at[n \in 0..Len(list)] ==
            IF n = 0 THEN text ELSE Tfn(list[n], at[n - 1])
    IN  at

Original(j) == Text(tartab[j].name, tartab[j].counting)

\* The silent changes: the transformation changes the text and reports that
\* it has not (compressWhitespace, normalizePath, utf8toUnicode and
\* base64DecodeExt do, each for some texts).
Silent(text, list) ==
    LET at == Steps(text, list)
    IN  {n \in 1..Len(list) : at[n] # at[n - 1] /\ ~Reports(list[n], at[n - 1])}

\* The targets the operator is called for.
Inspected == {j \in DOMAIN tartab : /\ ~tartab[j].unset
                                    /\ tartab[j].name \notin rule.except}

\* The cache can take one target for another: texts with the same first
\* bytes share a table, and t:-x leaves x in the path that is looked up.
Mistaken(v) ==
    /\ UseCache(v)
    /\ \/ \E w \in Names : /\ Cacheable(w) /\ Text(w, FALSE) # Text(v.name, FALSE)
                           /\ Prefix(Text(w, FALSE)) = CacheKey(v)
       \/ \E n \in DOMAIN rule.tfns : rule.tfns[n].minus

\* A cached value may lack the silent changes made on the way to it.
Silenced(j) == UseCache(tartab[j]) /\ Silent(Original(j), Normalisation(rule.tfns)) # {}

\* The loop is past target j, or the rule has returned without an end.
Past(j) == \/ pc \notin {"idle", "expand"} /\ j < i
           \/ pc = "idle" /\ rc \in {"match", "no_match"}

\* The calls are made target by target, and none is left out: those before
\* the current one, or all when the rule has returned without an end.
NoTargetMissed ==
    /\ \A n \in DOMAIN seen :
          /\ seen[n].at \in Inspected /\ seen[n].at <= i
          /\ pc \in {"targets", "list"} => seen[n].at < i
    /\ \A j \in Inspected : Past(j) => \E n \in DOMAIN seen : seen[n].at = j

\* Without multiMatch the operator is called once for every target that
\* remains, in order, with the value all transformations made, whatever
\* earlier rules left in the cache (the cache of msre_rule_process_normal),
\* unless the cache takes the target for another or lacks a silent change.
OperatorSeesTransformed ==
    rule # Null /\ ~rule.multi =>
        LET list == Normalisation(rule.tfns)
        IN  /\ NoTargetMissed
            /\ \A m, n \in DOMAIN seen : m < n => seen[m].at < seen[n].at
            /\ \A n \in DOMAIN seen :
                  \/ Mistaken(tartab[seen[n].at]) \/ Silenced(seen[n].at)
                  \/ seen[n].value = Steps(Original(seen[n].at), list)[Len(list)]

\* With multiMatch and at least one transformation the operator sees every
\* value on the way that was not reached by a silent change, and no value
\* that is not on the way.
MultiMatchSeesEveryStep ==
    rule # Null /\ rule.multi /\ Normalisation(rule.tfns) # <<>> =>
        LET list == Normalisation(rule.tfns)
            steps(j) == {Steps(Original(j), list)[n] : n \in 0..Len(list)}
            silent(j) == {Steps(Original(j), list)[n] : n \in Silent(Original(j), list)}
            shown(j) == {seen[n].value : n \in {m \in DOMAIN seen : seen[m].at = j}}
        IN  /\ NoTargetMissed
            /\ \A n \in DOMAIN seen : seen[n].value \in steps(seen[n].at)
            /\ \A j \in Inspected : Past(j) => steps(j) \subseteq shown(j) \cup silent(j)

\* The cache is keyed by the target (the comment on the key of the table).
OperatorSeesOwnValue ==
    rule # Null /\ ~rule.multi =>
        LET list == Normalisation(rule.tfns)
        IN  \A n \in DOMAIN seen :
               seen[n].value = Steps(Original(seen[n].at), list)[Len(list)]
=============================================================================
