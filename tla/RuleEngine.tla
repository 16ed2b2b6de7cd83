----------------------------- MODULE RuleEngine -----------------------------
(***************************************************************************)
(* The rules of one phase: how SecRule, SecAction, SecMarker and           *)
(* SecRuleRemoveById build the array (add_rule and add_marker of           *)
(* apache2_config.c, msre_ruleset_rule_add and                             *)
(* msre_ruleset_phase_rule_remove_with_exception of re.c), and how         *)
(* msre_ruleset_process_phase walks it, with chains, skip, skipAfter,      *)
(* rules removed by ctl and engines switched off by ctl.                   *)
(*                                                                         *)
(* What a rule finds is a choice made when the loop reaches it: "match",   *)
(* "deny" (a match that intercepts), "off" (a match whose                  *)
(* ctl:ruleEngine=Off disables the engine), "no", "error" (an error that   *)
(* does not intercept), "fatal" (an error under                            *)
(* SecInterceptOnError) and "removed" (taken out by a ctl action).          *)
(* A rule is reached at most once, so the choice is as good as one made    *)
(* beforehand.  The id of a rule is the number of its directive.           *)
(***************************************************************************)
EXTENDS Integers, Sequences, SequencesExt, FiniteSetsExt

CONSTANTS MaxDirectives,  \* bound: SecRule and SecMarker directives
          MaxSkip,        \* bound: the argument of skip
          Marker,         \* the name SecMarker gives
          SplitsChains,   \* targets of skipAfter that may lie inside a chain:
                          \* "id" (of its starter), "marker"
          None            \* NULL

ASSUME RuleBounds == /\ MaxDirectives \in Nat /\ MaxSkip \in Nat
                     /\ SplitsChains \subseteq {"id", "marker"}
                     /\ Marker \notin 0..MaxDirectives
                     /\ None \notin 0..MaxDirectives \cup {Marker}

VARIABLES
    directives,  \* the directives as written, and the chain each belongs to
    gone,        \* numbers of the rules SecRuleRemoveById took out (history)
    rules,       \* the array of the phase
    awaited,     \* tmp_rule_placeholders: ids some skipAfter waits for
    stage,       \* "config", "phase", "end"
    i,           \* the loop of process_phase, from here to skipped
    mode,
    skip,
    skipAfter,
    sawStarter,
    skipped,
    engine,      \* txcfg->is_enabled # MODSEC_DISABLED
    trace,       \* the rules reached and what they found (history)
    rc           \* what process_phase returned

config == <<directives, gone, rules, awaited>>
loop   == <<i, mode, skip, skipAfter, sawStarter, skipped>>
vars   == <<config, stage, loop, engine, trace, rc>>

Numbers == 1..MaxDirectives
Outcomes == {"match", "deny", "off", "no", "error", "fatal", "removed"}
Matches(o) == o \in {"match", "off", "deny"}

Rule(no, ch, sk, after, head) ==
    [no |-> no, id |-> IF head = no THEN no ELSE None, chained |-> ch,
     skip |-> sk, skipAfter |-> after, head |-> head, placeholder |-> FALSE]
----------------------------------------------------------------------------
(* Configuration *)

Init ==
    /\ directives = <<>> /\ gone = {} /\ rules = <<>> /\ awaited = {}
    /\ stage = "config"
    /\ i = 1 /\ mode = "NEXT_RULE" /\ skip = 0 /\ skipAfter = None
    /\ sawStarter = FALSE /\ skipped = FALSE
    /\ engine = TRUE /\ trace = <<>> /\ rc = None

\* tmp_chain_starter: the head of the chain the next rule continues.
TmpChainStarter ==
    LET written == {d \in 1..Len(directives) : ~directives[d].placeholder}
        last    == directives[Max(written)]
    IN  IF written # {} /\ last.chained THEN last.head ELSE 0

\* The rule goes into the array and, if an earlier (or its own) skipAfter
\* waits for its id, a placeholder with the same fields right behind it.
Placed(r) ==
    IF r.id # None /\ r.id \in awaited \cup {r.skipAfter}
    THEN <<r, [r EXCEPT !.placeholder = TRUE]>> ELSE <<r>>

\* Only a chain starter may have an id, skip or skipAfter (and a disruptive
\* action: see the outcome "deny").
AddRule(ch, sk, after) ==
    /\ stage = "config" /\ Len(directives) < MaxDirectives
    /\ LET no    == Len(directives) + 1
           start == TmpChainStarter
           r     == Rule(no, ch, sk, after, IF start = 0 THEN no ELSE start)
       IN  /\ start # 0 => sk = 0 /\ after = None
           /\ "id" \notin SplitsChains =>
                 \* no skipAfter names a chain or comes from below its target
                 /\ ~(ch /\ start = 0 /\ no \in awaited)
                 /\ after \in Numbers => after > no
           /\ directives' = Append(directives, r)
           /\ rules' = rules \o Placed(r)
           /\ awaited' = (awaited \cup ({after} \ {None})) \ {r.id}
    /\ UNCHANGED <<gone, stage, loop, engine, trace, rc>>

\* SecMarker: a placeholder in every phase, chain or no chain.
AddMarker ==
    /\ stage = "config" /\ Len(directives) < MaxDirectives
    /\ "marker" \notin SplitsChains => TmpChainStarter = 0
    /\ LET m == [Rule(Len(directives) + 1, FALSE, 0, None, 0)
                    EXCEPT !.id = Marker, !.placeholder = TRUE]
       IN  /\ directives' = Append(directives, m)
           /\ rules' = Append(rules, m)
    /\ awaited' = awaited \ {Marker}
    /\ UNCHANGED <<gone, stage, loop, engine, trace, rc>>

\* msre_ruleset_phase_rule_remove_with_exception: the rule with this id goes,
\* and the rest of its chain with it.  Ids are unique: there is one at most.
RemoveWithException(rs, id) ==
    LET hits  == {k \in 1..Len(rs) : ~rs[k].placeholder /\ rs[k].id = id}
        first == Min(hits)
        last  == Min({k \in first..Len(rs) : ~rs[k].chained \/ k = Len(rs)})
    IN  IF hits = {} THEN rs
        ELSE SubSeq(rs, 1, first - 1) \o SubSeq(rs, last + 1, Len(rs))

\* SecRuleRemoveById, in the context the rules are in.
RemoveRule(no) ==
    /\ stage = "config" /\ gone = {} /\ TmpChainStarter = 0
    /\ no \in 1..Len(directives) /\ ~directives[no].placeholder
    /\ rules' = RemoveWithException(rules, no)
    /\ gone' = {d \in 1..Len(directives) : directives[d].head = no}
    /\ UNCHANGED <<directives, awaited, stage, loop, engine, trace, rc>>

StartPhase ==
    /\ stage = "config" /\ directives # <<>>
    /\ stage' = "phase"
    /\ UNCHANGED <<config, loop, engine, trace, rc>>
----------------------------------------------------------------------------
(* msre_ruleset_process_phase *)

AtRule == stage = "phase" /\ i <= Len(rules)
rule == rules[i]

Return(value) == stage' = "end" /\ rc' = value
Advance == i' = i + 1 /\ UNCHANGED <<stage, rc>>

\* Is this the placeholder skipAfter names?
Reached == rule.placeholder /\ rule.id = skipAfter

\* The starter of a chain matched and wants to skip: the rest of the chain
\* decides, so the next rule runs before the skip goes on.
InTheChain == sawStarter /\ rules[i - 1].chained

SkipIntoChain ==
    /\ AtRule /\ mode = "SKIP_RULES" /\ ~Reached /\ InTheChain
    /\ mode' = "NEXT_RULE" /\ skipped' = TRUE
    /\ UNCHANGED <<config, stage, i, skip, skipAfter, sawStarter, engine, trace, rc>>

SkipOver ==
    /\ AtRule /\ mode = "SKIP_RULES" /\ ~Reached /\ ~InTheChain
    /\ skipped' = FALSE /\ sawStarter' = FALSE /\ Advance
    /\ UNCHANGED <<config, mode, skip, skipAfter, engine, trace>>

SkipEnds ==
    /\ AtRule /\ mode = "SKIP_RULES" /\ Reached
    /\ mode' = "NEXT_RULE" /\ skipAfter' = None
    /\ skipped' = FALSE /\ sawStarter' = FALSE /\ Advance
    /\ UNCHANGED <<config, skip, engine, trace>>

PassPlaceholder ==
    /\ AtRule /\ mode # "SKIP_RULES" /\ rule.placeholder
    /\ Advance
    /\ UNCHANGED <<config, mode, skip, skipAfter, sawStarter, skipped, engine, trace>>

PassChain ==
    /\ AtRule /\ mode = "NEXT_CHAIN" /\ ~rule.placeholder
    /\ mode' = IF rule.chained THEN mode ELSE "NEXT_RULE"
    /\ Advance
    /\ UNCHANGED <<config, skip, skipAfter, sawStarter, skipped, engine, trace>>

SkipCounted ==
    /\ AtRule /\ mode = "NEXT_RULE" /\ ~rule.placeholder /\ skip > 0
    /\ skip' = skip - 1
    /\ mode' = IF rule.chained THEN "NEXT_CHAIN" ELSE mode
    /\ Advance
    /\ UNCHANGED <<config, skipAfter, sawStarter, skipped, engine, trace>>

Processing == AtRule /\ mode = "NEXT_RULE" /\ ~rule.placeholder /\ skip = 0

EngineOff ==
    /\ Processing /\ ~engine
    /\ sawStarter' = FALSE /\ skipped' = FALSE /\ skipAfter' = None
    /\ Advance
    /\ UNCHANGED <<config, mode, skip, engine, trace>>

\* The ways to fail leave the same trace.
Record(o) ==
    trace' = Append(trace, [no |-> rule.no,
                            outcome |-> IF o \in {"error", "removed"} THEN "no" ELSE o])

\* Mutant: a rule of the chain that fails keeps the chain's skip pending.
RuleFailsKeepsSkip(o) ==
    /\ Processing /\ engine /\ o \in {"no", "error", "removed"} /\ Record(o)
    /\ mode' = IF rule.chained THEN "NEXT_CHAIN" ELSE
               IF skipped THEN "SKIP_RULES" ELSE "NEXT_RULE"
    /\ Advance
    /\ UNCHANGED <<config, skip, skipAfter, sawStarter, skipped, engine>>

\* The rule does not match, fails, or was removed: leave its chain.
RuleFails(o) ==
    /\ Processing /\ engine /\ o \in {"no", "error", "removed"} /\ Record(o)
    /\ mode' = IF rule.chained THEN "NEXT_CHAIN" ELSE "NEXT_RULE"
    /\ skipped' = FALSE /\ sawStarter' = FALSE
    /\ Advance
    /\ UNCHANGED <<config, skip, skipAfter, engine>>

\* An error that intercepts, or a match that does: a rule that is followed
\* by another in its chain performs no disruptive action.
RuleEndsPhase(o) ==
    /\ Processing /\ engine /\ Record(o)
    /\ \/ o = "fatal" /\ Return(-1)
       \/ o = "deny" /\ ~rule.chained /\ Return(1)
    /\ UNCHANGED <<config, loop, engine>>

\* A match: skipAfter comes first, then the pending skipAfter of the chain,
\* then skip, which the chain starter sets and the last rule applies.
RuleMatches(o) ==
    /\ Processing /\ engine /\ o \in {"match", "off"} /\ Record(o)
    /\ engine' = (o # "off")
    /\ IF rule.skipAfter # None
       THEN /\ skipAfter' = rule.skipAfter /\ mode' = "SKIP_RULES"
            /\ sawStarter' = TRUE /\ UNCHANGED <<skip, skipped>>
       ELSE IF skipped
       THEN mode' = "SKIP_RULES" /\ UNCHANGED <<skip, skipAfter, sawStarter, skipped>>
       ELSE /\ skip' = IF rule.chained THEN skip ELSE directives[rule.head].skip
            /\ UNCHANGED <<mode, skipAfter, sawStarter, skipped>>
    /\ Advance
    /\ UNCHANGED config

EndOfRules ==
    /\ stage = "phase" /\ i > Len(rules) /\ Return(0)
    /\ UNCHANGED <<config, loop, engine, trace>>

Configure ==
    \/ \E ch \in BOOLEAN, sk \in 0..MaxSkip : AddRule(ch, sk, None)
    \/ \E ch \in BOOLEAN, id \in Numbers \cup {Marker} : AddRule(ch, 0, id)
    \/ \E ch \in BOOLEAN : AddRule(ch, MaxSkip, Marker)
    \/ AddMarker
    \/ \E no \in Numbers : RemoveRule(no)
    \/ StartPhase

ProcessPhase ==
    \/ SkipIntoChain \/ SkipOver \/ SkipEnds \/ PassPlaceholder \/ PassChain
    \/ SkipCounted \/ EngineOff \/ EndOfRules
    \/ \E o \in Outcomes : RuleFails(o) \/ RuleEndsPhase(o) \/ RuleMatches(o)

Next == Configure \/ ProcessPhase

Spec == Init /\ [][Next]_vars
----------------------------------------------------------------------------
(* What the directives say *)

End == MaxDirectives + 1

\* Rules and chains that can be reached, by the number of their first rule.
Units == {d \in 1..Len(directives) :
            ~directives[d].placeholder /\ directives[d].head = d /\ d \notin gone}

ChainEnd(d) == Max({d} \cup {e \in 1..Len(directives) :
                    ~directives[d].placeholder /\ directives[e].head = directives[d].head})

\* The unit that follows d when k units in between are left out.
UnitAfter(d, k) ==
    LET later == {u \in Units : u > d}
    IN  Min({End} \cup {u \in later : Cardinality({w \in later : w < u}) = k})

\* Execution continues after the rule, chain or marker with this id.
AfterTarget(d, id) ==
    LET targets == {e \in (d + 1)..Len(directives) : directives[e].id = id}
    IN  IF targets = {} THEN End ELSE UnitAfter(ChainEnd(Min(targets)), 0)

\* The rule to come after what the trace shows.
Expected ==
    IF trace = <<>> THEN UnitAfter(0, 0)
    ELSE LET d    == Last(trace).no
             o    == Last(trace).outcome
             head == directives[directives[d].head]
         IN  IF o \in {"deny", "off", "fatal"} THEN End
             ELSE IF ~Matches(o) THEN UnitAfter(ChainEnd(d), 0)
             ELSE IF directives[d].chained
                  THEN IF d < ChainEnd(d) THEN d + 1 ELSE End
             ELSE IF head.skipAfter # None THEN AfterTarget(d, head.skipAfter)
             ELSE UnitAfter(d, head.skip)

\* The loop reaches exactly the rules the directives call for, in order:
\* chains stop at their first failure, skip and skipAfter of a chain apply
\* when all of it matched, removed rules leave nothing behind
\* (msre_ruleset_process_phase).
RunsAsWritten ==
    [][/\ trace' # trace => Last(trace').no = Expected
       /\ rc = None /\ rc' = 0 => Expected = End]_vars

\* A rule inside a chain runs only right after the rule before it in the
\* chain matched (the comments on NEXT_CHAIN, and CHANGES: execution
\* "continues after the specified rule").
ChainsFromTheStart ==
    \A n \in 1..Len(trace) :
        LET d == trace[n].no
        IN  directives[d].head # d =>
              /\ n > 1 /\ Matches(trace[n - 1].outcome)
              /\ directives[trace[n - 1].no].head = directives[d].head

TypeOK ==
    /\ stage \in {"config", "phase", "end"}
    /\ mode \in {"NEXT_RULE", "NEXT_CHAIN", "SKIP_RULES"}
    /\ i \in 1..(Len(rules) + 1) /\ skip \in 0..MaxSkip
    /\ {sawStarter, skipped, engine} \subseteq BOOLEAN
    /\ awaited \subseteq Numbers \cup {Marker}
    /\ rc \in {None, -1, 0, 1}
=============================================================================
