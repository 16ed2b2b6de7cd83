------------------------------ MODULE Actions ------------------------------
(***************************************************************************)
(* The actions of rules: re_actions.c, and from re.c how lists of targets  *)
(* and of actions are read, merged with the defaults and updated later.    *)
(*                                                                         *)
(* The parameter of an action is Null or a record: its text as a word, the *)
(* number atoi reads, and the sign before it ("+", "-" or "").  A list is  *)
(* read from bytes by msre_parse_generic; the rest of the module works on  *)
(* what it reads.  NotSet is NOT_SET and NOT_SET_P.                        *)
(***************************************************************************)
EXTENDS Variables

CONSTANTS NotSet,         \* the mark of a field that no action has set
          VarName(_),     \* the variable that is spelled so
          InRange(_, _),  \* rule_id_in_range
          HardLimit       \* REQUEST_BODY_HARD_LIMIT, RESPONSE_BODY_HARD_LIMIT

(***************************************************************************)
(* Reading a list: names, each with a parameter after a colon or none,     *)
(* separated by commas or bars.  The parameter may be quoted.  Null is a   *)
(* list that is refused.                                                   *)
(***************************************************************************)
Bar == 124
Colon == 58
IsSeparator(c) == c \in {Comma, Bar}
Item(name, value) == [name |-> name, value |-> value]

\* Mutant: a backslash is dropped, but what it protects is not skipped.
RECURSIVE QuotedNoSkip(_, _, _)
QuotedNoSkip(s, i, value) ==
    CASE At(s, i) = 0 -> Null
      [] At(s, i) = Backslash ->
             IF At(s, i + 1) \in {Apostrophe, Backslash} THEN QuotedNoSkip(s, i + 1, value) ELSE Null
      [] At(s, i) = Apostrophe -> [value |-> value, next |-> i + 1]
      [] OTHER -> QuotedNoSkip(s, i + 1, Append(value, s[i]))

RECURSIVE Quoted(_, _, _)
Quoted(s, i, value) ==
    CASE At(s, i) = 0 -> Null
      [] At(s, i) = Backslash ->
             IF At(s, i + 1) \in {Apostrophe, Backslash}
             THEN Quoted(s, i + 2, Append(value, s[i + 1])) ELSE Null
      [] At(s, i) = Apostrophe -> [value |-> value, next |-> i + 1]
      [] OTHER -> Quoted(s, i + 1, Append(value, s[i]))

Unquoted(s, i) ==
    LET n == Run(LAMBDA c : ~ IsSeparator(c) /\ ~ IsSpace(c), s, i, Len(s))
    IN  [value |-> SubSeq(s, i, i + n - 1), next |-> i + n]

RECURSIVE ParseFrom(_, _, _)
ParseFrom(s, i, items) ==
    LET b     == i + Run(IsSpace, s, i, Len(s))
        e     == b + Run(LAMBDA c : ~ IsSeparator(c) /\ ~ IsSpace(c) /\ c # Colon, s, b, Len(s))
        name  == SubSeq(s, b, e - 1)
        after == e + Run(IsSpace, s, e, Len(s))
        v     == IF At(s, e + 1) = Apostrophe THEN Quoted(s, e + 2, <<>>) ELSE Unquoted(s, e + 1)
    IN  CASE At(s, b) = 0 -> items
          [] At(s, e) # Colon /\ At(s, after) = 0 -> Append(items, Item(name, Null))
          [] At(s, e) # Colon /\ IsSeparator(At(s, after)) ->
                 ParseFrom(s, after + 1, Append(items, Item(name, Null)))
          [] At(s, e) # Colon -> Null
          [] At(s, e + 1) = 0 -> Append(items, Item(name, Null))
          [] IsSeparator(At(s, e + 1)) -> ParseFrom(s, e + 2, Append(items, Item(name, Null)))
          [] v = Null -> Null
          [] OTHER -> ParseFrom(s, v.next + Run(LAMBDA c : IsSeparator(c) \/ IsSpace(c),
                                                s, v.next, Len(s)),
                                Append(items, Item(name, v.value)))

msre_parse_generic(text) == ParseFrom(CString(text), 1, <<>>)

(***************************************************************************)
(* Macros: %{NAME} and %{NAME.PARAM}.  What stands for a variable that     *)
(* cannot be created or has no value is empty; a percent sign that begins  *)
(* no macro stays.                                                         *)
(***************************************************************************)
HTTP_ == <<72, 84, 84, 80, 95>>
VarText(text, param) ==
    LET sign == At(text, 1)
        rest == IF sign \in {Bang, Amp} THEN Tail(text) ELSE text
        http == Len(rest) > 5 /\ StartsWith(rest, 1, HTTP_)
    IN  [modifier |-> IF sign = Bang THEN "!" ELSE IF sign = Amp THEN "&" ELSE "",
         http     |-> http,
         name     |-> IF http THEN SubSeq(rest, 6, Len(rest)) ELSE VarName(rest),
         param    |-> param]

Transformed(target, tfns) ==
    LET With(v) == [target EXCEPT !.value = v, !.len = Len(v)]
    IN  IF tfns = <<>> THEN target
        ELSE With(FoldLeft(LAMBDA s, t : Apply(t, s).out, CString(target.value), tfns))

\* The first target a variable has, Null if it has none.
FirstTarget(targets) == IF targets = Null \/ targets = <<>> THEN Null ELSE targets[1]

generate_single_var(msr, var, tfns, rule) ==
    LET With(target) == IF target = Null THEN Null ELSE Transformed(target, tfns)
    IN  With(FirstTarget(Generate(msr, var, rule)))

generate_multi_var(msr, var, tfns, rule) ==
    LET Each(targets) == [i \in DOMAIN targets |-> Transformed(targets[i], tfns)]
    IN  Each(Generate(msr, var, rule))

\* A macro asks for no transformations.
MacroValue(msr, name, rule) ==
    LET dot   == Run(LAMBDA c : c # Dot, name, 1, Len(name))
        param == IF dot = Len(name) THEN Null ELSE SubSeq(name, dot + 2, Len(name))
        TextOf(value) == IF value = Null THEN <<>> ELSE value.value
        Of(var) == IF var = Null THEN <<>> ELSE TextOf(FirstTarget(Generate(msr, var, rule)))
    IN  Of(msre_create_var_ex(VarText(SubSeq(name, 1, dot), param)))

RECURSIVE ExpandFrom(_, _, _, _)
ExpandFrom(msr, s, i, rule) ==
    LET p == i + Run(LAMBDA c : c # Percent, s, i, Len(s))
        t == p + 2 + Run(LAMBDA c : c # 125, s, p + 2, Len(s))
    IN  IF p > Len(s) THEN SubSeq(s, i, Len(s))
        ELSE IF At(s, p + 1) = 123 /\ p + 2 <= Len(s) /\ t <= Len(s)
        THEN SubSeq(s, i, p - 1) \o MacroValue(msr, SubSeq(s, p + 2, t - 1), rule)
                 \o ExpandFrom(msr, s, t + 1, rule)
        ELSE SubSeq(s, i, p) \o ExpandFrom(msr, s, p + 1, rule)

\* Only a value with a percent sign is put together again.
expand_macros(msr, value, rule) ==
    LET s == CString(value)
    IN  IF Percent \notin {s[i] : i \in DOMAIN s} THEN value ELSE ExpandFrom(msr, s, 1, rule)

(***************************************************************************)
(* The table of actions.  Of a group only one action may be in a list; an  *)
(* action of cardinality ONE is in it once.                                *)
(***************************************************************************)
Register(names, type, argc_min, argc_max, plusminus, cardinality, group) ==
    {[name |-> n, type |-> type, argc_min |-> argc_min, argc_max |-> argc_max,
      allow_param_plusminus |-> plusminus, cardinality |-> cardinality, group |-> group] : n \in names}

Actions1 ==
           Register({"id", "marker", "rev", "msg", "logdata", "accuracy", "maturity", "ver",
                     "severity"}, "METADATA", 1, 1, FALSE, "ONE", "NONE")
    \union Register({"chain"}, "FLOW", 0, 0, FALSE, "ONE", "NONE")
    \union Register({"log"}, "NON_DISRUPTIVE", 0, 0, FALSE, "ONE", "LOG")

Actions2 ==
           Register({"nolog"}, "NON_DISRUPTIVE", 0, 0, FALSE, "ONE", "LOG")
    \union Register({"auditlog", "noauditlog"}, "NON_DISRUPTIVE", 0, 0, FALSE, "ONE",
                     "AUDITLOG")
    \union Register({"block", "deny", "drop", "pass"}, "DISRUPTIVE", 0, 0, FALSE, "ONE",
                     "DISRUPTIVE")
    \union Register({"status", "pause"}, "DISRUPTIVE", 1, 1, FALSE, "ONE", "NONE")
    \union Register({"redirect", "proxy"}, "DISRUPTIVE", 1, 1, FALSE, "ONE", "DISRUPTIVE")

Actions3 ==
           Register({"skip", "skipAfter"}, "DISRUPTIVE", 1, 1, FALSE, "ONE", "DISRUPTIVE")
    \union Register({"allow"}, "DISRUPTIVE", 0, 1, FALSE, "ONE", "DISRUPTIVE")
    \union Register({"phase"}, "DISRUPTIVE", 1, 1, FALSE, "ONE", "NONE")
    \union Register({"t"}, "NON_DISRUPTIVE", 1, 1, TRUE, "MANY", "NONE")
    \union Register({"ctl", "xmlns", "sanitiseArg"}, "NON_DISRUPTIVE", 1, 1, FALSE, "MANY",
                     "NONE")
    \union Register({"capture"}, "NON_DISRUPTIVE", 0, 0, FALSE, "ONE", "NONE")
    \union Register({"sanitiseMatchedBytes", "sanitizeMatchedBytes"}, "NON_DISRUPTIVE", 0,
                     1, FALSE, "MANY", "NONE")

Actions4 ==
           Register({"sanitizeArg", "sanitiseRequestHeader", "sanitizeRequestHeader",
                     "sanitiseResponseHeader", "sanitizeResponseHeader", "setenv", "setvar",
                     "expirevar", "deprecatevar"}, "NON_DISRUPTIVE", 1, 1, FALSE, "MANY",
                     "NONE")
    \union Register({"sanitiseMatched", "sanitizeMatched"}, "NON_DISRUPTIVE", 0, 0, FALSE,
                     "MANY", "NONE")

Actions5 ==
           Register({"initcol", "exec"}, "NON_DISRUPTIVE", 1, 1, FALSE, "MANY", "NONE")
    \union Register({"setsid", "setrsc", "setuid", "prepend", "append"}, "NON_DISRUPTIVE",
                     1, 1, FALSE, "ONE", "NONE")
    \union Register({"multiMatch"}, "NON_DISRUPTIVE", 0, 0, FALSE, "ONE", "NONE")
    \union Register({"tag"}, "METADATA", 1, 1, FALSE, "MANY", "NONE")

ActionTable == Actions1 \union Actions2 \union Actions3 \union Actions4 \union Actions5

msre_resolve_action(name) ==
    LET found == {a \in ActionTable : a.name = name}
    IN  IF found = {} THEN Null ELSE CHOOSE a \in found : TRUE

(***************************************************************************)
(* ctl: a setting and its value, [name, value].  FALSE refuses the rule.   *)
(***************************************************************************)
OnOff == {"on", "off"}
CtlWords == [ruleEngine |-> OnOff \union {"detectiononly"}, forceRequestBodyVariable |-> OnOff,
             auditEngine |-> OnOff \union {"relevantonly"}, HashEnforcement |-> OnOff, HashEngine |-> OnOff]
parse_boolean(word) ==
    IF word \in {"on", "true", "1"} THEN 1 ELSE IF word \in {"off", "false", "0"} THEN 0 ELSE -1

ctl_validate(p) ==
    /\ p.value # Null
    /\ CASE p.name \in DOMAIN CtlWords -> p.value.word \in CtlWords[p.name]
         [] p.name \in {"ruleRemoveById", "requestBodyProcessor"} -> TRUE
         [] p.name \in {"ruleRemoveByTag", "ruleRemoveByMsg", "ruleRemoveTargetByTag",
                        "ruleRemoveTargetByMsg"} -> Compiles(p.value.word)
         [] p.name \in {"requestBodyAccess", "responseBodyAccess"} -> parse_boolean(p.value.word) # -1
         [] p.name = "auditLogParts" -> p.value.word # "invalid"
         [] p.name = "debugLogLevel" -> p.value.num \in 0..9
         [] p.name \in {"requestBodyLimit", "responseBodyLimit"} -> p.value.num \in 1..HardLimit
         [] p.name = "ruleRemoveTargetById" -> TRUE
         [] OTHER -> FALSE

\* A setting goes to the configuration of the transaction and to the one
\* that outlives a change of directory.
SetBoth(msr, fields, value) ==
    [msr EXCEPT !.txcfg   = [f \in DOMAIN @ |-> IF f \in fields THEN value ELSE @[f]],
                !.usercfg = [f \in DOMAIN @ |-> IF f \in fields THEN value ELSE @[f]]]

AuditParts(parts, value) ==
    CASE value.sign = "+" -> parts \o value.parts
      [] value.sign = "-" -> SelectSeq(parts, LAMBDA c : c \notin {value.parts[i] : i \in DOMAIN value.parts})
      [] OTHER -> value.parts

TargetException(type, p) == [type |-> type, param |-> p.value.word, target |-> p.value.target]

\* The transaction afterwards; what was validated cannot fail here.
ctl_execute(msr, p) ==
    LET word == p.value.word
    IN  CASE p.name = "ruleEngine" ->
                 IF word = "detectiononly"
                 THEN SetBoth(SetBoth(msr, {"is_enabled"}, word),
                              {"if_limit_action", "of_limit_action"}, "partial")
                 ELSE SetBoth(msr, {"is_enabled"}, word)
          [] p.name = "HashEnforcement" -> SetBoth(msr, {"hash_enforcement"}, word)
          [] p.name = "HashEngine" -> SetBoth(msr, {"hash_is_enabled"}, word)
          [] p.name = "ruleRemoveById" -> [msr EXCEPT !.removed_rules = Append(@, word)]
          [] p.name = "ruleRemoveByTag" -> [msr EXCEPT !.removed_rules_tag = Append(@, word)]
          [] p.name = "ruleRemoveByMsg" -> [msr EXCEPT !.removed_rules_msg = Append(@, word)]
          [] p.name = "requestBodyAccess" -> SetBoth(msr, {"reqbody_access"}, parse_boolean(word))
          [] p.name = "forceRequestBodyVariable" -> SetBoth(msr, {"reqbody_buffering"}, word)
          [] p.name = "requestBodyProcessor" -> [msr EXCEPT !.field["msc_reqbody_processor"] = word]
          [] p.name = "responseBodyAccess" -> SetBoth(msr, {"resbody_access"}, parse_boolean(word))
          [] p.name = "auditEngine" -> SetBoth(msr, {"auditlog_flag"}, word)
          [] p.name = "auditLogParts" ->
                 SetBoth(msr, {"auditlog_parts"}, AuditParts(msr.txcfg.auditlog_parts, p.value))
          [] p.name = "debugLogLevel" -> msr
          [] p.name = "requestBodyLimit" -> SetBoth(msr, {"reqbody_limit"}, p.value.num)
          [] p.name = "responseBodyLimit" -> SetBoth(msr, {"of_limit"}, p.value.num)
          [] p.name = "ruleRemoveTargetById" ->
                 [msr EXCEPT !.removed_targets = Append(@, TargetException("REMOVE_ID", p))]
          [] p.name = "ruleRemoveTargetByTag" ->
                 [msr EXCEPT !.removed_targets = Append(@, TargetException("REMOVE_TAG", p))]
          [] p.name = "ruleRemoveTargetByMsg" ->
                 [msr EXCEPT !.removed_targets = Append(@, TargetException("REMOVE_MSG", p))]

(***************************************************************************)
(* Actions that run when the rule matches; the ones that change a          *)
(* collection are in module Collections.                                   *)
(***************************************************************************)
redirect_execute(msr, actionset, param, rule) ==
    [actionset EXCEPT !.intercept_uri = expand_macros(msr, param, rule)]

\* [nocanon] before the address of a proxy is a note for the server.
proxy_execute(msr, actionset, param, nocanon, rule) ==
    [msr |-> IF nocanon THEN [msr EXCEPT !.notes = @ @@ (<<110>> :> <<Zero + 1>>)] ELSE msr,
     actionset |-> [actionset EXCEPT !.intercept_uri = expand_macros(msr, param, rule)]]

ArgsNamed(msr, name) == SelectSeq(msr.arguments, LAMBDA a : Folded(a.name) = Folded(name))

sanitizeArg_execute(msr, param) ==
    [msr EXCEPT !.arguments_to_sanitize = @ \o ArgsNamed(msr, param)]
sanitizeRequestHeader_execute(msr, param) ==
    [msr EXCEPT !.request_headers_to_sanitize = @ \union {param}]
sanitizeResponseHeader_execute(msr, param) ==
    [msr EXCEPT !.response_headers_to_sanitize = @ \union {param}]

\* matched: the collection and the member of the variable that matched.
sanitizeMatched_execute(msr, matched) ==
    CASE matched.member = <<>> -> msr
      [] matched.collection \in {"ARGS", "ARGS_NAMES"} -> sanitizeArg_execute(msr, matched.member)
      [] matched.collection \in {"REQUEST_HEADERS", "REQUEST_HEADERS_NAMES"} ->
             sanitizeRequestHeader_execute(msr, matched.member)
      [] matched.collection \in {"RESPONSE_HEADERS", "RESPONSE_HEADERS_NAMES"} ->
             sanitizeResponseHeader_execute(msr, matched.member)
      [] OTHER -> msr

\* name=value, name (the value is 1) or !name.
setenv_execute(msr, name, value, rule) ==
    LET others(n) == [m \in {k \in DOMAIN msr.subprocess_env : Folded(k) # Folded(n)} |->
                         msr.subprocess_env[m]]
        Set(pair) ==
            IF At(pair[1], 1) = Bang THEN [msr EXCEPT !.subprocess_env = others(Tail(pair[1]))]
            ELSE [msr EXCEPT !.subprocess_env = (pair[1] :> pair[2]) @@ others(pair[1])]
        texts == <<name, IF value = Null THEN <<Zero + 1>> ELSE value>>
    IN  Set([i \in 1..2 |-> expand_macros(msr, texts[i], rule)])

\* outcome: what the script returned.
exec_execute(outcome) == IF outcome = 1 THEN 1 ELSE 0
prepend_execute(msr, param, rule) ==
    [msr EXCEPT !.content_prepend = expand_macros(msr, param, rule)]
append_execute(msr, param, rule) ==
    [msr EXCEPT !.content_append = expand_macros(msr, param, rule)]

(***************************************************************************)
(* Sets of actions.                                                        *)
(***************************************************************************)
PointerFields == {"id", "rev", "msg", "version", "logdata", "skip_after", "parent_intercept_action_rec",
                  "intercept_action_rec", "intercept_uri", "intercept_pause"}
NumberFields  == {"phase", "severity", "accuracy", "maturity", "arg_min", "arg_max", "is_chained",
                  "skip_count", "parent_intercept_action", "intercept_action", "intercept_status",
                  "auditlog", "log"}

EmptyActionset ==
    [f \in PointerFields \union NumberFields \union {"actions", "block"} |->
        CASE f = "actions" -> <<>> [] f = "block" -> 0 [] OTHER -> NotSet]

Severities == [emergency |-> 0, alert |-> 1, critical |-> 2, error |-> 3,
               warning |-> 4, notice |-> 5, info |-> 6, debug |-> 7]
severity_value(p) == IF p.word \in DOMAIN Severities THEN Severities[p.word] ELSE p.num

PhaseNames == [request |-> 2, response |-> 4, logging |-> 5]
phase_value(p) == IF p.word \in DOMAIN PhaseNames THEN PhaseNames[p.word] ELSE p.num

allow_validate(p) == p.word \in {"phase", "request"}
allow_value(p) ==
    IF p = Null THEN "ALLOW" ELSE IF p.word = "phase" THEN "ALLOW_PHASE" ELSE "ALLOW_REQUEST"

id_validate(p) == p.num > 0
xmlns_validate(p) == p.value # Null
t_validate(p) == p.word \in Names \union {"none"}

\* NULL parameters are not validated.
Validate(name, p) ==
    CASE name = "id" -> id_validate(p) [] name = "allow" -> allow_validate(p)
      [] name = "t" -> t_validate(p) [] name = "ctl" -> ctl_validate(p)
      [] name = "xmlns" -> xmlns_validate(p) [] name = "exec" -> p.word # "unreadable"
      [] OTHER -> TRUE

\* Null refuses the action.
msre_create_action(name, param) ==
    LET meta == msre_resolve_action(name)
    IN  IF \/ meta = Null
           \/ param = Null /\ meta.argc_min > 0
           \/ param # Null /\ (\/ meta.argc_max = 0
                               \/ param.sign # "" /\ ~ meta.allow_param_plusminus
                               \/ ~ Validate(name, param))
        THEN Null ELSE [name |-> name, param |-> param]

Intercept(set, action, rec) == [set EXCEPT !.intercept_action = action, !.intercept_action_rec = rec]

\* metadata->init: what an action does when it is read.
InitMetadata(set, a) ==
    CASE a.name \in {"id", "marker"} -> [set EXCEPT !.id = a.param]
      [] a.name = "rev"      -> [set EXCEPT !.rev = a.param]
      [] a.name = "msg"      -> [set EXCEPT !.msg = a.param]
      [] a.name = "logdata"  -> [set EXCEPT !.logdata = a.param]
      [] a.name = "ver"      -> [set EXCEPT !.version = a.param]
      [] a.name = "accuracy" -> [set EXCEPT !.accuracy = a.param.num]
      [] a.name = "maturity" -> [set EXCEPT !.maturity = a.param.num]
      [] a.name = "severity" -> [set EXCEPT !.severity = severity_value(a.param)]
      [] a.name \in {"sanitiseMatchedBytes", "sanitizeMatchedBytes"} ->
             [set EXCEPT !.arg_min = IF a.param = Null THEN 0 ELSE a.param.min,
                         !.arg_max = IF a.param = Null THEN 0 ELSE a.param.max]
      [] OTHER -> set

InitFlow(set, a) ==
    CASE a.name = "chain"      -> [set EXCEPT !.is_chained = 1]
      [] a.name = "log"        -> [set EXCEPT !.log = 1]
      [] a.name = "nolog"      -> [set EXCEPT !.log = 0, !.auditlog = 0]
      [] a.name = "auditlog"   -> [set EXCEPT !.auditlog = 1]
      [] a.name = "noauditlog" -> [set EXCEPT !.auditlog = 0]
      [] a.name = "block"      -> [set EXCEPT !.block = 1]
      [] a.name = "status"     -> [set EXCEPT !.intercept_status = a.param.num]
      [] a.name = "skip"       -> [set EXCEPT !.skip_count = IF a.param.num <= 0 THEN 1 ELSE a.param.num]
      [] a.name = "skipAfter"  -> [set EXCEPT !.skip_after = a.param]
      [] a.name = "phase"      -> [set EXCEPT !.phase = phase_value(a.param)]
      [] OTHER -> set

\* A pause leaves no record of the action.
InitDisruptive(set, a) ==
    CASE a.name = "deny"  -> Intercept(set, "DENY", a)
      [] a.name = "drop"  -> Intercept(set, "DROP", a)
      [] a.name = "pass"  -> Intercept(set, "NONE", a)
      [] a.name = "allow" -> Intercept(set, allow_value(a.param), a)
      [] a.name = "pause" -> [set EXCEPT !.intercept_action = "PAUSE", !.intercept_pause = a.param]
      [] a.name = "redirect" -> [Intercept(set, "REDIRECT", a) EXCEPT !.intercept_uri = a.param]
      [] a.name = "proxy" -> [Intercept(set, "PROXY", a) EXCEPT !.intercept_uri = a.param]
      [] OTHER -> set

InitAction(set, a) == InitDisruptive(InitFlow(InitMetadata(set, a), a), a)

GroupOf(a) == msre_resolve_action(a.name).group
Unset(actions, name) == SelectSeq(actions, LAMBDA a : a.name # name)

\* The table shrinks while it is walked: what moves into the place of an
\* entry that was removed is not looked at.
RECURSIVE FixupFrom(_, _, _)
FixupFrom(actions, group, i) ==
    IF i > Len(actions) THEN actions
    ELSE FixupFrom(IF GroupOf(actions[i]) = group THEN Unset(actions, actions[i].name) ELSE actions,
                   group, i + 1)

msre_actionset_cardinality_fixup(actions, a) == FixupFrom(actions, GroupOf(a), 1)

\* apr_table_setn: the first entry of the name is replaced, the others go.
SetAction(actions, a) ==
    LET S == {i \in DOMAIN actions : actions[i].name = a.name}
        k == CHOOSE i \in S : \A j \in S : i <= j
    IN  IF S = {} THEN Append(actions, a)
        ELSE SubSeq(actions, 1, k - 1) \o <<a>> \o Unset(SubSeq(actions, k + 1, Len(actions)), a.name)

\* "block" stands for the action of the parent, once that is known.
msre_actionset_action_add(set, a) ==
    LET blocks == set.parent_intercept_action_rec \notin {Null, NotSet} /\ a.name = "block"
        add    == IF blocks THEN set.parent_intercept_action_rec ELSE a
        tidy   == IF GroupOf(add) = "NONE" THEN set.actions
                  ELSE msre_actionset_cardinality_fixup(set.actions, add)
    IN  [set EXCEPT !.intercept_action = IF blocks THEN set.parent_intercept_action ELSE @,
                    !.actions = IF msre_resolve_action(add.name).cardinality = "ONE"
                                THEN SetAction(tidy, add) ELSE Append(tidy, add)]

\* list: <<[name, param], ...>>; Null refuses it.
msre_parse_actions(set, list) ==
    IF \E i \in DOMAIN list : msre_create_action(list[i].name, list[i].param) = Null THEN Null
    ELSE FoldLeft(LAMBDA s, a : msre_actionset_action_add(InitAction(s, a), a), set, list)

msre_actionset_create(list) == msre_parse_actions(EmptyActionset, list)

Given(child, parent, fields) == [f \in fields |-> IF child[f] # NotSet THEN child[f] ELSE parent[f]]

\* Mutant: the record of the disruptive action stays the parent's.
merge_keeps_rec(parent, child) ==
    LET merged == Given(child, parent, (PointerFields \union NumberFields) \ {"intercept_action_rec"})
                      @@ parent
    IN  FoldLeft(msre_actionset_action_add, merged, child.actions)

\* Whether a rule goes on to another one is never inherited; the address
\* and the record come with the disruptive action.
msre_actionset_merge(parent, child) ==
    LET plain  == (PointerFields \union NumberFields)
                      \ {"is_chained", "parent_intercept_action_rec", "parent_intercept_action",
                         "intercept_action", "intercept_action_rec", "intercept_uri"}
        action == {"intercept_action", "intercept_action_rec", "intercept_uri"}
        merged == Given(child, parent, plain)
                      @@ [is_chained |-> child.is_chained]
                      @@ (IF child.intercept_action # NotSet THEN [f \in action |-> child[f]]
                          ELSE [f \in action |-> parent[f]])
                      @@ parent
    IN  FoldLeft(msre_actionset_action_add, merged, child.actions)

Word(w) == [word |-> w, num |-> 0, sign |-> ""]
Num(n)  == [word |-> "", num |-> n, sign |-> ""]
NoParam(name) == [name |-> name, param |-> Null]
msre_actionset_create_default ==
    msre_actionset_create(<<[name |-> "phase", param |-> Num(2)], NoParam("log"), NoParam("auditlog"),
                            NoParam("pass")>>)

Defaults == [phase |-> 2, is_chained |-> 0, skip_count |-> 0, parent_intercept_action |-> "NONE",
             intercept_action |-> "NONE", intercept_status |-> 403, auditlog |-> 1, log |-> 1,
             severity |-> -1, accuracy |-> -1, maturity |-> -1, arg_max |-> -1, arg_min |-> -1]
msre_actionset_set_defaults(set) ==
    [f \in DOMAIN set |->
        IF set[f] # NotSet THEN set[f] ELSE IF f \in DOMAIN Defaults THEN Defaults[f] ELSE Null]

\* SecDefaultAction; Null refuses it.
cmd_default_action(list) ==
    LET set == msre_actionset_create(list)
    IN  IF set = Null THEN Null
        ELSE IF \/ set.intercept_action = NotSet \/ set.phase = NotSet
                \/ \E f \in {"id", "rev", "version", "maturity", "accuracy", "msg", "is_chained",
                             "skip_count", "skip_after"} : set[f] # NotSet
        THEN Null ELSE set

\* What is left of a rule's actions once it is in the rule set.
RuleActions(default, list) ==
    LET set == msre_actionset_create(list)
    IN  IF set = Null THEN Null
        ELSE msre_actionset_set_defaults(
                 [msre_actionset_merge(default, set) EXCEPT
                     !.parent_intercept_action_rec = default.intercept_action_rec,
                     !.parent_intercept_action = default.intercept_action])

\* SecRuleUpdateActionById.
update_rule_action(set, list) ==
    LET Update(new) ==
            IF \/ new = Null
               \/ new.id # NotSet /\ set.id # Null /\ set.id # new.id
               \/ new.phase # NotSet /\ new.phase # set.phase
            THEN Null ELSE msre_actionset_set_defaults(msre_actionset_merge(set, new))
    IN  Update(msre_actionset_create(list))

\* The actions a rule is shown with: of a rule in a chain not the ones that
\* belong to its first rule.
StarterOnly == {"log", "auditlog", "nolog", "noauditlog", "severity", "ver", "maturity", "accuracy",
                "tag", "phase"}
msre_actionset_generate_action_string(set, in_chain) ==
    SelectSeq(set.actions, LAMBDA a :
        ~ in_chain \/ (msre_resolve_action(a.name).type \notin {"DISRUPTIVE", "METADATA"}
                       /\ a.name \notin StarterOnly))

(***************************************************************************)
(* Targets of a rule, and how directives and ctl change them.  A target    *)
(* that was replaced stays in the list without a name.                     *)
(***************************************************************************)
msre_parse_targets(targets, texts) ==
    LET Add(vars) == IF Null \in Range(vars) THEN Null ELSE targets \o vars
    IN  Add([i \in DOMAIN texts |-> msre_create_var(texts[i])])

msre_generate_target_string(targets) == SelectSeq(targets, LAMBDA t : t.name # "")

SameTarget(t, text) ==
    /\ t.name = text.name /\ t.param = text.param
    /\ t.is_negated = (text.modifier = "!") /\ t.is_counting = (text.modifier = "&")

NoTarget(t) == [name |-> "", param |-> IF t.param = Null THEN Null ELSE <<>>,
                is_negated |-> TRUE, is_counting |-> FALSE]

\* Mutant: a target is appended without a look for it.
AppendTargetAlways(r, text) ==
    LET With(parsed) == IF parsed = Null THEN [r EXCEPT !.done = TRUE]
                        ELSE [r EXCEPT !.targets = parsed]
    IN  IF r.done THEN r ELSE With(msre_parse_targets(r.targets, <<text>>))

\* One target of the list; an unknown one ends the update with an error,
\* one that cannot be created ends it silently.
AppendTarget(r, text) ==
    LET known == ~ text.http /\ msre_resolve_var(text.name) # Null
        With(parsed) == IF parsed = Null THEN [r EXCEPT !.done = TRUE]
                        ELSE [r EXCEPT !.targets = parsed]
    IN  IF r.done THEN r
        ELSE IF ~ known THEN [r EXCEPT !.done = TRUE, !.error = TRUE]
        ELSE IF \E i \in DOMAIN r.targets : SameTarget(r.targets[i], text) THEN r
        ELSE With(msre_parse_targets(r.targets, <<text>>))

ReplaceTargets(targets, texts, replace) ==
    LET erased == [i \in DOMAIN targets |->
                      IF SameTarget(targets[i], replace) THEN NoTarget(targets[i]) ELSE targets[i]]
        Add(r, parsed) == IF r.done \/ parsed = Null THEN [r EXCEPT !.done = TRUE]
                          ELSE [r EXCEPT !.targets = parsed]
        Step1(r, text) == Add(r, msre_parse_targets(r.targets, <<text>>))
    IN  IF replace.http \/ msre_resolve_var(replace.name) = Null
        THEN [targets |-> targets, done |-> TRUE, error |-> TRUE]
        ELSE IF erased = targets THEN [targets |-> targets, done |-> TRUE, error |-> FALSE]
        ELSE FoldLeft(Step1, [targets |-> erased, done |-> FALSE, error |-> FALSE], texts)

update_rule_target_ex(targets, texts, replace) ==
    IF replace # Null THEN ReplaceTargets(targets, texts, replace)
    ELSE FoldLeft(AppendTarget, [targets |-> targets, done |-> FALSE, error |-> FALSE], texts)

\* ctl:ruleRemoveTarget...: the target is passed over.  An exception without
\* a member covers all of them.
fetch_target_exception(target, exceptions) ==
    \E i \in DOMAIN exceptions :
        /\ exceptions[i].name = target.name
        /\ \/ exceptions[i].param = Null
           \/ target.param # Null /\ Folded(exceptions[i].param) = Folded(target.param)

msre_ruleset_rule_matches_exception(rule, re) ==
    /\ rule.placeholder = "NONE"
    /\ CASE re.type = "REMOVE_ID"  -> rule.id # Null /\ InRange(rule.id, re.param)
         [] re.type = "REMOVE_MSG" -> rule.msg # Null /\ Regexec(re.param, rule.msg) = "match"
         [] re.type = "REMOVE_TAG" -> \E i \in DOMAIN rule.tags : Regexec(re.param, rule.tags[i]) = "match"

\* A rule in a chain is changed with the rule that starts the chain.
UpdateRule(state, rule, re, texts, replace) ==
    LET hit  == IF state.mode = 0 THEN msre_ruleset_rule_matches_exception(rule, re)
                ELSE state.mode = 2
        next == IF ~ rule.is_chained THEN 0 ELSE IF hit THEN 2 ELSE 1
        With(updated) ==
            [rules |-> Append(state.rules, [rule EXCEPT !.targets = updated.targets]),
             mode |-> next, error |-> updated.error]
    IN  IF state.error THEN [state EXCEPT !.rules = Append(@, rule)]
        ELSE IF ~ hit THEN [state EXCEPT !.rules = Append(@, rule), !.mode = next]
        ELSE With(update_rule_target_ex(rule.targets, texts, replace))

msre_ruleset_phase_rule_update_target_matching_exception(rules, re, texts, replace) ==
    FoldLeft(LAMBDA s, r : UpdateRule(s, r, re, texts, replace),
             [rules |-> <<>>, mode |-> 0, error |-> FALSE], rules)
============================================================================
