---------------------------- MODULE MCFunctions ----------------------------
(***************************************************************************)
(* The functions a rule is made of, asked one question after the other:    *)
(* the transformations, the lookup structures, the operators, the          *)
(* variables, the actions and the updates of rules.  A behaviour picks a   *)
(* probe and gets the answer of the functions; the properties compare the  *)
(* answer with a reference definition or with the answer to another way of *)
(* asking.                                                                 *)
(***************************************************************************)
EXTENDS Actions, TLC

CONSTANT NoAnswer

VARIABLES probe, answer

(***************************************************************************)
(* The libraries around the functions.  An expression is the number of     *)
(* groups it matches with: 1 to 10, 0 if there are more than the vector    *)
(* holds, or negative.                                                     *)
(***************************************************************************)
MCRegexec(pattern, name) == IF pattern = name THEN "match" ELSE "nomatch"
MCCompiles(pattern) == TRUE
MCInRange(id, range) == id = range
MCExec(pattern, s, offset) ==
    [rc |-> pattern[1], spans |-> [i \in 1..pattern[1] |-> <<(i - 1) % (Len(s) + 1), Len(s)>>]]
MCExpand(msr, s) == s
MCHashLink(s) == s
TX_ == <<84, 88>>
MCVarName(text) == IF text = TX_ THEN "TX" ELSE "UNKNOWN"

\* Narrow integers, so that numbers at both ends of their range are cheap.
O == INSTANCE Operators WITH Exec <- MCExec, Expand <- MCExpand, HashLink <- MCHashLink,
                             IntWidth <- 8, LongWidth <- 9
Bits == 3

\* Letters 1 and 2 are lower case, 3 is the upper case of 1.
FoldCase(letter) == IF letter = 3 THEN 1 ELSE letter
L == INSTANCE Lookup WITH Width <- Bits, Lower <- FoldCase

Strings4(S, n) == UNION {[1..k -> S] : k \in 0..n}
Answered(kind) == probe.kind = kind /\ answer # NoAnswer

(***************************************************************************)
(* Transformations: every string over the bytes that mean something to the *)
(* function.                                                               *)
(***************************************************************************)
X == 120
U == 117
LetterA == 97
Four == 52
One == 49

Alphabet(t) ==
    CASE t \in {"urlDecode", "urlDecodeUni", "urlEncode"} -> {Percent, U, Zero, Four, Plus}
      [] t \in {"jsDecode", "escapeSeqDecode", "cssDecode"} -> {Backslash, X, U, Four, LF}
      [] t = "htmlEntityDecode" -> {Amp, Hash, X, Four, Semicolon}
      [] t \in {"normalizePath", "normalizePathWin"} -> {Slash, Dot, LetterA, Backslash}
      [] t \in {"hexDecode", "hexEncode", "sqlHexDecode"} -> {Zero, X, Four, LetterA}
      [] t \in {"removeComments", "replaceComments", "removeCommentsChar"} -> {Slash, Star, Minus, Hash, LetterA}
      [] t = "base64DecodeExt" -> {LetterA, Four, Equals, Dot}
      [] t = "utf8toUnicode" -> {0, LetterA, 195, 164, 226}
      [] OTHER -> {0, Tab, Space, 65, Quote}
Longest(t) == IF t \in {"normalizePath", "normalizePathWin"} THEN 7 ELSE 5

TransformProbe ==
    \E t \in Names : \E n \in 0..Longest(t) : \E s \in [1..n -> Alphabet(t)] :
        probe = [kind |-> "tfn", t |-> t, s |-> s]

\* A decoder writes where it reads: its result is never longer than its
\* input (the buffers are not grown).
FitsInPlace == probe.t \in InPlace => Len(answer.out) <= Len(probe.s)

\* Functions whose flag says "unchanged" for strings they do change (see
\* the README); the cache and multiMatch trust the flag of all others.
SilentNames == {"compressWhitespace", "normalizePath", "normalizePathWin", "utf8toUnicode", "base64DecodeExt"}
ReportsChange == answer.changed \/ probe.t \in SilentNames \/ answer.out = probe.s

\* A normal path has no empty segment and no self reference, and it has a
\* back reference only in front.
Occurs(word, s) == \E i \in 1..(Len(s) - Len(word) + 1) : SubSeq(s, i, i + Len(word) - 1) = word
PathIsNormal ==
    probe.t = "normalizePath" =>
        /\ Apply("normalizePath", answer.out).out = answer.out
        /\ ~ Occurs(<<Slash, Slash>>, answer.out)
        /\ ~ Occurs(<<Slash, Dot, Slash>>, answer.out)
        /\ ~ Occurs(<<LetterA, Slash, Dot, Dot, Slash>>, answer.out)

\* What was encoded can be decoded.
EncodingsInvert ==
    /\ probe.t = "urlEncode" => Apply("urlDecode", answer.out).out = probe.s
    /\ probe.t = "hexEncode" => Apply("hexDecode", answer.out).out = probe.s

\* re_tfns.c: what the engine takes for granted of every transformation.
TransformsSound == Answered("tfn") => FitsInPlace /\ ReportsChange /\ PathIsNormal /\ EncodingsInvert

(***************************************************************************)
(* Lists of addresses, and of phrases.                                     *)
(***************************************************************************)
Net == [addr : [1..Bits -> {0, 1}], cidr : 1..Bits]
Entry(net) == [addr |-> net.addr, slash |-> net.cidr # Bits, cidr |-> net.cidr, v6 |-> FALSE]
Value(addr) == [addr |-> addr, v6 |-> FALSE]

\* What the code finds in the memory it forgets to fill.
Garbage == [1..2 -> {0, 2}]

ListProbe ==
    \E n \in 0..3 : \E nets \in [1..n -> Net], garbage \in Garbage :
        probe = [kind |-> "list", nets |-> nets, garbage |-> garbage]

ListAnswer(p) ==
    LET root == L!ip_tree_from_param([i \in DOMAIN p.nets |-> Entry(p.nets[i])], p.garbage)
    IN  {addr \in [1..Bits -> {0, 1}] : L!tree_contains_ip(root, Value(addr)) = 1}

Covers(net, addr) == \A k \in 1..net.cidr : net.addr[k] = addr[k]

\* With one netmask beside plain addresses, and no entry that begins where
\* another one does: other lists lose entries (see the README).
Begins(net) == [k \in 1..Bits |-> IF k <= net.cidr THEN net.addr[k] ELSE 0]
PlainList(nets) ==
    /\ \A i, j \in DOMAIN nets : nets[i].cidr = nets[j].cidr \/ Bits \in {nets[i].cidr, nets[j].cidr}
    /\ \A i, j \in DOMAIN nets : i # j => Begins(nets[i]) # Begins(nets[j])

ListExact ==
    PlainList(probe.nets) =>
        answer = {addr \in [1..Bits -> {0, 1}] : \E i \in DOMAIN probe.nets : Covers(probe.nets[i], addr)}

Phrase == UNION {[1..n -> {1, 2}] : n \in 1..4}
PhraseProbe ==
    \E v, w \in Phrase, n \in 0..5 : \E data \in [1..n -> {2, 3}] :
        probe = [kind |-> "phrases", phrases |-> <<v, w>>, data |-> data]

PhraseAnswer(p) ==
    LET add(a, w) == L!acmp_add_pattern(a, w)
    IN  L!acmp_process_quick(L!acmp_prepare(FoldLeft(add, L!acmp_create, p.phrases)), p.data)

TextRead == [k \in DOMAIN probe.data |-> FoldCase(probe.data[k])]
Listed == \E i \in DOMAIN probe.phrases : Occurs(probe.phrases[i], TextRead)
PhraseSound == answer.found => Listed

\* Fail links are right up to the second letter of a phrase: a longer phrase
\* may hide another one in it (EveryPhraseFound).
PhraseComplete == (\A i \in DOMAIN probe.phrases : Len(probe.phrases[i]) <= 3) => (Listed => answer.found)

\* msc_tree.c, acmp.c: an address is found in a list if and only if an entry
\* covers it, in whatever order the tree grew; a phrase that is reported is
\* in the text, and short phrases that are in the text are reported.
LookupsExact == /\ Answered("list") => ListExact
                /\ Answered("phrases") => PhraseSound /\ PhraseComplete

\* CHANGES describes @pm as an Aho-Corasick match of all phrases, so the
\* automaton finds every phrase that is in the text.
EveryPhraseFound == Answered("phrases") => (Listed => answer.found)

(***************************************************************************)
(* Operators: characters in UTF-8, and the captures of one rule after      *)
(* another.                                                                *)
(***************************************************************************)
Leads == {0, 65, 127, 128, 191, 192, 193, 194, 223, 224, 225, 237, 239, 240, 241, 243, 244, 245, 255}
Trails == {65, 127, 128, 143, 144, 159, 160, 191, 192}
Utf8Probe ==
    \E lead \in Leads, n \in 0..3 : \E trail \in [1..n -> Trails] :
        probe = [kind |-> "utf8", s |-> <<lead>> \o trail]

msr0 == [tx |-> <<>>, sanitize |-> <<>>]
Utf8Answer(p) ==
    O!validateUtf8Encoding_execute([capture |-> FALSE], [name |-> "X", value |-> p.s], msr0).rc

\* RFC 3629 but for the last code point: the operator accepts up to 13FFFF.
Encodes(s) ==
    LET n == Len(s)
        trail == \A k \in 2..n : s[k] \in 128..191
        code == FoldLeft(LAMBDA c, b : c * 64 + (b % 64), 0, Tail(s))
    IN  CASE n = 1 -> s[1] < 128
          [] n = 2 -> trail /\ s[1] \in 194..223
          [] n = 3 -> trail /\ s[1] \in 224..239 /\ (s[1] = 224 => code >= 2048)
                            /\ (s[1] = 237 => code < 2048)
          [] n = 4 -> trail /\ s[1] \in 240..244 /\ (s[1] = 240 => code >= 65536)
RECURSIVE WellFormed(_)
WellFormed(s) ==
    s = <<>> \/ \E n \in 1..4 : n <= Len(s) /\ Encodes(SubSeq(s, 1, n))
                               /\ WellFormed(SubSeq(s, n + 1, Len(s)))

\* re_operators.c: @validateUtf8Encoding matches exactly the strings that are
\* not a sequence of shortest encodings.
Utf8Exact == Answered("utf8") => ((answer = 0) <=> WellFormed(probe.s))

\* Two rules with a regular expression, on values of different lengths.
RxRule == [groups : -1..4, capture : BOOLEAN, len : 1..3]
CaptureProbe ==
    \E first, second \in RxRule, before \in {<<>>, ("0" :> <<9>>), ("5" :> <<9>>) @@ ("x" :> <<9>>)} :
        probe = [kind |-> "captures", rules |-> <<first, second>>, before |-> before]

ValueOf(rule) == [i \in 1..rule.len |-> i]
RunRx(msr, rule) ==
    O!rx_execute([op_param |-> <<rule.groups>>, capture |-> rule.capture,
                  data |-> [re_precomp |-> FALSE, re |-> <<rule.groups>>],
                  sanitizeMatched |-> FALSE, sanitizeMatchedBytes |-> FALSE],
                 [name |-> "X", value |-> ValueOf(rule)], msr).msr
CaptureAnswer(p) ==
    LET Second(one) == [between |-> one.tx, after |-> RunRx(one, p.rules[2]).tx]
    IN  Second(RunRx([msr0 EXCEPT !.tx = p.before], p.rules[1]))

Captured == {"0", "1", "2", "3", "4", "5", "6", "7", "8", "9"}
Captures(tx) == {<<n, tx[n]>> : n \in DOMAIN tx \cap Captured}
GroupsOf(rule) ==
    {<<O!Names10[i], SubSeq(ValueOf(rule), ((i - 1) % (rule.len + 1)) + 1, rule.len)>> : i \in 1..rule.groups}

\* re_operators.c: after a rule with "capture" has matched, TX:0 to TX:9 are
\* its groups and nothing older; a rule that does not match or does not
\* capture leaves them, and none touches the other members of TX.  (A match
\* with more groups than the vector holds counts as one without captures.)
CapturesFresh ==
    Answered("captures") =>
        LET rule == probe.rules[2]
        IN  /\ Captures(answer.after) = IF rule.capture /\ rule.groups > 0 THEN GroupsOf(rule)
                                        ELSE Captures(answer.between)
            /\ DOMAIN answer.after \ Captured = DOMAIN probe.before \ Captured

(***************************************************************************)
(* Variables: the same variable before and after another rule of the phase *)
(* has done something.                                                     *)
(***************************************************************************)
A_ == <<LetterA>>
B_ == <<98, 0, 98>>
C_ == <<99>>
Pair(name, value) == [name |-> name, value |-> value]
Arg(name, value, origin) == [name |-> name, value |-> value, origin |-> origin]
Part(type, name) == [type |-> type, name |-> name, filename |-> A_, tmp_file_name |-> A_,
                     tmp_file_size |-> 3, content |-> <<98, 98, 98>>]
FieldNames == {"unparsed_uri", "query", "path", "filename", "request_line", "msc_reqbody_processor",
               "msc_reqbody_error_msg", "useragent_ip", "remote_addr", "remote_host", "remote_user",
               "modsec_build", "multipart_filename", "multipart_name", "query_string", "request_method",
               "request_protocol", "local_addr", "hostname", "group_name", "user_name", "ap_auth_type",
               "path_info", "status_line", "response_protocol", "content_type", "userid", "sessionid",
               "webappid"}
NumNames == {"msc_sdbm_delete_error", "msc_reqbody_error", "remote_port", "highest_severity",
             "urlencoded_error", "inbound_error", "outbound_error", "local_port", "group", "protection",
             "user", "response_status", "clength"}

\* A transaction in its last phase; fields the request did not give are NULL.
FullMsr(given, remoteip) ==
    [arguments |-> <<Arg(A_, B_, "QUERY_STRING"), Arg(B_, A_, "BODY"), Arg(A_, A_, "JSON")>>,
     tx_vars |-> <<Pair(A_, A_)>>, geo_vars |-> <<>>,
     collections |-> [ip |-> <<Pair(A_, A_)>>, session |-> <<Pair(A_, B_)>>],
     request_cookies |-> <<Pair(A_, B_)>>, request_headers |-> <<Pair(A_, A_), Pair(B_, B_)>>,
     response_headers |-> <<Pair(A_, A_)>>, perf_rules |-> <<>>,
     matched_vars |-> <<[name |-> <<"ARGS", A_>>, text |-> A_, value |-> A_]>>,
     matched_var |-> Pair(A_, A_),
     mpd |-> IF given THEN [parts |-> <<Part("MULTIPART_FILE", A_), Part("MULTIPART_FORMDATA", B_)>>,
                            flags |-> {"lf_line"}] ELSE Null,
     notes |-> <<>>, subprocess_env |-> (UNIQUE_ID :> A_), environ |-> (A_ :> A_),
     field |-> [f \in FieldNames |-> IF given \/ f \in {"path", "request_line"} THEN A_ ELSE Null],
     num |-> [n \in NumNames |-> 10], mod_remoteip |-> remoteip,
     reqbody_buffer |-> IF given THEN B_ ELSE Null, reqbody_length |-> 3,
     stream_input_data |-> IF given THEN B_ ELSE Null, stream_output_data |-> Null, resbody_data |-> B_,
     xml |-> IF given THEN [tree |-> A_, namespaces_ok |-> TRUE, nodes |-> <<A_, A_>>] ELSE Null,
     now |-> 12, request_time |-> 10, time_phase |-> <<1, 1, 1, 1, 0>>, time_storage_read |-> 1,
     time_storage_write |-> 0, time_logging |-> 0, time_gc |-> 0, error_messages |-> <<A_, Null>>,
     tm |-> [year |-> 115, mon |-> 0, mday |-> 9, hour |-> 10, min |-> 0, sec |-> 59, wday |-> 1],
     content_prepend |-> Null, content_append |-> Null, arguments_to_sanitize |-> <<>>,
     removed_rules |-> <<>>, request_headers_to_sanitize |-> {}, response_headers_to_sanitize |-> {},
     txcfg |-> [auditlog_flag |-> "on"], usercfg |-> [auditlog_flag |-> "on"]]

TheRule == [chain_starter |-> Null, actionset |-> (A_ :> A_)]

\* What a rule of the phase, or the time it takes, may do in between.
Changes == {"setenv", "setvar", "setvar_ip", "setuid", "match", "geoLookup", "severity", "rsub", "processor",
            "sanitise", "time"}
Change(msr, c) ==
    CASE c = "setenv"    -> setenv_execute(msr, A_, A_, TheRule)
      [] c = "setvar"    -> [msr EXCEPT !.tx_vars = <<Pair(A_, C_), Pair(B_, B_)>>]
      [] c = "setvar_ip" -> [msr EXCEPT !.collections["ip"] = <<Pair(A_, B_)>>]
      [] c = "setuid"    -> [msr EXCEPT !.field["userid"] = C_]
      [] c = "match"     -> [msr EXCEPT !.matched_vars = Append(@, [name |-> <<"TX", B_>>, text |-> B_, value |-> B_]),
                                        !.matched_var = Pair(B_, B_)]
      [] c = "geoLookup" -> [msr EXCEPT !.geo_vars = <<Pair(A_, A_)>>]
      [] c = "severity"  -> [msr EXCEPT !.num["highest_severity"] = 2]
      [] c = "rsub"      -> [msr EXCEPT !.stream_input_data = A_, !.stream_output_data = A_]
      [] c = "processor" -> ctl_execute(msr, [name |-> "requestBodyProcessor", value |-> Word(C_)])
      [] c = "sanitise"  -> sanitizeMatched_execute(msr, [collection |-> "ARGS", member |-> A_])
      [] c = "time"      -> [msr EXCEPT !.now = @ + 1, !.time_phase[1] = @ + 1, !.tm.sec = 0, !.tm.min = 1,
                                        !.perf_rules = <<Pair(A_, A_)>>]

VariableProbe ==
    \E v \in VariableTable, param \in {Null, A_, UNIQUE_ID, <<Slash>> \o A_ \o <<Slash>>}, c \in Changes,
       given, remoteip \in BOOLEAN :
        /\ msre_create_var([modifier |-> "", http |-> FALSE, name |-> v.name, param |-> param]) # Null
        /\ probe = [kind |-> "variable", name |-> v.name, param |-> param, change |-> c,
                    given |-> given, remoteip |-> remoteip]

VariableAnswer(p) ==
    LET var == [name |-> p.name, param |-> p.param, is_negated |-> FALSE, is_counting |-> FALSE]
        msr == FullMsr(p.given, p.remoteip)
    IN  [before |-> Generate(msr, var, TheRule), after |-> Generate(Change(msr, p.change), var, TheRule)]

\* Registered as cacheable although rules change them (see the README).
ChangingNames == {"MATCHED_VARS", "MATCHED_VARS_NAMES", "STREAM_INPUT_BODY", "STREAM_OUTPUT_BODY"}
CachedAreStable ==
    msre_resolve_var(probe.name).is_cacheable /\ probe.name \notin ChangingNames =>
        answer.before = answer.after

LengthsHonest ==
    \A i \in DOMAIN answer.after :
        probe.name = "MATCHED_VARS" \/ answer.after[i].len = Len(answer.after[i].value)

\* re_variables.c: a variable whose transformed values the engine caches for
\* the phase has the same targets whatever the rules of the phase do, and
\* the length of a target, which operators trust, is that of its value.
VariablesSound == Answered("variable") => CachedAreStable /\ LengthsHonest

(***************************************************************************)
(* Lists of actions: SecDefaultAction, a rule, and a later update of it.   *)
(***************************************************************************)
Given1(name, word) == [name |-> name, param |-> Word(word)]
Uri(name, word) == Given1(name, word)
Disruptive == {NoParam("deny"), NoParam("drop"), NoParam("pass"), NoParam("allow"), Uri("redirect", "u"),
               Uri("proxy", "v")}
Others == {NoParam("block"), Given1("skipAfter", "m"), NoParam("nolog")}
ListsOf(S) == {<<>>} \union {<<a>> : a \in S} \union {<<a, b>> : a, b \in S}
DefaultList(a) == <<[name |-> "phase", param |-> Num(2)], NoParam("log"), a>>

ActionProbe ==
    \E default \in Disruptive, rule \in ListsOf(Disruptive \union Others),
       update \in ListsOf(Disruptive \union Others) :
        probe = [kind |-> "actions", default |-> default, rule |-> rule, update |-> update]

ActionAnswer(p) ==
    update_rule_action(RuleActions(cmd_default_action(DefaultList(p.default)),
                                   <<[name |-> "id", param |-> Num(1)]>> \o p.rule),
                       p.update)

Listed3 == <<probe.default>> \o probe.rule \o probe.update
Decides(a) == a.name \in {"deny", "drop", "pass", "allow", "redirect", "proxy"}
Names3 == [deny |-> "DENY", drop |-> "DROP", pass |-> "NONE", allow |-> "ALLOW", redirect |-> "REDIRECT",
           proxy |-> "PROXY"]

\* re.c: what a rule does is kept three times: as the number the engine acts
\* on, as the record it reports, and as an entry in the table of actions.
\* Through defaults, merges and updates they stay the last that was asked
\* for, and the table never has two actions of the disruptive group.  (An
\* update with "block" is left out, see the README.)
InterceptAgrees ==
    Answered("actions") /\ NoParam("block") \notin Range(probe.update) =>
        LET last  == Last(SelectSeq(Listed3, Decides))
            table == SelectSeq(answer.actions, LAMBDA a : GroupOf(a) = "DISRUPTIVE")
        IN  /\ answer.intercept_action_rec = last
            /\ answer.intercept_action = Names3[last.name]
            /\ last.name \in {"redirect", "proxy"} => answer.intercept_uri = last.param
            /\ table = <<Last(SelectSeq(Listed3, LAMBDA a : a.name # "nolog"))>>

(***************************************************************************)
(* Updates of targets, by identifier, of rules in chains.                  *)
(***************************************************************************)
TargetText(modifier, name, param) == [modifier |-> modifier, http |-> FALSE, name |-> name, param |-> param]
TargetTexts == {TargetText("", "ARGS", Null), TargetText("", "ARGS", A_), TargetText("!", "ARGS", A_),
                TargetText("&", "ARGS", Null), TargetText("", "REQUEST_LINE", Null),
                TargetText("", "TX", Null), TargetText("", "NO_SUCH_VARIABLE", Null)}
RuleTexts == {TargetText("", "ARGS", Null), TargetText("!", "ARGS", A_)}

TargetProbe ==
    \E first, second \in RuleTexts, chained, chained2 \in BOOLEAN, id \in {"1", "2"},
       update \in ListsOf(TargetTexts), replace \in {Null, TargetText("", "ARGS", Null), TargetText("", "TX", Null)} :
        probe = [kind |-> "targets", texts |-> <<first, second>>, chained |-> <<chained, chained2, FALSE>>,
                 id |-> id, update |-> update, replace |-> replace]

\* The first and the third rule have the identifiers 1 and 2 if no chain
\* makes them a part of another rule.
TargetRule(p, i) ==
    [placeholder |-> "NONE", id |-> IF i = 1 THEN "1" ELSE IF p.chained[i - 1] THEN Null ELSE "2",
     msg |-> Null, tags |-> <<>>, is_chained |-> p.chained[i],
     targets |-> msre_parse_targets(<<>>, IF i = 1 THEN p.texts ELSE <<p.texts[1]>>)]
UpdateOnce(rules, p) ==
    msre_ruleset_phase_rule_update_target_matching_exception(
        rules, [type |-> "REMOVE_ID", param |-> p.id], p.update, p.replace)
TargetAnswer(p) ==
    LET Twice(before, once) == [before |-> before, once |-> once, twice |-> UpdateOnce(once.rules, p)]
        From(before) == Twice(before, UpdateOnce(before, p))
    IN  From([i \in 1..3 |-> TargetRule(p, i)])

StarterOf(i) == CHOOSE k \in 1..i : (k = 1 \/ ~ probe.chained[k - 1]) /\ \A j \in k..(i - 1) : probe.chained[j]
Chosen(i) == answer.before[StarterOf(i)].id = probe.id
Creatable(text) == msre_create_var(text) # Null

\* re.c: an update of the targets of a rule reaches every rule of its chain
\* and no other one; without a target to replace it only adds, nothing is
\* lost, every target that can be created is there, and the same update
\* again (a directive inherited by a second context) changes nothing.
UpdatesConsistent ==
    Answered("targets") =>
        /\ \A i \in 1..3 : ~ Chosen(i) => answer.once.rules[i] = answer.before[i]
        /\ probe.replace = Null /\ ~ answer.once.error /\ (\A j \in DOMAIN probe.update : Creatable(probe.update[j])) =>
            /\ answer.twice = answer.once
            /\ \A i \in 1..3 : Chosen(i) =>
                /\ IsPrefix(answer.before[i].targets, answer.once.rules[i].targets)
                /\ \A j \in DOMAIN probe.update : \E t \in Range(answer.once.rules[i].targets) :
                        SameTarget(t, probe.update[j])

(***************************************************************************)
(* Texts: quoted lists, and macros.                                        *)
(***************************************************************************)
ListBytes == {LetterA, Apostrophe, Backslash, Comma, Space}
ListValue == {Null} \union UNION {[1..n -> ListBytes] : n \in 0..2}
ListTextProbe ==
    \E v, w \in ListValue : probe = [kind |-> "listtext", items |-> <<Item(A_, v), Item(C_, w)>>]

Escaped(v) ==
    FoldLeft(LAMBDA out, b : IF b \in {Apostrophe, Backslash} THEN out \o <<Backslash, b>> ELSE Append(out, b),
             <<>>, v)
Written(item) ==
    IF item.value = Null THEN item.name
    ELSE item.name \o <<Colon, Apostrophe>> \o Escaped(item.value) \o <<Apostrophe>>
ListTextAnswer(p) == msre_parse_generic(Written(p.items[1]) \o <<Comma>> \o Written(p.items[2]))

LBrace == 123
RBrace == 125
MacroProbe ==
    \E n, m, k \in 0..2 :
      \E before \in [1..n -> {LetterA, Percent, RBrace}], after \in [1..m -> {LetterA, Percent, RBrace}],
         value \in [1..k -> {Percent, LBrace, RBrace, LetterA}] :
        probe = [kind |-> "macro", before |-> before, value |-> value, after |-> after]
MacroAnswer(p) ==
    expand_macros([tx_vars |-> <<Pair(A_, p.value)>>],
                  p.before \o <<Percent, LBrace>> \o TX_ \o <<Dot>> \o A_ \o <<RBrace>> \o p.after, TheRule)

\* re.c, re_actions.c: a list of actions whose parameters are quoted reads
\* back as it was meant, whatever bytes they hold; a macro is replaced by the
\* value of its variable, the text around it stays, and the value is not
\* expanded again.
TextsReadBack == /\ Answered("listtext") => answer = probe.items
                 /\ Answered("macro") => answer = probe.before \o probe.value \o probe.after

Evaluate(p) ==
    CASE p.kind = "tfn" -> Apply(p.t, p.s)
      [] p.kind = "list" -> ListAnswer(p)
      [] p.kind = "phrases" -> PhraseAnswer(p)
      [] p.kind = "utf8" -> Utf8Answer(p)
      [] p.kind = "captures" -> CaptureAnswer(p)
      [] p.kind = "variable" -> VariableAnswer(p)
      [] p.kind = "actions" -> ActionAnswer(p)
      [] p.kind = "targets" -> TargetAnswer(p)
      [] p.kind = "listtext" -> ListTextAnswer(p)
      [] p.kind = "macro" -> MacroAnswer(p)

Init == /\ answer = NoAnswer
        /\ \/ TransformProbe \/ ListProbe \/ PhraseProbe \/ Utf8Probe \/ CaptureProbe
           \/ VariableProbe \/ ActionProbe \/ TargetProbe \/ ListTextProbe \/ MacroProbe

Ask == /\ answer = NoAnswer
       /\ answer' = Evaluate(probe)
       /\ UNCHANGED probe

Next == Ask
Spec == Init /\ [][Next]_<<probe, answer>>
=============================================================================
