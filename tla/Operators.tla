----------------------------- MODULE Operators -----------------------------
(***************************************************************************)
(* The operators of re_operators.c: what each makes of its parameter when  *)
(* the rule is read (..._init) and what it answers for a value             *)
(* (..._execute).  Strings are sequences of bytes.  An answer is the       *)
(* return code (1 match, 0 no match, -1 error) and the transaction with    *)
(* what the operator left in it: captures in tx, values to sanitize, the   *)
(* geographical variables, a rewritten body.                               *)
(*                                                                         *)
(* The regular expression library, macro expansion, the hash of a link and *)
(* the libraries behind XML, Lua, DNS, ssdeep and libinjection are the     *)
(* operator constants and the argument env.                                *)
(***************************************************************************)
EXTENDS Transformations, FiniteSetsExt, Folds

CONSTANTS Compiles(_),          \* pcre_compile succeeds
          Exec(_, _, _),        \* pcre_exec from an offset: [rc, spans]
          Expand(_, _),         \* expand_macros
          HashLink(_),          \* do_hash_link
          IntWidth, LongWidth   \* bits of int and long

Answer(rc, msr) == [rc |-> rc, msr |-> msr]
InitAnswer(rc, data) == [rc |-> rc, data |-> data]
\* What is not there: no byte is -1.
None == <<-1>>

Sub(s, span) == SubSeq(s, span[1] + 1, span[2])

\* The first place of a word in a string, 0 if there is none.
Find(s, word) ==
    LET S == {i \in 1..(Len(s) - Len(word) + 1) : StartsWith(s, i, word)}
    IN  IF S = {} THEN 0 ELSE Min(S)

(***************************************************************************)
(* Captures.                                                               *)
(***************************************************************************)
Names10 == <<"0", "1", "2", "3", "4", "5", "6", "7", "8", "9">>

Without(tx, names) == [n \in DOMAIN tx \ names |-> tx[n]]
With(tx, n, v) == [m \in DOMAIN tx \cup {n} |-> IF m = n THEN v ELSE tx[m]]

set_match_to_tx(msr, capture, match, n) ==
    IF capture THEN [msr EXCEPT !.tx = With(@, Names10[n + 1], CString(match))] ELSE msr

RECURSIVE SetCaptures(_, _, _)
SetCaptures(tx, values, n) ==
    IF values = <<>> THEN tx
    ELSE SetCaptures(With(tx, Names10[n], Head(values)), Tail(values), n + 1)

\* The value is remembered under the name behind the colon of its variable.
Sanitize(msr, var, value) == [msr EXCEPT !.sanitize = Append(@, <<var.name, value>>)]

SanitizeAll(msr, var, values) ==
    FoldLeft(LAMBDA m, v : Sanitize(m, var, v), msr, values)

(***************************************************************************)
(* Regular expressions.                                                    *)
(***************************************************************************)
HasMacro(s) == Find(s, <<Percent, 123>>) # 0

\* A pattern with a macro is compiled at every execution.
rx_param_init(pattern) ==
    IF HasMacro(pattern) THEN InitAnswer(1, [re_precomp |-> TRUE, re |-> pattern])
    ELSE IF ~ Compiles(pattern) THEN InitAnswer(0, None)
    ELSE InitAnswer(1, [re_precomp |-> FALSE, re |-> pattern])

Pattern(rule, msr) == IF rule.data.re_precomp THEN Expand(msr, rule.data.re) ELSE rule.data.re

PCRE_ERROR_NOMATCH == -1
PCRE_LIMITS == {-8, -21}

LimitsExceeded(msr) == [msr EXCEPT !.tx = With(@, "MSC_PCRE_LIMITS_EXCEEDED", <<Zero + 1>>)]

\* The captures of the last match are forgotten only when this one has any:
\* ten groups fill the vector, and with more the library reports none (0).
rx_captures_stale(rule, var, msr, target, m) ==
    LET values == [i \in 1..m.rc |-> Sub(target, m.spans[i])]
    IN  [msr EXCEPT !.tx = SetCaptures(@, values, 1)]

rx_captures(rule, var, msr, target, m) ==
    LET values == [i \in 1..m.rc |-> Sub(target, m.spans[i])]
        set    == [msr EXCEPT !.tx = SetCaptures(Without(@, Range(Names10)), values, 1)]
    IN  IF rule.sanitizeMatched \/ rule.sanitizeMatchedBytes
        THEN SanitizeAll(set, var, values) ELSE set

rx_execute(rule, var, msr) ==
    LET pattern == Pattern(rule, msr)
        m == Exec(pattern, var.value, 0)
    IN  IF rule.data.re_precomp /\ ~ Compiles(pattern) THEN Answer(0, msr)
        ELSE IF m.rc \in PCRE_LIMITS THEN Answer(0, LimitsExceeded(msr))
        ELSE IF m.rc < PCRE_ERROR_NOMATCH THEN Answer(-1, msr)
        ELSE IF m.rc = PCRE_ERROR_NOMATCH THEN Answer(0, msr)
        ELSE Answer(1, IF rule.capture /\ m.rc > 0
                       THEN rx_captures(rule, var, msr, var.value, m) ELSE msr)

validateHash_param_init(pattern) == rx_param_init(pattern)

\* A link that matches must carry the hash of what stands before the
\* parameter; a match of the operator means that it does not.
validateHash_execute(rule, var, msr) ==
    LET pattern == Pattern(rule, msr)
        m      == Exec(pattern, var.value, 0)
        target == CString(var.value)
        valid  == Find(target, msr.crypto_param_name)
        hmac   == SubSeq(target, valid + Len(msr.crypto_param_name) + 1, Len(target))
    IN  IF ~ msr.hash_enforcement \/ ~ msr.hash_is_enabled THEN Answer(0, msr)
        ELSE IF rule.data.re_precomp /\ ~ Compiles(pattern) THEN Answer(0, msr)
        ELSE IF m.rc \in PCRE_LIMITS THEN Answer(0, LimitsExceeded(msr))
        ELSE IF m.rc < PCRE_ERROR_NOMATCH THEN Answer(-1, msr)
        ELSE IF m.rc = PCRE_ERROR_NOMATCH THEN Answer(0, msr)
        ELSE IF valid = 0 THEN Answer(1, msr)
        ELSE IF Len(target) - valid + 1 < Len(msr.crypto_param_name) + 1 THEN Answer(1, msr)
        ELSE Answer(IF hmac = HashLink(SubSeq(target, 1, valid - 2)) THEN 0 ELSE 1, msr)

(***************************************************************************)
(* rsub: s/pattern/replacement/flags on a stream body.                     *)
(***************************************************************************)
param_remove_escape(s) ==
    Scan(LAMBDA t, i : IF t[i] = Backslash /\ At(t, i + 1) = Slash
                       THEN Step(2, <<Slash>>, TRUE) ELSE Step(1, <<t[i]>>, FALSE), s).out

\* A delimiter behind a backslash does not end the part.
PartEnd(s, i, delim) ==
    LET S == {k \in i..Len(s) : s[k] = delim /\ (k = i \/ s[k - 1] # Backslash)}
    IN  IF S = {} THEN Len(s) + 1 ELSE Min(S)

rsub_param_init(s, processed) ==
    LET delim == At(s, 2)
        p == PartEnd(s, 3, delim)
        r == PartEnd(s, p + 1, delim)
        flags == Range(SubSeq(s, r + 1, Len(s)))
        re == param_remove_escape(SubSeq(s, 3, p - 1))
    IN  IF ToLower(At(s, 1)) # 115 \/ p > Len(s) \/ processed = None THEN InitAnswer(-1, None)
        ELSE InitAnswer(1, [re_precomp |-> HasMacro(re), re |-> re, sub |-> processed,
                            escape_re  |-> \E f \in flags : ToLower(f) = 100])

\* \1 to \9 stand for the captures.
Replacement(sub, rest, m) ==
    Scan(LAMBDA t, i :
            IF t[i] = Backslash /\ At(t, i + 1) \in 49..57
            THEN LET g == t[i + 1] - Zero + 1
                 IN  Step(2, IF g <= Len(m.spans) THEN Sub(rest, m.spans[g]) ELSE <<>>, TRUE)
            ELSE Step(1, <<t[i]>>, FALSE), sub).out

\* Replace match after match.  A match of the empty string does not move on:
\* the loop does not end (None).
RECURSIVE Rewrite(_, _, _)
Rewrite(re, sub, rest) ==
    LET m == Exec(re, rest, 0)
        tail == Rewrite(re, sub, SubSeq(rest, m.spans[1][2] + 1, Len(rest)))
    IN  IF m.rc < 0 THEN rest
        ELSE IF m.spans[1][2] = 0 THEN None
        ELSE IF tail = None THEN None
        ELSE SubSeq(rest, 1, m.spans[1][1]) \o Replacement(sub, rest, m) \o tail

rsub_execute(rule, var, msr) ==
    LET pattern == Pattern(rule, msr)
        out == Rewrite(pattern, Expand(msr, rule.data.sub), CString(var.value))
    IN  IF var.name \notin {"STREAM_OUTPUT_BODY", "STREAM_INPUT_BODY"} THEN Answer(-1, msr)
        ELSE IF pattern = <<>> \/ ~ Compiles(pattern) THEN Answer(-1, msr)
        ELSE IF var.name = "STREAM_OUTPUT_BODY" /\ msr.stream_output_data # None
        THEN Answer(1, [msr EXCEPT !.stream_output_data = out, !.of_stream_changed = TRUE])
        ELSE IF var.name = "STREAM_INPUT_BODY" /\ msr.stream_input_data # None
        THEN Answer(1, [msr EXCEPT !.stream_input_data = out, !.if_stream_changed = TRUE])
        ELSE Answer(1, msr)

(***************************************************************************)
(* Phrases: the parameter of @pm and the lines of a phrase file.           *)
(***************************************************************************)
\* |41 42| is read as hexadecimal, \: \; \\ and \" are the bytes themselves.
PmState(out, bin, esc, half, converted, ok) ==
    [out |-> out, bin |-> bin, esc |-> esc, half |-> half, converted |-> converted, ok |-> ok]

PmByte(st, c) ==
    IF ~ st.ok THEN st
    ELSE IF c = 124 THEN [st EXCEPT !.bin = ~ st.bin]
    ELSE IF ~ st.esc /\ c = Backslash THEN [st EXCEPT !.esc = TRUE]
    ELSE IF st.bin /\ ~ ValidHex(c) THEN st
    ELSE IF st.bin /\ st.half = <<>> THEN [st EXCEPT !.half = <<c>>]
    ELSE IF st.bin THEN [st EXCEPT !.out = Append(@, x2c(st.half[1], c)), !.half = <<>>,
                                   !.converted = TRUE]
    ELSE IF ~ st.esc THEN [st EXCEPT !.out = Append(@, c)]
    ELSE IF c \in {58, Semicolon, Backslash, Quote}
    THEN [st EXCEPT !.out = Append(@, c), !.esc = FALSE, !.converted = TRUE]
    ELSE [st EXCEPT !.ok = FALSE]

\* Where nothing was converted the whole length is kept, bars included.
parse_pm_content(s) ==
    LET body == trimLeft(s).out
        parm == IF Len(body) > 1 /\ body[1] = Quote /\ Last(s) = Quote
                THEN SubSeq(body, 2, Len(body) - 1) ELSE body
        st   == FoldLeft(PmByte, PmState(<<>>, FALSE, FALSE, <<>>, FALSE, TRUE), parm)
        kept == st.out \o SubSeq(parm, Len(st.out) + 1, Len(parm))
    IN  IF parm = <<>> \/ ~ st.ok THEN None
        ELSE IF st.converted THEN st.out ELSE kept

remove_escape(s) == SelectSeq(s, LAMBDA c : c # Backslash)

\* The words between white space.
Words(s) ==
    LET starts == {i \in 1..Len(s) : ~ IsSpace(s[i]) /\ (i = 1 \/ IsSpace(s[i - 1]))}
    IN  {SubSeq(s, i, i + Run(LAMBDA c : ~ IsSpace(c), s, i, Len(s)) - 1) : i \in starts}

pm_param_init(param) ==
    IF param = <<>> THEN InitAnswer(0, None)
    ELSE LET content == parse_pm_content(param)
         IN  InitAnswer(1, Words(CString(IF content = None THEN param ELSE content)))

\* A line of a phrase file is trimmed; empty lines, comments and, since the
\* end may not pass the start, lines of a single byte are left out.
PhraseOfLine(line) ==
    LET content == parse_pm_content(line)
        text == trim(CString(IF content = None THEN line ELSE content)).out
    IN  IF Len(text) <= 1 \/ text[1] = Hash THEN <<>> ELSE text

\* Every file named must be readable; "http://" is refused, a failed
\* download may be tolerated and then leaves the rule without phrases.
pmFromFile_param_init(files) ==
    LET Bad(f) == f.kind = "http" \/ f.kind = "unreadable" \/ (f.kind = "https" /\ f.download < 0)
        bad == {i \in DOMAIN files : Bad(files[i])}
        Phrases(f) == IF f.kind = "https" THEN {l \in f.lines : l # <<>> /\ l[1] # Hash}
                      ELSE {PhraseOfLine(l) : l \in f.lines} \ {<<>>}
    IN  IF files = <<>> THEN InitAnswer(0, None)
        ELSE IF bad # {} THEN InitAnswer(IF files[Min(bad)].kind = "https"
                                            /\ files[Min(bad)].download = -2 THEN 1 ELSE 0, {None})
        ELSE InitAnswer(1, UNION {Phrases(files[i]) : i \in DOMAIN files})

\* The automaton is that of Lookup: find answers [found, match].
pm_execute(rule, var, msr, find) ==
    IF var.value = <<>> \/ rule.data = {None} THEN Answer(0, msr)
    ELSE IF ~ find.found THEN Answer(0, msr)
    ELSE IF ~ rule.capture THEN Answer(1, msr)
    ELSE Answer(1, [msr EXCEPT !.tx = With(Without(@, Range(Tail(Names10))), "0", find.match)])

(***************************************************************************)
(* Addresses: the trees of Lookup answer 1, 0 or -1.                       *)
(***************************************************************************)
ipmatch_param_init(built) == InitAnswer(IF built = 0 THEN 1 ELSE 0, built)
ipmatch_execute(tree_null, contains, msr) == Answer(IF tree_null THEN 0 ELSE contains, msr)

\* kind: what the parameter names; built: -2 when a download failed and the
\* rule may do without.
ipmatchFromFile_param_init(kind, built) ==
    IF kind \in {"empty", "http"} THEN InitAnswer(0, None)
    ELSE IF kind = "https" /\ built = -2 THEN InitAnswer(1, None)
    ELSE InitAnswer(IF built = 0 THEN 1 ELSE 0, built)

ipmatchFromFile_execute(tree_null, contains, msr) == ipmatch_execute(tree_null, contains, msr)

(***************************************************************************)
(* Strings.                                                                *)
(***************************************************************************)
unconditionalmatch_execute(rule, var, msr) == Answer(1, msr)
nomatch_execute(rule, var, msr) == Answer(0, msr)

Match(found, msr) == Answer(IF found THEN 1 ELSE 0, msr)

\* Both scan for the first byte and compare the rest from there.
Inside(word, s) ==
    LET i_max == Len(s) - Len(word)
    IN  \E i \in 0..i_max : s[i + 1] = word[1] /\ SubSeq(s, i + 2, i + Len(word)) = Tail(word)

within_execute(rule, var, msr) ==
    LET match == Expand(msr, rule.op_param)
    IN  IF var.value = None THEN Answer(0, msr)
        ELSE Match(var.value = <<>> \/ (Len(var.value) <= Len(match) /\ Inside(var.value, match)), msr)

Target(var) == IF var.value = None THEN <<>> ELSE var.value

contains_execute(rule, var, msr) ==
    LET match == Expand(msr, rule.op_param)
        target == Target(var)
    IN  Match(match = <<>> \/ (Len(match) <= Len(target) /\ Inside(match, target)), msr)

IsWord(c) == IsAlpha(c) \/ IsDigit(c) \/ c = 95

containsWord_execute(rule, var, msr) ==
    LET match == Expand(msr, rule.op_param)
        target == Target(var)
        i_max == Len(target) - Len(match)
    IN  Match(\/ match = <<>>
              \/ \E i \in 0..i_max :
                    /\ i = 0 \/ ~ IsWord(target[i])
                    /\ StartsWith(target, i + 1, match)
                    /\ i = i_max \/ ~ IsWord(target[i + Len(match) + 1]), msr)

streq_execute(rule, var, msr) == Match(Expand(msr, rule.op_param) = Target(var), msr)

beginsWith_execute(rule, var, msr) ==
    LET match == Expand(msr, rule.op_param)
    IN  Match(match = <<>> \/ StartsWith(Target(var), 1, match), msr)

endsWith_execute(rule, var, msr) ==
    LET match == Expand(msr, rule.op_param)
        target == Target(var)
    IN  Match(\/ match = <<>>
              \/ /\ Len(match) <= Len(target)
                 /\ StartsWith(target, Len(target) - Len(match) + 1, match), msr)

strmatch_param_init(param) ==
    LET p == parse_pm_content(param)
    IN  IF p = None THEN InitAnswer(0, None) ELSE InitAnswer(1, CString(p))

strmatch_execute(rule, var, msr) == Match(Find(Target(var), rule.data) # 0, msr)

detectSQLi_execute(rule, var, msr, env) ==
    Answer(IF env.issqli THEN 1 ELSE 0,
           IF env.issqli THEN set_match_to_tx(msr, rule.capture, env.fingerprint, 0) ELSE msr)

detectXSS_execute(rule, var, msr, env) == Match(env.is_xss, msr)

(***************************************************************************)
(* Numbers.                                                                *)
(***************************************************************************)
\* strtol stops at the largest long; the result is cut to an int.
Signed(n, w) == LET m == n % 2^w IN IF m >= 2^(w - 1) THEN m - 2^w ELSE m

atoi(s0) ==
    LET s == trimLeft(CString(s0)).out
        neg == At(s, 1) = Minus
        from == IF At(s, 1) \in {Plus, Minus} THEN 2 ELSE 1
        digits == SubSeq(s, from, from + Run(IsDigit, s, from, Len(s)) - 1)
        top == IF neg THEN 2^(LongWidth - 1) ELSE 2^(LongWidth - 1) - 1
        long == FoldLeft(LAMBDA n, d : Min({top, n * 10 + d - Zero}), 0, digits)
    IN  Signed(IF neg THEN -long ELSE long, IntWidth)

Compare(rule, var, msr, R(_, _)) ==
    IF var.value = None THEN Answer(0, msr)
    ELSE Match(R(atoi(var.value), atoi(Expand(msr, rule.op_param))), msr)

eq_execute(rule, var, msr) == Compare(rule, var, msr, LAMBDA a, b : a = b)
gt_execute(rule, var, msr) == Compare(rule, var, msr, LAMBDA a, b : a > b)
lt_execute(rule, var, msr) == Compare(rule, var, msr, LAMBDA a, b : a < b)
ge_execute(rule, var, msr) == Compare(rule, var, msr, LAMBDA a, b : a >= b)
le_execute(rule, var, msr) == Compare(rule, var, msr, LAMBDA a, b : a <= b)

(***************************************************************************)
(* Card and identity numbers.                                              *)
(***************************************************************************)
Digits(s) == LET d == SelectSeq(s, IsDigit) IN [i \in DOMAIN d |-> d[i] - Zero]

SumOf(seq) == FoldLeft(LAMBDA a, b : a + b, 0, seq)

wtable(d) == 2 * d - (IF 2 * d > 9 THEN 9 ELSE 0)

\* Both ways of doubling every second digit are summed; the number of
\* digits tells which of them counts.
luhn_verify(s) ==
    LET d == Digits(s)
        odd == Len(d) % 2
        sum == SumOf([i \in DOMAIN d |-> IF (i - 1) % 2 = odd THEN wtable(d[i]) ELSE d[i]])
    IN  d # <<>> /\ sum % 10 = 0

CpfDigit(weighted) == LET f == SumOf(weighted) % 11 IN IF f < 2 THEN 0 ELSE 11 - f

\* Digits behind the eleventh are not looked at.
cpf_verify(s) ==
    LET all == Digits(s)
        d == SubSeq(all, 1, 11)
        nine == CpfDigit([i \in 1..9 |-> d[i] * (11 - i)])
        ten == CpfDigit([i \in 1..10 |-> (IF i = 10 THEN nine ELSE d[i]) * (12 - i)])
    IN  /\ Len(all) >= 11
        /\ Cardinality(Range(d)) # 1
        /\ d # <<0, 1, 2, 3, 4, 5, 6, 7, 8, 9, 0>>
        /\ d[10] = nine /\ d[11] = ten

ssn_verify(s) ==
    LET d == Digits(s)
        area == 100 * d[1] + 10 * d[2] + d[3]
    IN  /\ Len(d) = 9
        /\ \E i \in 1..8 : d[i] # d[i + 1] - 1
        /\ \E i \in 1..8 : d[i] # d[i + 1]
        /\ area # 0 /\ area < 740 /\ area # 666
        /\ 10 * d[4] + d[5] # 0
        /\ SumOf(SubSeq(d, 6, 9)) # 0

verify_init(pattern) ==
    IF Compiles(pattern) THEN InitAnswer(1, [re_precomp |-> FALSE, re |-> pattern])
    ELSE InitAnswer(0, None)

Verifies(kind, s) ==
    CASE kind = "CC" -> luhn_verify(s)
      [] kind = "CPF" -> cpf_verify(s)
      [] kind = "SSN" -> ssn_verify(s)

\* The match that verifies, the next one being searched behind the first
\* byte of the last.
RECURSIVE VerifyFrom(_, _, _, _)
VerifyFrom(re, target, offset, kind) ==
    IF offset >= Len(target) THEN [rc |-> PCRE_ERROR_NOMATCH, spans |-> <<>>]
    ELSE LET m == Exec(re, target, offset)
         IN  IF m.rc <= PCRE_ERROR_NOMATCH THEN m
             ELSE IF m.rc = 0 THEN VerifyFrom(re, target, offset + 1, kind)
             ELSE IF Verifies(kind, Sub(target, m.spans[1])) THEN m
             ELSE VerifyFrom(re, target, m.spans[1][1] + 1, kind)

\* Every capture is the whole match; the rest are unset, and without
\* "capture" all of them.
VerifyMatch(rule, var, msr, target, m) ==
    LET n == IF rule.capture THEN m.rc ELSE 0
        values == [i \in 1..n |-> Sub(target, m.spans[1])]
        set == [msr EXCEPT !.tx = SetCaptures(Without(@, Range(Names10)), values, 1)]
    IN  IF rule.sanitizeMatchedBytes THEN SanitizeAll(set, var, values) ELSE set

verify_execute(rule, var, msr, kind) ==
    LET target == Target(var)
        m == VerifyFrom(rule.data.re, target, 0, kind)
    IN  IF m.rc < PCRE_ERROR_NOMATCH THEN Answer(-1, msr)
        ELSE IF m.rc = PCRE_ERROR_NOMATCH THEN Answer(0, msr)
        ELSE Answer(1, VerifyMatch(rule, var, msr, target, m))

verifyCC_init(pattern) == verify_init(pattern)
verifyCPF_init(pattern) == verify_init(pattern)
verifySSN_init(pattern) == verify_init(pattern)
verifyCC_execute(rule, var, msr) == verify_execute(rule, var, msr, "CC")
verifyCPF_execute(rule, var, msr) == verify_execute(rule, var, msr, "CPF")
verifySSN_execute(rule, var, msr) == verify_execute(rule, var, msr, "SSN")

(***************************************************************************)
(* Encodings.                                                              *)
(***************************************************************************)
\* ranges: the comma separated parts, each a pair of numbers.
validateByteRange_init(ranges) ==
    LET Good(r) == r[1] \in 0..255 /\ r[2] \in 0..255 /\ r[1] <= r[2]
    IN  IF \A i \in DOMAIN ranges : Good(ranges[i])
        THEN InitAnswer(1, UNION {ranges[i][1]..ranges[i][2] : i \in DOMAIN ranges})
        ELSE InitAnswer(0, None)

validateByteRange_execute(rule, var, msr) ==
    Match(\E i \in DOMAIN var.value : var.value[i] \notin rule.data, msr)

RECURSIVE UrlEncodingFrom(_, _)
UrlEncodingFrom(s, i) ==
    IF i > Len(s) THEN 1
    ELSE IF s[i] # Percent THEN UrlEncodingFrom(s, i + 1)
    ELSE IF i + 2 > Len(s) THEN -3
    ELSE IF TwoHex(s, i + 1) THEN UrlEncodingFrom(s, i + 3)
    ELSE -2

validate_url_encoding(s) == IF s = None THEN -1 ELSE UrlEncodingFrom(s, 1)

validateUrlEncoding_execute(rule, var, msr) ==
    LET rc == validate_url_encoding(var.value)
    IN  Answer(CASE rc = 1 -> 0 [] rc \in {-2, -3} -> 1 [] OTHER -> -1, msr)

\* The length the first byte announces, 0 for a byte that cannot be first.
Announced(c) ==
    IF c < 128 THEN 1 ELSE IF c \in 192..223 THEN 2 ELSE IF c \in 224..239 THEN 3
    ELSE IF c \in 240..244 THEN 4 ELSE 0

\* Mutant: without the check of the shortest form.
detect_utf8_character_overlong(s, i) ==
    LET n == Announced(s[i])
    IN  IF n = 0 \/ i + n - 1 > Len(s) \/ ~ Continues(s, i, n - 1) THEN 0 ELSE n

\* The length of the character at i, 0 where it is not valid.  A
\* four-byte character loses the bits of its third byte ("<" for "<<").
detect_utf8_character(s, i) ==
    LET n == Announced(s[i])
        b(k) == s[i + k] % 64
        d == CASE n = 1 -> s[i]
               [] n = 2 -> (s[i] % 32) * 64 + b(1)
               [] n = 3 -> (s[i] % 16) * 4096 + b(1) * 64 + b(2)
               [] n = 4 -> (s[i] % 8) * 262144 + b(1) * 4096 + b(3)
        least == <<0, 128, 2048, 65536>>
    IN  IF n = 0 \/ i + n - 1 > Len(s) THEN 0
        ELSE IF ~ Continues(s, i, n - 1) THEN 0
        ELSE IF d \in 55296..57343 \/ d < least[n] THEN 0
        ELSE n

RECURSIVE Utf8From(_, _)
Utf8From(s, i) ==
    i <= Len(s) /\ LET n == detect_utf8_character(s, i) IN n = 0 \/ Utf8From(s, i + n)

validateUtf8Encoding_execute(rule, var, msr) == Match(Utf8From(var.value, 1), msr)

(***************************************************************************)
(* Operators that ask somebody else.                                       *)
(***************************************************************************)
\* env.xml: NULL, well formed or not, and what the library says of it.
validate_xml(msr, env) ==
    IF env.doc_null THEN Answer(-1, msr)
    ELSE IF ~ env.well_formed \/ env.reqbody_error THEN Answer(1, msr)
    ELSE IF ~ env.loaded THEN Answer(-1, msr)
    ELSE Match(~ env.valid, msr)

validateDTD_init(param) == InitAnswer(1, None)
validateSchema_init(param) == InitAnswer(1, None)
validateDTD_execute(rule, var, msr, env) == validate_xml(msr, env)
validateSchema_execute(rule, var, msr, env) == validate_xml(msr, env)

GeoNames == {"COUNTRY_CODE", "COUNTRY_CODE3", "COUNTRY_NAME", "COUNTRY_CONTINENT", "REGION",
             "CITY", "POSTAL_CODE", "LATITUDE", "LONGITUDE", "DMA_CODE", "AREA_CODE"}

\* A failed lookup clears the variables of the last one.
geoLookup_execute(rule, var, msr, env) ==
    IF env.geo_null THEN Answer(0, msr)
    ELSE IF env.rc <= 0 THEN Answer(env.rc, [msr EXCEPT !.geo = <<>>])
    ELSE Answer(1, [msr EXCEPT !.geo = [n \in GeoNames |-> env.rec]])

\* The key is part of the name asked for; a name that resolves is a match
\* whatever the answer means.
rbl_execute(rule, var, msr, env) ==
    IF env.ipv4 /\ rule.list = "httpbl.org" /\ msr.httpBlkey = None THEN Answer(-1, msr)
    ELSE IF ~ env.resolved THEN Answer(0, msr)
    ELSE Answer(1, set_match_to_tx(msr, rule.capture, env.answer, 0))

fuzzy_hash_init(file, threshold, opens) ==
    IF file = <<>> \/ threshold \notin 1..100 \/ ~ opens THEN InitAnswer(-1, None)
    ELSE InitAnswer(1, [file |-> file, threshold |-> threshold])

fuzzy_hash_execute(rule, var, msr, env) ==
    IF ~ env.hashed THEN Answer(-1, msr)
    ELSE IF ~ env.opens THEN Answer(1, msr)
    ELSE Match(\E s \in env.scores : s >= rule.data.threshold, msr)

inspectFile_init(param, lua, compiles) ==
    IF param = <<>> \/ (lua /\ ~ compiles) THEN InitAnswer(-1, None)
    ELSE InitAnswer(1, lua)

inspectFile_execute(rule, var, msr, env) ==
    IF rule.data THEN Answer(IF env.rc < 0 THEN -1 ELSE env.rc, msr)
    ELSE IF env.rc <= 0 \/ env.output = <<>> THEN Answer(-1, msr)
    ELSE Match(env.output[1] # Zero + 1, msr)

(***************************************************************************)
(* gsbLookup: every URL of the value, canonicalized, its prefixes and its  *)
(* parent domains are looked up in a table of hashes.                      *)
(***************************************************************************)
RECURSIVE gsb_replace_tpath(_)
gsb_replace_tpath(s) ==
    LET i == Find(s, <<Slash, Dot, Slash>>)
    IN  IF i = 0 THEN s
        ELSE gsb_replace_tpath(SubSeq(s, 1, i) \o SubSeq(s, i + 3, Len(s)))

gsb_reduce_char(s) ==
    LET out == Scan(LAMBDA t, i : Step(1, IF t[i] \in {Dot, Slash} /\ At(t, i + 1) = t[i]
                                          THEN <<>> ELSE <<t[i]>>, TRUE), s).out
    IN  IF out # <<>> /\ Last(out) = Dot THEN Front(out) ELSE out

verify_gsb(table, s) == s \in table

\* strtok: what stands before the first of the delimiters, leading ones
\* skipped.
Token(s, delim) ==
    LET from == 1 + Run(LAMBDA c : c = delim, s, 1, Len(s))
    IN  SubSeq(s, from, from + Run(LAMBDA c : c # delim, s, from, Len(s)) - 1)

GsbTrim(s) ==
    IF s # <<>> /\ Last(s) = Dot THEN Front(s)
    ELSE IF Len(s) > 1 /\ Last(s) = Slash /\ s[Len(s) - 1] = Dot
    THEN SubSeq(s, 1, Len(s) - 2) \o <<Slash>>
    ELSE s

\* A domain is looked up whole, without its query and, slash by slash, as
\* the path before the slash; the buffer of that path is not terminated,
\* junk is what follows in it.
GsbCandidates(domain, junk) ==
    LET s == GsbTrim(domain)
        base == Token(s, 63)
        slashes == SelectSeq([i \in DOMAIN base |-> i], LAMBDA i : base[i] = Slash)
    IN  IF s = <<>> \/ s[1] = Slash \/ Find(s, <<Dot>>) = 0 THEN <<>>
        ELSE <<s, base>> \o [k \in DOMAIN slashes |->
                                SubSeq(base, 1, slashes[k] - 1) \o junk \o <<Slash>>]

\* The parent domains: what follows each dot, except where the next dot lies
\* further on than the first slash of the whole.
GsbDomains(match) ==
    LET dots == SelectSeq([i \in DOMAIN match |-> i], LAMBDA i : match[i] = Dot)
        slash == Find(match, <<Slash>>) - 1
        After(i) == SubSeq(match, i + 1, Len(match))
        Skipped(i) == LET d == Find(After(i), <<Dot>>) - 1 IN slash >= 0 /\ d > slash
    IN  SelectSeq([k \in DOMAIN dots |-> IF Skipped(dots[k]) THEN <<>> ELSE After(dots[k])],
                  LAMBDA s : s # <<>>)

GsbCanon(s) == lowercase(gsb_reduce_char(gsb_replace_tpath(remove_escape(CString(s))))).out

GsbLookups(match, junk) ==
    LET slashed == IF Last(match) # Slash /\ Find(match, <<63>>) = 0
                   THEN <<match \o <<Slash>>>> ELSE <<>>
    IN  IF match = <<>> \/ Find(match, <<Dot>>) = 0 \/ Find(match, <<104, 116, 116, 112>>) # 0
        THEN <<>>
        ELSE <<match>> \o slashed \o GsbCandidates(match, junk)
             \o FlattenSeq([k \in DOMAIN GsbDomains(match) |->
                               GsbCandidates(GsbDomains(match)[k], junk)])

\* tx.0 is what was found, tx.1 the host.
GsbFound(rule, msr, match, found) ==
    LET shown == IF found = match \o <<Slash>> THEN match ELSE found
    IN  Answer(1, set_match_to_tx(set_match_to_tx(msr, rule.capture, shown, 0),
                                  rule.capture, Token(match, Slash), 1))

gsbLookup_param_init(pattern) == verify_init(pattern)

RECURSIVE GsbFrom(_, _, _, _, _)
GsbFrom(rule, data, offset, msr, junk) ==
    LET m == Exec(rule.data.re, data, offset)
        canon == [i \in DOMAIN m.spans |-> GsbCanon(Sub(data, m.spans[i]))]
        hits(i) == SelectSeq(GsbLookups(canon[i], junk), LAMBDA s : verify_gsb(msr.gsb, s))
        found == {i \in DOMAIN canon : hits(i) # <<>>}
    IN  IF offset >= Len(data) \/ m.rc < 0 THEN Answer(0, msr)
        ELSE IF found # {} THEN GsbFound(rule, msr, canon[Min(found)], hits(Min(found))[1])
        ELSE GsbFrom(rule, data, m.spans[1][2], msr, junk)

gsbLookup_execute(rule, var, msr, junk) ==
    IF msr.gsb = None THEN Answer(0, msr) ELSE GsbFrom(rule, var.value, 0, msr, junk)

(***************************************************************************)
(* The table of the engine.                                                *)
(***************************************************************************)
TextOperators ==
    {"unconditionalMatch", "noMatch", "ipmatch", "ipmatchFromFile", "ipmatchf", "rsub", "rx",
     "validateHash", "pm", "pmFromFile", "pmf", "within", "contains", "containsWord",
     "detectSQLi", "detectXSS", "streq", "beginsWith", "endsWith", "strmatch"}

DataOperators ==
    {"validateDTD", "validateSchema", "verifyCC", "verifyCPF", "verifySSN", "geoLookup",
     "gsbLookup", "rbl", "inspectFile", "fuzzyHash", "validateByteRange",
     "validateUrlEncoding", "validateUtf8Encoding", "eq", "gt", "lt", "le", "ge"}

msre_engine_op_resolve(name) == name \in TextOperators \cup DataOperators

=============================================================================
