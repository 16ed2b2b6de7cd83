-------------------------- MODULE Transformations --------------------------
(***************************************************************************)
(* The transformation functions of re_tfns.c and the decoders of           *)
(* msc_util.c they call.  A string is a sequence of bytes; every function  *)
(* returns the new string and the flag the C function returns: whether it  *)
(* changed the string.  The engine relies on that flag: the cache keeps no *)
(* value that did not change, multiMatch shows the operator only values    *)
(* that changed.                                                           *)
(*                                                                         *)
(* Most functions scan the string: at each place they eat some bytes and   *)
(* emit others.  They work in place; what they emit never overtakes what   *)
(* they have eaten, so a byte is read before it is overwritten             *)
(* (FitsInPlace).  A string is followed by a NUL byte.  md5, sha1 and the  *)
(* base64 functions of APR are not modelled.                               *)
(***************************************************************************)
EXTENDS Integers, Sequences, SequencesExt

Result(s, c) == [out |-> s, changed |-> c]
At(s, i) == IF i <= Len(s) THEN s[i] ELSE 0

Step(n, bytes, c) == [eat |-> n, emit |-> bytes, changed |-> c]

RECURSIVE ScanFrom(_, _, _)
ScanFrom(Next(_, _), s, i) ==
    IF i > Len(s) THEN Result(<<>>, FALSE)
    ELSE LET step == Next(s, i)
             rest == ScanFrom(Next, s, i + step.eat)
         IN  Result(step.emit \o rest.out, step.changed \/ rest.changed)

Scan(Next(_, _), s) == ScanFrom(Next, s, 1)

\* The functions that compare the lengths to tell whether they changed.
ByLength(s, r) == Result(r.out, Len(r.out) # Len(s))
Always(r) == Result(r.out, TRUE)

MapBytes(F(_), s) ==
    LET out == [i \in 1..Len(s) |-> F(s[i])] IN Result(out, out # s)

\* Bytes by name.
Tab == 9
LF == 10
CR == 13
Space == 32
Bang == 33
Quote == 34
Hash == 35
Percent == 37
Amp == 38
Apostrophe == 39
LParen == 40
Star == 42
Plus == 43
Comma == 44
Minus == 45
Dot == 46
Slash == 47
Zero == 48
Semicolon == 59
Less == 60
Equals == 61
Greater == 62
LetterF == 70
LetterX == 88
Backslash == 92
Caret == 94
Lower_a == 97
Lower_f == 102
Lower_u == 117
Lower_x == 120
NBSP == 160

IsSpace(c) == c = Space \/ c \in Tab..CR
IsDigit(c) == c \in 48..57
IsOctal(c) == c \in 48..55
IsAlpha(c) == c \in 65..90 \/ c \in 97..122
ToLower(c) == IF c \in 65..90 THEN c + 32 ELSE c

\* VALID_HEX, x2c and xsingle2c.
ValidHex(c) == IsDigit(c) \/ c \in 65..70 \/ c \in 97..102
Digit(c) == IF c >= 65 THEN c - 32 * ((c \div 32) % 2) - 55 ELSE c - Zero
x2c(a, b) == (16 * Digit(a) + Digit(b)) % 256

HexChar(n) == IF n < 10 THEN Zero + n ELSE Lower_a + n - 10

\* The number of bytes from place i on that satisfy P, at most max.
Run(P(_), s, i, max) ==
    LET stops == {n \in 0..max : n = max \/ ~P(At(s, i + n)) \/ i + n > Len(s)}
    IN  CHOOSE n \in stops : \A m \in stops : n <= m

\* A C string ends at its first NUL.
CString(s) == SubSeq(s, 1, Run(LAMBDA c : c # 0, s, 1, Len(s)))

Number(s, i, n, base) ==
    FoldLeft(LAMBDA v, c : base * v + Digit(c), 0, SubSeq(s, i, i + n - 1))
----------------------------------------------------------------------------
(* White space, NULs, case *)

lowercase(s) == MapBytes(ToLower, s)

trimLeft(s) ==
    LET n == Run(IsSpace, s, 1, Len(s)) IN ByLength(s, Result(SubSeq(s, n + 1, Len(s)), FALSE))

trimRight(s) ==
    LET kept == {n \in 0..Len(s) : \A i \in (n + 1)..Len(s) : IsSpace(s[i])}
        n    == CHOOSE n \in kept : \A m \in kept : n <= m
    IN  ByLength(s, Result(SubSeq(s, 1, n), FALSE))

trim(s) == ByLength(s, trimRight(trimLeft(s).out))

removeNulls(s) ==
    LET out == SelectSeq(s, LAMBDA c : c # 0) IN ByLength(s, Result(out, FALSE))

replaceNulls(s) == MapBytes(LAMBDA c : IF c = 0 THEN Space ELSE c, s)

IsBlank(c) == IsSpace(c) \/ c = NBSP

removeWhitespace(s) ==
    Scan(LAMBDA t, i : IF IsBlank(t[i]) THEN Step(1, <<>>, TRUE)
                       ELSE Step(1, <<t[i]>>, FALSE), s)

\* A run of white space becomes one space, but only a run of two or more
\* counts as a change.
compressWhitespace(s) ==
    Scan(LAMBDA t, i : LET n == Run(IsBlank, t, i, Len(t))
                       IN  IF n > 0 THEN Step(n, <<Space>>, n > 1)
                           ELSE Step(1, <<t[i]>>, FALSE), s)

\* cmdline stops at the first NUL and always claims a change.
cmdline(s) ==
    LET text == SubSeq(s, 1, Run(LAMBDA c : c # 0, s, 1, Len(s)))
        add(l, c) ==
            CASE c \in {Quote, Apostrophe, Backslash, Caret} -> l
              [] c \in {Space, Comma, Semicolon, Tab, CR, LF} ->
                     IF l.space THEN l ELSE [out |-> Append(l.out, Space), space |-> TRUE]
              [] c \in {Slash, LParen} ->
                     [out |-> Append(IF l.space THEN Front(l.out) ELSE l.out, c),
                      space |-> FALSE]
              [] OTHER -> [out |-> Append(l.out, ToLower(c)), space |-> FALSE]
    IN  Result(FoldLeft(add, [out |-> <<>>, space |-> FALSE], text).out, TRUE)

Ones(c) == Len(SelectSeq(<<0, 1, 2, 3, 4, 5, 6, 7>>, LAMBDA b : (c \div 2^b) % 2 = 1))

parityEven7bit(s) ==
    MapBytes(LAMBDA c : (c % 128) + (IF Ones(c) % 2 = 1 THEN 128 ELSE 0), s)

parityOdd7bit(s) ==
    MapBytes(LAMBDA c : (c % 128) + (IF Ones(c) % 2 = 1 THEN 0 ELSE 128), s)

parityZero7bit(s) == MapBytes(LAMBDA c : c % 128, s)

length(s) ==
    LET n == Len(s)
    IN  Result((IF n >= 10 THEN <<Zero + (n \div 10)>> ELSE <<>>) \o <<Zero + (n % 10)>>, TRUE)
----------------------------------------------------------------------------
(* Comments *)

StartsWith(s, i, word) ==
    i + Len(word) - 1 <= Len(s) /\ SubSeq(s, i, i + Len(word) - 1) = word

OpenC == <<Slash, Star>>
CloseC == <<Star, Slash>>
OpenHtml == <<Less, Bang, Minus, Minus>>
CloseHtml == <<Minus, Minus, Greater>>
Dashes == <<Minus, Minus>>

removeCommentsChar(s) ==
    Scan(LAMBDA t, i :
           LET words == SelectSeq(<<OpenC, CloseC, OpenHtml, CloseHtml, Dashes, <<Hash>>>>,
                                  LAMBDA w : StartsWith(t, i, w))
           IN  IF words # <<>> THEN Step(Len(words[1]), <<>>, TRUE)
               ELSE Step(1, <<t[i]>>, FALSE), s)

\* The place from i on where one of the words begins, or after the end.
FirstOf(s, i, words) ==
    LET places == {k \in i..Len(s) : \E w \in words : StartsWith(s, k, w)} \cup {Len(s) + 1}
    IN  CHOOSE k \in places : \A m \in places : k <= m

\* removeComments: a comment and the byte after it go together; the byte is
\* copied unseen, also the NUL when there is none.  An unfinished comment
\* leaves a space.
removeComments(s) ==
    Scan(LAMBDA t, i :
           LET opener == IF StartsWith(t, i, OpenC) THEN 2
                         ELSE IF StartsWith(t, i, OpenHtml) THEN 4 ELSE 0
               close  == FirstOf(t, i + opener, {CloseC, CloseHtml})
               after  == close + (IF StartsWith(t, close, CloseC) THEN 2 ELSE 3)
           IN  IF opener > 0
               THEN IF close > Len(t) THEN Step(Len(t), <<Space>>, TRUE)
                    ELSE Step(after + 1 - i, <<At(t, after)>>, TRUE)
               ELSE IF StartsWith(t, i, Dashes) \/ t[i] = Hash
               THEN Step(Len(t), <<>>, TRUE)
               ELSE Step(1, <<t[i]>>, FALSE), s)

replaceComments(s) ==
    Scan(LAMBDA t, i :
           LET close == FirstOf(t, i + 2, {CloseC})
           IN  IF StartsWith(t, i, OpenC) THEN Step(close + 2 - i, <<Space>>, TRUE)
               ELSE Step(1, <<t[i]>>, FALSE), s)
----------------------------------------------------------------------------
(* URL, hexadecimal and base64 encodings *)

TwoHex(s, i) == i + 1 <= Len(s) /\ ValidHex(s[i]) /\ ValidHex(s[i + 1])
FourHex(s, i) == TwoHex(s, i) /\ TwoHex(s, i + 2)

\* urldecode_nonstrict_inplace_ex.
UrlStep(s, i) ==
    IF s[i] = Percent /\ TwoHex(s, i + 1)
    THEN Step(3, <<x2c(s[i + 1], s[i + 2])>>, TRUE)
    ELSE IF s[i] = Plus THEN Step(1, <<Space>>, TRUE)
    ELSE Step(1, <<s[i]>>, FALSE)

urlDecode(s) == Scan(UrlStep, s)

\* Of a four digit code the low byte counts; full width ASCII is moved.
LowByte(s, i) ==
    LET c == x2c(s[i + 2], s[i + 3])
    IN  IF c \in 1..94 /\ {s[i], s[i + 1]} \subseteq {LetterF, Lower_f} THEN c + 32 ELSE c

\* urldecode_uni_nonstrict_inplace_ex, without a code page.
urlDecodeUni(s) ==
    Scan(LAMBDA t, i :
           IF t[i] = Percent /\ At(t, i + 1) \in {Lower_u, Lower_u - 32}
           THEN IF FourHex(t, i + 2) THEN Step(6, <<LowByte(t, i + 2)>>, TRUE)
                ELSE Step(2, <<t[i], t[i + 1]>>, FALSE)
           ELSE UrlStep(t, i), s)

urlEncode(s) ==
    Scan(LAMBDA t, i :
           LET c == t[i]
           IN  IF c = Space THEN Step(1, <<Plus>>, TRUE)
               ELSE IF c = Star \/ IsDigit(c) \/ IsAlpha(c) THEN Step(1, <<c>>, FALSE)
               ELSE Step(1, <<Percent, HexChar(c \div 16), HexChar(c % 16)>>, TRUE), s)

hexDecode(s) ==
    Result([n \in 1..(Len(s) \div 2) |-> x2c(s[2 * n - 1], s[2 * n])], TRUE)

hexEncode(s) ==
    Result(FlattenSeq([n \in 1..Len(s) |-> <<HexChar(s[n] \div 16), HexChar(s[n] % 16)>>]),
           TRUE)

\* sql_hex2bytes_inplace: the byte behind the digits is copied unseen.
\* Length and end of the string are those of C.
sqlHexDecode(s) ==
    LET text   == SubSeq(s, 1, Run(LAMBDA c : c # 0, s, 1, Len(s)))
        pairs(t, i) == Run(LAMBDA n : TwoHex(t, i + 2 + 2 * n),
                           [n \in 1..Len(t) |-> n - 1], 1, Len(t))
        bytes(t, i) == [n \in 1..pairs(t, i) |-> x2c(t[i + 2 * n], t[i + 2 * n + 1])]
        decoded == Scan(LAMBDA t, i :
                     IF t[i] = Zero /\ ToLower(At(t, i + 1)) = Lower_x /\ pairs(t, i) > 0
                     THEN Step(3 + 2 * pairs(t, i),
                               Append(bytes(t, i), At(t, i + 2 + 2 * pairs(t, i))), TRUE)
                     ELSE Step(1, <<t[i]>>, FALSE), text).out
    IN  Result(SubSeq(decoded, 1, Run(LAMBDA c : c # 0, decoded, 1, Len(decoded))), TRUE)

Base64Value(c) ==
    CASE c \in 65..90 -> c - 65 [] c \in 97..122 -> c - 71 [] IsDigit(c) -> c + 4
      [] c = Plus -> 62 [] c = Slash -> 63 [] OTHER -> -1

\* decode_base64_ext: bytes that are not of the alphabet are passed over; a
\* lonely "=" after one digit of a group refuses the string.
base64DecodeExt(s) ==
    LET text   == SubSeq(s, 1, Run(LAMBDA c : c # 0, s, 1, Len(s)))
        digits == SelectSeq(text, LAMBDA c : Base64Value(c) >= 0)
        before(i) == Len(SelectSeq(SubSeq(text, 1, i), LAMBDA c : Base64Value(c) >= 0))
        refused == \E i \in 1..Len(text) :
                      text[i] = Equals /\ At(text, i + 1) # Equals /\ before(i) % 4 = 1
        v(n) == Base64Value(digits[n])
        byte(j) == LET g == 4 * ((j - 1) \div 3)
                   IN  CASE j % 3 = 1 -> 4 * v(g + 1) + (v(g + 2) \div 16)
                         [] j % 3 = 2 -> 16 * (v(g + 2) % 16) + (v(g + 3) \div 4)
                         [] OTHER     -> 64 * (v(g + 3) % 4) + v(g + 4)
        out == IF refused THEN <<>> ELSE [j \in 1..((3 * Len(digits)) \div 4) |-> byte(j)]
    IN  Result(out, out # <<>>)
----------------------------------------------------------------------------
(* Escapes of C, JavaScript, CSS and HTML *)

\* \a \b \f \n \r \t \v; other bytes stand for themselves.
CEscape(c) ==
    CASE c = 97 -> 7 [] c = 98 -> 8 [] c = 102 -> 12 [] c = 110 -> LF
      [] c = 114 -> CR [] c = 116 -> Tab [] c = 118 -> 11 [] OTHER -> c

\* js_decode_nonstrict_inplace.
JsStep(s, i) ==
    LET octal == Run(IsOctal, s, i + 1, 3)
        j     == IF octal = 3 /\ s[i + 1] > Zero + 3 THEN 2 ELSE octal
    IN  CASE s[i] # Backslash \/ i = Len(s) -> Step(1, <<s[i]>>, FALSE)
          [] At(s, i + 1) = Lower_u /\ FourHex(s, i + 2) ->
                 Step(6, <<LowByte(s, i + 2)>>, TRUE)
          [] At(s, i + 1) = Lower_x /\ TwoHex(s, i + 2) ->
                 Step(4, <<x2c(s[i + 2], s[i + 3])>>, TRUE)
          [] j > 0 -> Step(1 + j, <<Number(s, i + 1, j, 8)>>, TRUE)
          [] OTHER -> Step(2, <<CEscape(At(s, i + 1))>>, TRUE)

jsDecode(s) == ByLength(s, Scan(JsStep, s))

\* ansi_c_sequences_decode_inplace: the backslash of an unknown escape goes.
EscapeStep(s, i) ==
    LET j == Run(IsOctal, s, i + 1, 3)
    IN  CASE s[i] # Backslash \/ i = Len(s) -> Step(1, <<s[i]>>, FALSE)
          [] At(s, i + 1) \in {Lower_x, LetterX} /\ TwoHex(s, i + 2) ->
                 Step(4, <<x2c(s[i + 2], s[i + 3])>>, TRUE)
          [] j > 0 -> Step(1 + j, <<Number(s, i + 1, j, 8) % 256>>, TRUE)
          [] OTHER -> Step(2, <<CEscape(At(s, i + 1))>>, TRUE)

escapeSeqDecode(s) == ByLength(s, Scan(EscapeStep, s))

\* css_decode_inplace: one to six digits, of which the last two count, full
\* width ASCII of four significant ones, and one space after them.
CssStep(s, i) ==
    LET j    == Run(ValidHex, s, i + 1, 6)
        last == i + j
        full == \/ j = 4
                \/ j = 5 /\ s[i + 1] = Zero
                \/ j = 6 /\ s[i + 1] = Zero /\ s[i + 2] = Zero
        code == CASE j = 1 -> Digit(s[i + 1])
                  [] full -> LowByte(s, last - 3)
                  [] OTHER -> x2c(s[last - 1], s[last])
        space == IF last + 1 <= Len(s) /\ IsSpace(s[last + 1]) THEN 1 ELSE 0
    IN  CASE s[i] # Backslash -> Step(1, <<s[i]>>, FALSE)
          [] i = Len(s) -> Step(1, <<>>, TRUE)
          [] j > 0 -> Step(1 + j + space, <<code>>, TRUE)
          [] At(s, i + 1) = LF -> Step(2, <<>>, TRUE)
          [] OTHER -> Step(2, <<At(s, i + 1)>>, TRUE)

cssDecode(s) == ByLength(s, Scan(CssStep, s))

\* quot, amp, lt, gt, nbsp.
Entity(word) ==
    CASE word = <<113, 117, 111, 116>> -> Quote [] word = <<97, 109, 112>> -> Amp
      [] word = <<108, 116>> -> Less [] word = <<103, 116>> -> Greater
      [] word = <<110, 98, 115, 112>> -> NBSP [] OTHER -> 0

\* html_entities_decode_inplace.
HtmlStep(s, i) ==
    LET hex == At(s, i + 2) \in {Lower_x, LetterX}
        k   == CASE At(s, i + 1) # Hash -> i + 1      \* where the name begins
                 [] hex -> i + 3 [] OTHER -> i + 2
        n   == CASE At(s, i + 1) # Hash ->
                        Run(LAMBDA c : IsAlpha(c) \/ IsDigit(c), s, k, Len(s))
                 [] hex -> Run(ValidHex, s, k, Len(s))
                 [] OTHER -> Run(IsDigit, s, k, Len(s))
        code == CASE At(s, i + 1) # Hash ->
                        Entity([m \in 1..n |-> ToLower(s[k + m - 1])])
                  [] OTHER -> Number(s, k, n, IF hex THEN 16 ELSE 10) % 256
        copy == IF At(s, i + 1) = Hash THEN k - i ELSE n + 1
        past == IF At(s, k + n) = Semicolon THEN k + n + 1 ELSE k + n
    IN  IF s[i] # Amp \/ i = Len(s) THEN Step(1, <<s[i]>>, FALSE)
        ELSE IF n = 0 \/ (At(s, i + 1) # Hash /\ code = 0)
        THEN Step(copy, SubSeq(s, i, i + copy - 1), FALSE)
        ELSE Step(past - i, <<code>>, TRUE)

htmlEntityDecode(s) == ByLength(s, Scan(HtmlStep, s))
----------------------------------------------------------------------------
(* UTF-8 *)

Continues(s, i, n) == \A k \in 1..n : At(s, i + k) \in 128..191

\* The length of the character at place i, 0 if it is invalid.  The check
\* for missing bytes compares with the whole length of the string.
Utf8Length(s, i) ==
    LET c == s[i]
    IN  CASE c \in 192..223 -> IF Len(s) >= 2 /\ Continues(s, i, 1) THEN 2 ELSE 0
          [] c \in 224..239 -> IF Len(s) >= 3 /\ Continues(s, i, 2) THEN 3 ELSE 0
          [] c \in 240..247 -> IF Len(s) >= 4 /\ Continues(s, i, 3) THEN 4 ELSE 0
          [] OTHER -> 0

Utf8Code(s, i, n) ==
    FoldLeft(LAMBDA v, c : 64 * v + (c % 64),
             s[i] % (CASE n = 2 -> 32 [] n = 3 -> 16 [] OTHER -> 8),
             SubSeq(s, i + 1, i + n - 1))

RECURSIVE HexDigits(_)
HexDigits(d) == IF d < 16 THEN <<HexChar(d)>> ELSE Append(HexDigits(d \div 16), HexChar(d % 16))

Padded(digits) == SubSeq(<<Zero, Zero, Zero>>, 1, 4 - Len(digits)) \o digits

\* utf8_unicode_inplace_ex: %uHHHH for every sequence; the first byte again
\* after surrogates and overlong forms; invalid bytes and NULs vanish.
Utf8Step(s, i) ==
    LET c == s[i]
        n == Utf8Length(s, i)
        d == IF n > 0 THEN Utf8Code(s, i, n) ELSE 0
        overlong == n > 0 /\ d < (CASE n = 4 -> 65536 [] n = 3 -> 2048 [] OTHER -> 128)
        extra == (IF d \in 55296..57343 THEN <<c>> ELSE <<>>)
                 \o (IF overlong THEN <<c>> ELSE <<>>)
        beyond == IF c \in 245..247 THEN <<c>> ELSE <<>>
    IN  CASE c < 128 -> Step(1, IF c = 0 THEN <<>> ELSE <<c>>, FALSE)
          [] c \in 128..191 \cup 248..255 -> Step(1, <<c>>, FALSE)
          [] n = 0 -> Step(1, beyond, FALSE)
          [] OTHER -> Step(n, beyond \o <<Percent, Lower_u>> \o Padded(HexDigits(d))
                              \o extra, TRUE)

utf8toUnicode(s) == Scan(Utf8Step, s)
----------------------------------------------------------------------------
(* Paths *)

\* The loop of normalize_path_inplace.  buf is the input (backslashes are
\* converted as they are met), src the place read next, out what lies
\* before dst.
PathState(buf, src, out, hitroot, changed, done) ==
    [buf |-> buf, src |-> src, out |-> out, hitroot |-> hitroot,
     changed |-> changed, done |-> done]

\* Windows: a backslash here or at the next place becomes a slash.
Backslashes(p, win) ==
    LET here == {k \in {p.src, p.src + 1} : win /\ At(p.buf, k) = Backslash}
    IN  [p EXCEPT !.buf = [k \in DOMAIN @ |-> IF k \in here THEN Slash ELSE @[k]],
                  !.changed = @ \/ here # {}]

\* The copy: of several slashes the last one, and none at the beginning of
\* a relative path.
CopyByte(p, win, relative) ==
    LET more == Run(LAMBDA c : c = Slash \/ (win /\ c = Backslash), p.buf, p.src + 1, Len(p.buf))
        src  == IF p.buf[p.src] = Slash THEN p.src + more ELSE p.src
        q    == [p EXCEPT !.changed = @ \/ src # p.src, !.src = src + 1]
    IN  IF p.buf[p.src] = Slash /\ relative /\ p.out = <<>> THEN q
        ELSE [q EXCEPT !.out = Append(@, p.buf[src])]

\* Take the reference and the segment before it back.
BackReference(p, relative) ==
    LET places == {d \in 1..(Len(p.out) - 3) : p.out[d + 1] = Slash}
        d == IF places = {} THEN 0 ELSE CHOOSE d \in places : \A e \in places : d >= e
    IN  [p EXCEPT !.hitroot = @ \/ d = 0,
                  !.out = SubSeq(@, 1, IF d = 0 /\ ~relative /\ p.done THEN 1 ELSE d)]

\* Mutant: a reference at the beginning of a path takes nothing back.
PathStepKeepsRoot(p0, win, relative) ==
    LET p1 == Backslashes(p0, win)
        p  == [p1 EXCEPT !.done = (p1.src = Len(p1.buf))]
        c  == p.buf[p.src]
    IN  IF ~p.done /\ p.buf[p.src + 1] # Slash THEN CopyByte(p, win, relative)
        ELSE IF ~p.done /\ c = Slash
        THEN CopyByte([p EXCEPT !.changed = TRUE], win, relative)
        ELSE IF c = Dot /\ p.out # <<>> /\ Last(p.out) = Slash
        THEN IF p.done THEN [p EXCEPT !.changed = TRUE]
             ELSE CopyByte([p EXCEPT !.changed = TRUE, !.out = Front(@),
                                     !.src = @ + 1], win, relative)
        ELSE CopyByte(p, win, relative)

\* One turn of the loop.
PathStep(p0, win, relative) ==
    LET p1 == Backslashes(p0, win)
        p  == [p1 EXCEPT !.done = (p1.src = Len(p1.buf))]
        c  == p.buf[p.src]
        change(q) == [q EXCEPT !.changed = TRUE]
    IN  IF ~p.done /\ p.buf[p.src + 1] # Slash THEN CopyByte(p, win, relative)
        ELSE IF ~p.done /\ c = Slash THEN CopyByte(change(p), win, relative)
        ELSE IF c = Dot /\ p.out # <<>> /\ Last(p.out) = Dot
        THEN IF relative /\ (p.hitroot \/ Len(p.out) <= 2)
             THEN CopyByte([p EXCEPT !.hitroot = TRUE], win, relative)
             ELSE LET q == BackReference(p, relative)
                  IN  IF p.done THEN q     \* and no change is reported
                      ELSE CopyByte(change([q EXCEPT !.src = @ + 1]), win, relative)
        ELSE IF c = Dot /\ (p.out = <<>> \/ Last(p.out) = Slash)
        THEN IF p.done THEN change(p)
             ELSE CopyByte(change([p EXCEPT !.src = @ + 1,
                                            !.out = IF @ = <<>> THEN @ ELSE Front(@)]),
                           win, relative)
        ELSE IF c # Dot /\ p.out # <<>>
        THEN CopyByte([p EXCEPT !.hitroot = FALSE], win, relative)
        ELSE CopyByte(p, win, relative)

RECURSIVE PathLoop(_, _, _)
PathLoop(p, win, relative) ==
    IF p.done \/ p.src > Len(p.buf) THEN p
    ELSE PathLoop(PathStep(p, win, relative), win, relative)

normalizePathWith(s, win) ==
    LET sep(c)   == c = Slash \/ (win /\ c = Backslash)
        relative == ~sep(s[1])
        Chopped(out) == IF ~sep(s[Len(s)]) /\ out # <<>> /\ Last(out) = Slash THEN Front(out) ELSE out
        Finish(p) == Result(Chopped(p.out), p.changed)
    IN  IF s = <<>> THEN Result(s, FALSE)
        ELSE Finish(PathLoop(PathState(s, 1, <<>>, FALSE, FALSE, FALSE), win, relative))

normalizePath(s) == normalizePathWith(s, FALSE)
normalizePathWin(s) == normalizePathWith(s, TRUE)
----------------------------------------------------------------------------
(* The table of msre_engine_register_default_tfns *)

Names == {"base64DecodeExt", "cmdline", "compressWhitespace", "cssDecode",
          "escapeSeqDecode", "hexDecode", "hexEncode", "htmlEntityDecode", "jsDecode",
          "length", "lowercase", "normalizePath", "normalizePathWin",
          "parityEven7bit", "parityOdd7bit", "parityZero7bit", "removeComments",
          "removeCommentsChar", "removeNulls", "removeWhitespace", "replaceComments",
          "replaceNulls", "sqlHexDecode", "trim", "trimLeft", "trimRight",
          "urlDecode", "urlDecodeUni", "urlEncode", "utf8toUnicode"}

Apply(t, s) ==
    CASE t = "base64DecodeExt" -> base64DecodeExt(s) [] t = "cmdline" -> cmdline(s)
      [] t = "compressWhitespace" -> compressWhitespace(s)
      [] t = "cssDecode" -> cssDecode(s) [] t = "escapeSeqDecode" -> escapeSeqDecode(s)
      [] t = "hexDecode" -> hexDecode(s) [] t = "hexEncode" -> hexEncode(s)
      [] t = "htmlEntityDecode" -> htmlEntityDecode(s) [] t = "jsDecode" -> jsDecode(s)
      [] t = "length" -> length(s) [] t = "lowercase" -> lowercase(s)
      [] t = "normalizePath" -> normalizePath(s)
      [] t = "normalizePathWin" -> normalizePathWin(s)
      [] t = "parityEven7bit" -> parityEven7bit(s)
      [] t = "parityOdd7bit" -> parityOdd7bit(s)
      [] t = "parityZero7bit" -> parityZero7bit(s)
      [] t = "removeComments" -> removeComments(s)
      [] t = "removeCommentsChar" -> removeCommentsChar(s)
      [] t = "removeNulls" -> removeNulls(s)
      [] t = "removeWhitespace" -> removeWhitespace(s)
      [] t = "replaceComments" -> replaceComments(s)
      [] t = "replaceNulls" -> replaceNulls(s) [] t = "sqlHexDecode" -> sqlHexDecode(s)
      [] t = "trim" -> trim(s) [] t = "trimLeft" -> trimLeft(s)
      [] t = "trimRight" -> trimRight(s) [] t = "urlDecode" -> urlDecode(s)
      [] t = "urlDecodeUni" -> urlDecodeUni(s) [] t = "urlEncode" -> urlEncode(s)
      [] t = "utf8toUnicode" -> utf8toUnicode(s)

\* The functions that write into the buffer they read.
InPlace == Names \ {"base64DecodeExt", "hexEncode", "length", "urlEncode", "utf8toUnicode"}
=============================================================================
