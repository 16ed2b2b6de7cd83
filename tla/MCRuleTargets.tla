--------------------------- MODULE MCRuleTargets ---------------------------
(* Three arguments, one of which no transformation changes and two with one *)
(* text, and a header that may not be cached; a transformation that reports *)
(* truly, one that always reports a change (hexDecode, the hashes), and one *)
(* that changes the text of x and of no other without reporting it (a       *)
(* single tab under compressWhitespace).                                    *)
EXTENDS RuleTargets, SequencesExt

MCVariables == [ARGS |-> <<"x", "y", "z">>, X |-> <<"x">>, HDR |-> <<"HDR">>]

\* A text: where it comes from, and the transformations that changed it.
MCText(name, counting) == [from |-> <<IF name = "z" THEN "x" ELSE name, counting>>,
                           applied |-> <<>>]
MCTfn(t, text) ==
    IF \/ text.from[1] = "y"
       \/ \E n \in DOMAIN text.applied : text.applied[n] = t
    THEN text ELSE [text EXCEPT !.applied = Append(@, t)]
MCReports(t, text) ==
    t = "b" \/ (MCTfn(t, text) # text /\ (t = "c" => text.from[1] # "x"))
TrueReports(t, text) == MCTfn(t, text) # text

MCTexts == {[from |-> f, applied |-> s] :
               f \in {"x", "y", "ARGS", "X", "HDR"} \X BOOLEAN,
               s \in {q \in BoundedSeq({"a", "b", "c"}, 3) :
                         \A m, n \in DOMAIN q : m # n => q[m] # q[n]}}

MCPrefix(text) == text.from
SharedPrefix(text) == text.from[2]

MCConfigs == [enabled : {TRUE}, maxitems : {0, 3}, incremental : BOOLEAN]
             \cup [enabled : {FALSE}, maxitems : {0}, incremental : {TRUE}]

T(n) == [name |-> n, minus |-> FALSE]
Target(n) == [name |-> n, count |-> FALSE, negated |-> FALSE]

TfnLists == {<<T("a")>>, <<T("a"), T("c")>>, <<T("c"), T("a")>>, <<T("b"), T("a")>>,
             <<T("b"), T("none"), T("a"), T("b"), T("a")>>,
             <<T("b"), [name |-> "b", minus |-> TRUE], T("a")>>}

MCRules ==
    [targets : {<<Target("ARGS")>>}, tfns : TfnLists \cup {<<>>}, multi : BOOLEAN,
     except : {{}}]
    \cup
    [targets : {<<Target("HDR"), Target("ARGS"), [Target("X") EXCEPT !.negated = TRUE]>>,
                <<[Target("X") EXCEPT !.count = TRUE], Target("X")>>},
     tfns : {<<T("b"), T("a")>>}, multi : BOOLEAN, except : {{}, {"x"}}]
=============================================================================
