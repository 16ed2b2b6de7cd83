---------------------------- MODULE Transaction ----------------------------
(***************************************************************************)
(* One transaction from the first hook to the audit log: the hooks of      *)
(* mod_security2.c, the five phases of modsecurity.c, interception, the    *)
(* output filter of apache2_io.c and the decision to log.                  *)
(*                                                                         *)
(* The rules of a phase are any of the outcomes msre_ruleset_process_phase *)
(* can have (module RuleEngine models how it comes to one).  The response  *)
(* is the sequence <<1, ..., n>> of its units, cut into brigades as the    *)
(* handler likes; what the server does with an error is external: it sends *)
(* an error page through the filters the error hook inserts, or follows an *)
(* ErrorDocument in an internal redirect.                                  *)
(***************************************************************************)
EXTENDS Integers, Sequences, FiniteSets, SequencesExt

CONSTANTS Configs,        \* the configurations (txcfg) under study
          MaxPage,        \* bound: units of a response
          MaxBrigade,     \* bound: units of one brigade
          Eos,            \* the bucket that ends a response
          Page,           \* a unit of the error page
          Pre, App,       \* the content rules prepend and append
          Stream,         \* the body a rule has rewritten (STREAM_OUTPUT_BODY)
          Null            \* a response body that was not read

Denials == {"deny", "drop", "redirect", "proxy", "block"}
Allows == {"allow", "allow_phase", "allow_request", "pause"}
Modes == {"On", "DetectionOnly", "Off"}
Logging == {"On", "Off", "Relevant"}

ASSUME TransactionBounds == MaxPage \in Nat /\ MaxBrigade \in Nat \ {0}

ASSUME ConfigsAssumption ==
    \A c \in Configs :
        /\ c.enabled \in Modes /\ c.enabled2 \in Modes /\ c.connEngine \in Modes
        /\ c.ctlEngine \subseteq Modes /\ c.actions \subseteq Denials \cup Allows
        /\ c.auditlog \in Logging /\ c.keepFiles \in Logging
        /\ {c.early, c.injection, c.stream, c.reqAccess, c.longRequest, c.reject,
            c.readFails, c.resAccess, c.mime, c.ofPartial, c.lengthKnown,
            c.relevantStatus, c.noContext} \subseteq BOOLEAN
        /\ c.ofLimit \in Nat

\* What goes through the filters: units of a response and special buckets.
Bucket == Nat \cup {Eos, Page, Pre, App, Stream}
Data == Seq(Bucket)

ASSUME BucketsAssumption ==
    /\ {Eos, Page, Pre, App, Stream} \cap Nat = {}
    /\ Eos \notin {Page, Pre, App, Stream}
    /\ Null \notin Data

VARIABLES
    cfg,       \* the configuration the transaction runs with
    msr,       \* the fields of modsec_rec
    pc,        \* where the server is
    source,    \* what writes the response: "handler" or "error"
    left,      \* units of the response its source has still to write
    inChain,   \* MODSECURITY_OUT is in the chain of output filters
    sent,      \* what went down the chain behind MODSECURITY_OUT
    page,      \* the response of the handler (history)
    ran,       \* the phases whose rules ran, in order (history)
    denied,    \* the phase whose interception ended the transaction, or 0
    audited    \* entries written to the audit log

vars == <<cfg, msr, pc, source, left, inChain, sent, page, ran, denied, audited>>

----------------------------------------------------------------------------
(* Phases *)

\* create_tx_context and modsecurity_tx_init: the fields the hooks use.
NewContext(c) ==
    [exists |-> TRUE, phase |-> 0, enabled |-> c.enabled, intercepted |-> FALSE,
     action |-> "none", log |-> TRUE, auditlog |-> TRUE, scope |-> "none",
     user |-> "unset", bodyComplete |-> FALSE, relevant |-> 0,
     wanted |-> FALSE, inbound |-> FALSE,
     outbound |-> FALSE, prepend |-> FALSE, append |-> FALSE,
     ofStatus |-> "not_started", skipping |-> FALSE, partial |-> FALSE,
     doneReading |-> FALSE, isError |-> FALSE, resLen |-> 0, brigade |-> <<>>,
     resbody |-> Null, streamChanged |-> FALSE, filesKept |-> FALSE]

\* internal_log_ex: a message of level 1 to 3 marks the transaction relevant
\* (wanted is history: something asked for an entry in the audit log).
Message(m) == [m EXCEPT !.relevant = @ + 1, !.wanted = TRUE]

\* What the rules of a phase can do to the transaction: nothing, a warning,
\* set the content to inject, rewrite the response, switch the engine
\* (ctl:ruleEngine), ask for an interception, fail.  In detection-only mode
\* and in phase 5 a disruptive action is a warning.
Match(m, audit) == [m EXCEPT !.relevant = IF audit THEN @ + 1 ELSE @,
                            !.wanted = @ \/ audit]

RulesOutcomes(m, c) ==
    {[m |-> m, rc |-> rc] : rc \in {0, -1}}
    \cup {[m |-> Match(m, audit), rc |-> 0] : audit \in BOOLEAN}
    \cup {[m |-> [m EXCEPT !.prepend = @ \/ inject, !.append = @ \/ inject], rc |-> 0]
             : inject \in {c.injection /\ m.phase < 4}}
    \cup {[m |-> [m EXCEPT !.streamChanged = @ \/ change], rc |-> 0]
             : change \in {c.stream /\ m.phase = 4}}
    \cup {[m |-> [m EXCEPT !.enabled = e, !.user = e], rc |-> 0] : e \in c.ctlEngine}
    \cup {[m |-> [Match(m, d.auditlog) EXCEPT !.intercepted = TRUE, !.action = d.action,
                                              !.log = d.log, !.auditlog = d.auditlog], rc |-> 1]
             : d \in [action : {a \in c.actions : m.phase < 5 /\ m.enabled = "On"},
                      log : BOOLEAN, auditlog : BOOLEAN]}

\* The phase is skipped for what an allow action has let through.
PhaseAllowed(m, phase) ==
    CASE phase = 2 -> m.scope \in {"allow", "allow_request"}
      [] phase \in {3, 4} -> m.scope = "allow"
      [] OTHER -> FALSE

\* Mutant: a phase may run again as long as no later one has.
ProcessPhaseAgain(m, phase, c) ==
    IF (m.intercepted /\ phase # 5) \/ m.phase > phase
    THEN {[m |-> m, rc |-> 0, ran |-> FALSE]}
    ELSE LET n == [m EXCEPT !.phase = phase]
         IN  IF PhaseAllowed(m, phase)
             THEN {[m |-> n, rc |-> 0, ran |-> FALSE]}
             ELSE {[m |-> o.m, rc |-> o.rc, ran |-> TRUE] : o \in RulesOutcomes(n, c)}

\* modsecurity_process_phase: never after an interception, but for logging,
\* and never twice.  The transformation cache it clears is not modelled.
ProcessPhase(m, phase, c) ==
    IF (m.intercepted /\ phase # 5) \/ m.phase >= phase
    THEN {[m |-> m, rc |-> 0, ran |-> FALSE]}
    ELSE LET n == [m EXCEPT !.phase = phase]
         IN  IF PhaseAllowed(m, phase)
             THEN {[m |-> n, rc |-> 0, ran |-> FALSE]}
             ELSE {[m |-> o.m, rc |-> o.rc, ran |-> TRUE] : o \in RulesOutcomes(n, c)}

\* The status that ends the transaction, with the level of the message; the
\* proxy works in the request phases only, and a connection may refuse to be
\* closed.  ("block" stands for an action perform_interception does not know.)
InterceptionStatus(m) ==
    CASE m.action \in Allows -> {[status |-> "DECLINED", forced |-> FALSE]}
      [] m.action = "deny" -> {[status |-> "denied", forced |-> f] : f \in BOOLEAN}
      [] m.action = "redirect" -> {[status |-> "denied", forced |-> FALSE]}
      [] m.action = "drop" -> {[status |-> "denied", forced |-> TRUE],
                               [status |-> "dropped", forced |-> FALSE]}
      [] m.action = "proxy" /\ m.phase < 3 ->
           {[status |-> "denied", forced |-> TRUE],     \* without mod_proxy
            [status |-> "proxied", forced |-> FALSE]}
      [] OTHER -> {[status |-> "denied", forced |-> TRUE]}

\* perform_interception: its status, with the relevance the alert adds taken
\* back when the rule says noauditlog.
InterceptionDoubleCount(m) ==       \* Mutant: without the compensation.
    {[status |-> s.status,
      m |-> LET level == IF m.log \/ s.forced THEN 1 ELSE 4
            IN  [m EXCEPT
                   !.relevant = IF level <= 3 THEN @ + 1 ELSE @,
                   !.intercepted = m.action \notin Allows,
                   !.scope = IF m.action \notin Allows THEN @
                             ELSE IF m.action = "pause" THEN "allow" ELSE m.action]]
        : s \in InterceptionStatus(m)}

PerformInterception(m) ==
    {[status |-> s.status,
      m |-> LET level == IF m.log \/ s.forced THEN 1 ELSE 4
            IN  [m EXCEPT
                   !.relevant = @ + (IF level <= 3 THEN 1 ELSE 0)
                                  - (IF ~m.auditlog /\ level <= 3 THEN 1 ELSE 0),
                   !.intercepted = m.action \notin Allows,
                   !.scope = IF m.action \notin Allows THEN @
                             ELSE IF m.action = "pause" THEN "allow" ELSE m.action]]
        : s \in InterceptionStatus(m)}

\* A phase asked for by a hook or by the filter, with the interception it
\* leads to: the status of the hook.
PhaseAndIntercept(m, phase, c) ==
    UNION {IF p.rc > 0
           THEN {[m |-> i.m, status |-> i.status, ran |-> p.ran]
                   : i \in PerformInterception(p.m)}
           ELSE {[m |-> p.m, ran |-> p.ran,
                  status |-> IF p.rc < 0 THEN "error" ELSE "DECLINED"]}
             : p \in ProcessPhase(m, phase, c)}

Ran(o, phase) == ran' = IF o.ran THEN Append(ran, phase) ELSE ran
Deny(o, phase) ==
    denied' = IF o.status \in {"denied", "dropped"} THEN phase ELSE denied
----------------------------------------------------------------------------
(* The hooks *)

Units(n) == [i \in 1..n |-> i]

Init ==
    /\ cfg \in Configs
    /\ msr = [NewContext(cfg) EXCEPT !.exists = FALSE]
    /\ pc = "connect"
    /\ source = "handler"
    /\ \E n \in 0..MaxPage : page = Units(n)
    /\ left = page
    /\ inChain = FALSE
    /\ sent = <<>>
    /\ ran = <<>>
    /\ denied = 0
    /\ audited = 0

\* Where the server goes with the status of a hook.  A dropped connection
\* can carry no error page.
Continue(status, next) ==
    pc' = CASE status \in {"denied", "refused"} -> "error"
            [] status = "dropped" -> "log"
            [] OTHER -> next

Over(c) == c.reqAccess /\ c.longRequest

\* hook_connection_early: too many busy workers of one client, unless a list
\* of suspects leaves the client out or the whitelist has it.  Only the limit
\* on reading rejects: "!conn_limits_filter_state == MODSEC_ENABLED" compares
\* 0 or 1 with 2, so the limit on writing is only reported.
Exceeds(l) == l.busy > l.limit /\ l.limit > 0 /\ l.suspect # "other" /\ ~l.white
ConnectionEarly(c) ==
    IF Exceeds(c.read) /\ c.connEngine = "On" THEN "OK" ELSE "DECLINED"

HookConnectionEarly ==
    /\ pc = "connect"
    /\ pc' = IF ConnectionEarly(cfg) = "OK" THEN "done" ELSE "early"
    /\ UNCHANGED <<cfg, msr, source, left, inChain, sent, page, ran, denied, audited>>

\* The request never comes to the first hook (it is malformed), or
\* create_tx_context fails.
NoContextEarly ==
    /\ pc = "early"
    /\ cfg.noContext
    /\ pc' \in {"late", "error"}
    /\ UNCHANGED <<cfg, msr, source, left, inChain, sent, page, ran, denied, audited>>

\* hook_error_log: a message about a request without a context makes one,
\* wherever the request is by then.
HookErrorLog ==
    /\ ~msr.exists
    /\ pc \in {"late", "insert", "error", "respond", "log"}
    /\ msr' = NewContext(cfg)
    /\ UNCHANGED <<cfg, pc, source, left, inChain, sent, page, ran, denied, audited>>

\* Every hook declines without a context (retrieve_tx_context).
HookWithoutContext ==
    /\ ~msr.exists
    /\ pc \in {"late", "insert", "error", "log"}
    /\ pc' = CASE pc = "late" -> "insert" [] pc = "log" -> "done" [] OTHER -> "respond"
    /\ source' = IF pc = "error" THEN "error" ELSE source
    /\ left' = IF pc = "error" THEN <<Page>> ELSE left
    /\ UNCHANGED <<cfg, msr, inChain, sent, page, ran, denied, audited>>

\* hook_request_early: phase 1 if the build says so, and the limit of the
\* request body (refused with 413 outside detection-only mode).
HookRequestEarly ==
    /\ pc = "early"
    /\ IF cfg.early /\ cfg.enabled # "Off"
       THEN \E o \in PhaseAndIntercept(NewContext(cfg), 1, cfg) :
              LET over == /\ o.status \in {"DECLINED", "error"}
                          /\ o.m.enabled # "Off" /\ Over(cfg)
                  refuse == over /\ o.m.enabled = "On" /\ cfg.reject
              IN  /\ msr' = IF over THEN Message(o.m) ELSE o.m
                  /\ Ran(o, 1)
                  /\ Deny(o, 1)
                  /\ Continue(IF refuse THEN "refused" ELSE o.status, "late")
       ELSE /\ pc' = "late"
            /\ msr' = NewContext(cfg)
            /\ UNCHANGED <<ran, denied>>
    /\ UNCHANGED <<cfg, source, left, inChain, sent, page, audited>>

\* hook_request_late once the engine is known to run: the limit, the body
\* (module RequestBody; reading may end the transaction with an error) and
\* phase 2.
LateBody(m) ==
    LET seen == IF Over(cfg) THEN [Message(m) EXCEPT !.inbound = TRUE] ELSE m
    IN  IF Over(cfg) /\ m.enabled = "On" /\ cfg.reject
        THEN {[m |-> seen, status |-> "refused", ran |-> FALSE]}
        ELSE PhaseAndIntercept(seen, 2, cfg) \cup
             (IF cfg.readFails
              THEN {[m |-> n, status |-> "refused", ran |-> FALSE] : n \in {seen, Message(seen)}}
              ELSE {})

\* hook_request_late: the configuration of the directory, with what rules of
\* phase 1 have set; phase 1, if it has not its own hook; the body.
HookRequestLate ==
    /\ pc = "late"
    /\ msr.exists
    /\ LET begun == [msr EXCEPT !.bodyComplete = TRUE,
                         !.enabled = IF msr.user = "unset" THEN cfg.enabled2 ELSE msr.user]
       IN  IF begun.enabled = "Off"
           THEN msr' = begun /\ pc' = "insert" /\ UNCHANGED <<ran, denied>>
           ELSE \E o \in IF cfg.early
                         THEN {[m |-> begun, status |-> "DECLINED", ran |-> FALSE]}
                         ELSE PhaseAndIntercept(begun, 1, cfg) :
                  IF o.status \in {"DECLINED", "error"} /\ o.m.enabled # "Off"
                  THEN \E b \in LateBody(o.m) :
                         /\ msr' = b.m
                         /\ ran' = ran \o (IF o.ran THEN <<1>> ELSE <<>>)
                                       \o (IF b.ran THEN <<2>> ELSE <<>>)
                         /\ Deny(b, 2)
                         /\ Continue(b.status, "insert")
                  ELSE /\ msr' = o.m
                       /\ Ran(o, 1)
                       /\ Deny(o, 1)
                       /\ Continue(o.status, "insert")
    /\ UNCHANGED <<cfg, source, left, inChain, sent, page, audited>>

\* hook_insert_filter, for the main request.
HookInsertFilter ==
    /\ pc = "insert"
    /\ msr.exists
    /\ inChain' = (msr.enabled # "Off" /\ msr.ofStatus # "complete")
    /\ pc' = "respond"
    /\ UNCHANGED <<cfg, msr, source, left, sent, page, ran, denied, audited>>

\* The server answers with its own error page: hook_insert_error_filter puts
\* the filter into the chain, unless the engine is off or the filter is
\* done.  Or it follows an ErrorDocument: the redirected request passes the
\* hooks of the module untouched (r->prev is set) and has no output filter.
HookInsertErrorFilter ==
    /\ pc = "error"
    /\ msr.exists
    /\ \/ /\ inChain' = (msr.enabled # "Off" /\ msr.ofStatus # "complete")
          /\ msr' = [msr EXCEPT !.isError = @ \/ inChain']
       \/ /\ inChain' = FALSE
          /\ UNCHANGED msr
    /\ source' = "error"
    /\ left' = <<Page>>
    /\ pc' = "respond"
    /\ UNCHANGED <<cfg, sent, page, ran, denied, audited>>
----------------------------------------------------------------------------
(* The output filter *)

\* The next brigade of the source: some of the units it has left, with the
\* end of the response when nothing is left.
Brigades ==
    {[data |-> SubSeq(left, 1, n), eos |-> e]
        : n \in 0..(IF Len(left) < MaxBrigade THEN Len(left) ELSE MaxBrigade),
          e \in BOOLEAN}
Brigade == {b \in Brigades : /\ b.eos => Len(b.data) = Len(left)
                             /\ b.eos \/ b.data # <<>>}

\* output_filter_should_run and output_filter_init: 1 observe, 0 do not, -1
\* error, -2 too large.  The length is looked at only if it is known and
\* partial processing is not wanted.
FilterInit(m, c) ==
    IF ~c.resAccess \/ ~c.mime THEN 0
    ELSE IF c.ofPartial \/ ~c.lengthKnown \/ source = "error" THEN 1
    ELSE IF page = <<>> THEN 0
    ELSE IF Len(page) > c.ofLimit THEN -2 ELSE 1

\* send_error_bucket: the filter is out of the chain; the server sends its
\* error page unless part of the response is already gone.
ErrorBucket(m, phase, o) ==
    /\ msr' = m
    /\ inChain' = FALSE
    /\ pc' = IF sent = <<>> /\ o # "dropped" THEN "error" ELSE "log"
    /\ UNCHANGED <<left, sent>>
    /\ denied' = IF phase > 0 THEN phase ELSE denied

Injected(c, flag, what) == IF c.injection /\ flag THEN <<what>> ELSE <<>>

\* Phase 3, on the first call: what the filter will do with the response.
FirstCall(m, c) ==
    {IF o.status \notin {"DECLINED", "proxied"}
     THEN [m |-> IF o.status = "error" THEN o.m ELSE [o.m EXCEPT !.ofStatus = "complete"],
           ran |-> o.ran, status |-> o.status, head |-> <<>>]
     ELSE LET rc == FilterInit(o.m, c)
              n  == [o.m EXCEPT !.ofStatus = "in_progress", !.outbound = rc = -2,
                                !.skipping = rc = 0]
          IN  IF rc < 0
              THEN [m |-> Message([n EXCEPT !.ofStatus = "complete"]),
                    ran |-> o.ran, status |-> "large", head |-> <<>>]
              ELSE [m |-> n, ran |-> o.ran, status |-> "go",
                    head |-> IF n.skipping THEN Injected(c, n.prepend, Pre) ELSE <<>>]
        : o \in PhaseAndIntercept(m, 3, c)}

\* The loop over the buckets of a brigade that is observed (one for each
\* unit, and the end of the response): the size is compared before a bucket
\* is counted, so that the bucket that exceeds the limit is noticed at the
\* next one.  There the size is set back to the limit, counting goes on, and
\* it is set back again at every second bucket and at the end.
Buckets(b) == b.data \o (IF b.eos THEN <<Eos>> ELSE <<>>)

Observe(m, b, limit) ==
    LET size == m.resLen + Len(b.data)
        over == m.resLen + Len(Buckets(b)) > limit + 1
    IN  [over |-> over,
         len  |-> IF ~over THEN size
                  ELSE IF b.eos THEN limit ELSE limit + ((size - limit) % 2)]

\* flatten_response_body: what the rules of phase 4 see.  The end of the
\* response is the last bucket of the brigade that was kept.
WithoutEos(s) == IF s # <<>> /\ Last(s) = Eos THEN Front(s) ELSE s
Flatten(m) ==
    LET data == WithoutEos(m.brigade)
    IN  [m EXCEPT !.resbody = SubSeq(data, 1, IF m.resLen < Len(data) THEN m.resLen
                                              ELSE Len(data))]

\* inject_content_to_of_brigade, prepend_content_to_of_brigade and the
\* content appended before the end.
InjectStream(m, c) ==
    IF m.streamChanged /\ c.injection THEN <<Stream, Eos>> ELSE m.brigade
BeforeEosLate(s, what) == s \o what     \* Mutant: appended after the end.
BeforeEos(s, what) == Front(s) \o what \o <<Eos>>

\* A brigade that the filter does not look at goes on; at the end phase 4
\* runs, with nothing to see, and may still intercept.
PassOn(m, o, b, head, c) ==
    LET tail == IF b.eos THEN Injected(c, m.append, App) \o <<Eos>> ELSE <<>>
        out  == head \o b.data \o tail
        done == [m EXCEPT !.doneReading = TRUE, !.ofStatus = "complete"]
    IN  IF ~b.eos
        THEN /\ msr' = m /\ sent' = sent \o out
             /\ ran' = ran \o (IF o.ran THEN <<3>> ELSE <<>>)
             /\ UNCHANGED <<inChain, pc, denied>>
             /\ left' = SubSeq(left, Len(b.data) + 1, Len(left))
        ELSE \E p \in PhaseAndIntercept(IF m.phase < 4 THEN Flatten(done) ELSE done, 4, c) :
               /\ ran' = ran \o (IF o.ran THEN <<3>> ELSE <<>>) \o (IF p.ran THEN <<4>> ELSE <<>>)
               /\ IF p.status = "DECLINED"
                  THEN /\ msr' = p.m
                       /\ sent' = sent \o out
                       /\ left' = <<>>
                       /\ inChain' = FALSE
                       /\ pc' = "log"
                       /\ UNCHANGED denied
                  ELSE ErrorBucket(p.m, IF p.status = "error" THEN 0 ELSE 4, p.status)

\* A brigade that is observed: kept; over the limit, refused or, in partial
\* mode, looked at and sent; at the end of the response phase 4 and all of
\* the response at once.
KeepEarly(m, o, b, c) ==            \* Mutant: sent before phase 4 has decided.
    LET see  == Observe(m, b, c.ofLimit)
        kept == [m EXCEPT !.brigade = @ \o b.data \o (IF b.eos THEN <<Eos>> ELSE <<>>),
                          !.resLen = see.len, !.doneReading = b.eos]
    IN  /\ sent' = sent \o b.data
        /\ msr' = kept
        /\ left' = SubSeq(left, Len(b.data) + 1, Len(left))
        /\ ran' = ran \o (IF o.ran THEN <<3>> ELSE <<>>)
        /\ pc' = IF b.eos THEN "log" ELSE pc
        /\ UNCHANGED <<inChain, denied>>

Keep(m, o, b, c) ==
    LET see  == Observe(m, b, c.ofLimit)
        part == see.over /\ c.ofPartial
        end  == IF b.eos THEN (IF part THEN Injected(c, m.append, App) ELSE <<>>) \o <<Eos>>
                ELSE <<>>
        kept == [m EXCEPT !.brigade = @ \o b.data \o end, !.resLen = see.len,
                          !.outbound = @ \/ see.over, !.doneReading = b.eos]
    IN  IF see.over /\ ~c.ofPartial
        THEN /\ ErrorBucket(Message([m EXCEPT !.outbound = TRUE, !.ofStatus = "complete"]),
                            0, "large")
             /\ ran' = ran \o (IF o.ran THEN <<3>> ELSE <<>>)
        ELSE IF ~part /\ ~b.eos
        THEN /\ msr' = kept
             /\ left' = SubSeq(left, Len(b.data) + 1, Len(left))
             /\ ran' = ran \o (IF o.ran THEN <<3>> ELSE <<>>)
             /\ UNCHANGED <<sent, inChain, pc, denied>>
        ELSE LET now == IF part THEN kept ELSE [kept EXCEPT !.ofStatus = "complete"]
             IN  \E p \in PhaseAndIntercept(IF part \/ m.phase < 4 THEN Flatten(now) ELSE now, 4, c) :
               /\ ran' = ran \o (IF o.ran THEN <<3>> ELSE <<>>) \o (IF p.ran THEN <<4>> ELSE <<>>)
               /\ IF p.status # "DECLINED"
                  THEN ErrorBucket(p.m, IF p.status = "error" THEN 0 ELSE 4, p.status)
                  ELSE /\ sent' = sent \o Injected(c, p.m.prepend, Pre)
                            \o (IF part THEN p.m.brigade
                                ELSE BeforeEos(InjectStream(p.m, c),
                                               Injected(c, p.m.append, App)))
                       /\ msr' = [p.m EXCEPT !.brigade = <<>>, !.partial = part,
                                    !.streamChanged = IF part THEN @ ELSE FALSE,
                                    !.ofStatus = IF b.eos THEN "complete" ELSE @]
                       /\ left' = SubSeq(left, Len(b.data) + 1, Len(left))
                       /\ inChain' = ~b.eos
                       /\ pc' = IF b.eos THEN "log" ELSE pc
                       /\ UNCHANGED denied

\* No filter of this module: the data goes to the client.
RespondUnfiltered ==
    /\ pc = "respond"
    /\ ~inChain
    /\ \E b \in Brigade :
         /\ sent' = sent \o Buckets(b)
         /\ left' = SubSeq(left, Len(b.data) + 1, Len(left))
         /\ pc' = IF b.eos THEN "log" ELSE pc
    /\ UNCHANGED <<cfg, msr, source, inChain, page, ran, denied, audited>>

\* output_filter, called with one brigade.
OutputFilter ==
    /\ pc = "respond"
    /\ inChain
    /\ \E b \in Brigade,
          o \in IF msr.ofStatus = "not_started" THEN FirstCall(msr, cfg)
                ELSE {[m |-> msr, ran |-> FALSE, status |-> "go", head |-> <<>>]} :
         IF o.status # "go"
         THEN /\ ErrorBucket(o.m, IF o.status \in {"error", "large"} THEN 0 ELSE 3, o.status)
              /\ ran' = ran \o (IF o.ran THEN <<3>> ELSE <<>>)
         ELSE IF o.m.skipping \/ o.m.partial
         THEN PassOn(o.m, o, b, o.head, cfg)
         ELSE \/ Keep(o.m, o, b, cfg)
              \/ /\ cfg.readFails                 \* a bucket cannot be read
                 /\ ErrorBucket(Message([o.m EXCEPT !.ofStatus = "complete"]), 0, "error")
                 /\ ran' = ran \o (IF o.ran THEN <<3>> ELSE <<>>)
    /\ UNCHANGED <<cfg, source, page, audited>>

----------------------------------------------------------------------------
(* Logging *)

\* hook_log_transaction and modsecurity_process_phase_logging: phase 5, then
\* relevance by status, the fate of uploaded files and the audit log.
StatusRelevant(m, c) == IF m.relevant = 0 /\ c.relevantStatus THEN 1 ELSE 0

HookLogTransaction ==
    /\ pc = "log"
    /\ msr.exists
    /\ \E p \in ProcessPhase(msr, 5, cfg) :
         LET m == [p.m EXCEPT !.relevant = @ + StatusRelevant(p.m, cfg)]
         IN  /\ msr' = [m EXCEPT !.filesKept = \/ cfg.keepFiles = "On"
                                               \/ cfg.keepFiles = "Relevant" /\ m.relevant # 0]
             /\ audited' = audited + (IF \/ cfg.auditlog = "On"
                                         \/ cfg.auditlog = "Relevant" /\ m.relevant # 0
                                      THEN 1 ELSE 0)
             /\ Ran(p, 5)
    /\ pc' = "done"
    /\ UNCHANGED <<cfg, source, left, inChain, sent, page, denied>>

Done == pc = "done" /\ UNCHANGED vars

Next == \/ HookConnectionEarly \/ NoContextEarly \/ HookErrorLog \/ HookWithoutContext
        \/ HookRequestEarly \/ HookRequestLate \/ HookInsertFilter
        \/ HookInsertErrorFilter \/ RespondUnfiltered \/ OutputFilter
        \/ HookLogTransaction \/ Done

Spec == Init /\ [][Next]_vars
----------------------------------------------------------------------------
(* Properties *)

Contexts ==
    [exists : BOOLEAN, phase : 0..5, enabled : Modes, intercepted : BOOLEAN,
     action : {"none"} \cup Denials \cup Allows, log : BOOLEAN, auditlog : BOOLEAN,
     scope : {"none", "allow", "allow_phase", "allow_request"},
     user : {"unset"} \cup Modes, bodyComplete : BOOLEAN, relevant : Nat,
     wanted : BOOLEAN, inbound : BOOLEAN,
     outbound : BOOLEAN, prepend : BOOLEAN, append : BOOLEAN,
     ofStatus : {"not_started", "in_progress", "complete"}, skipping : BOOLEAN,
     partial : BOOLEAN, doneReading : BOOLEAN, isError : BOOLEAN, resLen : Nat,
     brigade : Data, resbody : Data \cup {Null}, streamChanged : BOOLEAN,
     filesKept : BOOLEAN]

\* The fields of a transaction, and where the server and its response are.
TypeOK ==
    /\ cfg \in Configs /\ msr \in Contexts
    /\ pc \in {"connect", "early", "late", "insert", "error", "respond", "log", "done"}
    /\ source \in {"handler", "error"} /\ inChain \in BOOLEAN
    /\ left \in Data /\ sent \in Data /\ page \in Data
    /\ ran \in Seq(1..5) /\ denied \in 0..4 /\ audited \in Nat

\* Whatever order the hooks and the filter ask for phases in, error pages
\* and redirects included: the rules of a phase run once, in the order of
\* the phases; after an interception only those of phase 5 do, and after
\* "allow" none but those of phase 5.
InOrder ==
    \A i \in (Len(ran) + 1)..Len(ran') :
        /\ \A j \in 1..(i - 1) : ran'[j] < ran'[i]
        /\ (denied # 0 \/ msr.scope = "allow") => ran'[i] = 5
PhasesInOrder == [][InOrder]_vars

PageSent == \E i \in 1..Len(sent) : sent[i] \in 1..MaxPage

\* A response whose body is buffered reaches the client only after the rules
\* of phase 4 have seen the whole of it, and not at all once a rule has
\* denied the transaction.  (Partial processing lets data pass by design.)
Buffered == cfg.resAccess /\ cfg.mime /\ ~cfg.ofPartial /\ page # <<>>
InspectedFirst ==
    Buffered /\ PageSent =>
        /\ denied = 0
        /\ msr.ofStatus # "not_started" /\ source = "handler" /\ ~msr.intercepted =>
             msr.resbody = page

\* A transaction that no rule has denied and that met no error delivers the
\* response whole, in order and once, in every mode of the filter, with the
\* injected content at its ends, if the filter has seen it, and one end of
\* response.
Whole(inject, body) ==
    (IF inject THEN <<Pre>> ELSE <<>>) \o body \o (IF inject THEN <<App>> ELSE <<>>)
        \o <<Eos>>
WholeResponse ==
    pc \in {"log", "done"} /\ source = "handler" /\ denied = 0
        /\ Eos \in ToSet(sent) =>
      LET inject == msr.prepend /\ cfg.injection /\ msr.ofStatus # "not_started"
      IN  \/ sent = Whole(inject, page)
          \/ cfg.stream /\ cfg.injection /\ sent = Whole(inject, <<Stream>>)

\* With the audit engine at RelevantOnly an entry is written, once, exactly
\* for the transactions that a rule without noauditlog, a message of an
\* error or the status has made relevant: the alert of an interception does
\* not by itself.
AuditedWhenRelevant ==
    pc = "done" /\ msr.exists /\ cfg.auditlog = "Relevant" =>
        audited = (IF msr.wanted \/ cfg.relevantStatus THEN 1 ELSE 0)

\* The comment of hook_insert_error_filter: the output filter has completed
\* when an error page follows an interception in phase 4.
CompleteAfterPhase4 == denied = 4 => msr.ofStatus = "complete"
=============================================================================
