--------------------------- MODULE MCTransaction ---------------------------
(* Small configurations for one transaction.                               *)
EXTENDS Transaction

Base == [enabled |-> "On", enabled2 |-> "On", early |-> FALSE, ctlEngine |-> {},
         actions |-> {"deny"}, injection |-> FALSE, stream |-> FALSE,
         reqAccess |-> TRUE, longRequest |-> FALSE, reject |-> TRUE,
         readFails |-> FALSE, resAccess |-> TRUE, mime |-> TRUE,
         ofPartial |-> FALSE, lengthKnown |-> FALSE, ofLimit |-> 2,
         auditlog |-> "Relevant", relevantStatus |-> FALSE, keepFiles |-> "Relevant",
         noContext |-> FALSE, connEngine |-> "Off",
         read |-> [busy |-> 0, limit |-> 0, suspect |-> "none", white |-> FALSE]]

\* Every action in both builds; the modes of the output filter; switching
\* the engine; the limits of the request; the ways to log.
\* Requests without a context, and connections over the limit.
MCConfigs ==
    {[Base EXCEPT !.early = early, !.actions = Denials \cup Allows] : early \in BOOLEAN}
    \cup {[Base EXCEPT !.resAccess = access, !.mime = mime, !.ofPartial = partial,
                       !.lengthKnown = known, !.injection = inject, !.stream = inject,
                       !.ofLimit = limit]
            : access \in BOOLEAN, mime \in BOOLEAN, partial \in BOOLEAN,
              known \in BOOLEAN, inject \in BOOLEAN, limit \in {1, 3}}
    \cup {[Base EXCEPT !.enabled = e, !.enabled2 = d, !.early = early,
                       !.ctlEngine = {"Off", "DetectionOnly"}]
            : e \in {"On", "Off", "DetectionOnly"}, d \in {"On", "Off"}, early \in BOOLEAN}
    \cup {[Base EXCEPT !.longRequest = TRUE, !.reject = reject, !.early = early,
                       !.enabled = e, !.enabled2 = e, !.readFails = TRUE]
            : reject \in BOOLEAN, early \in BOOLEAN, e \in {"On", "DetectionOnly"}}
    \cup {[Base EXCEPT !.auditlog = a, !.relevantStatus = r,
                       !.keepFiles = a, !.stream = TRUE]
            : a \in {"On", "Off", "Relevant"}, r \in BOOLEAN}
    \cup {[Base EXCEPT !.noContext = TRUE, !.early = early] : early \in BOOLEAN}
    \cup {[Base EXCEPT !.actions = {}, !.resAccess = FALSE, !.connEngine = e,
                       !.read = [busy |-> 2, limit |-> l, suspect |-> s, white |-> FALSE]]
            : e \in {"On", "DetectionOnly"}, l \in {0, 1, 2}, s \in {"listed", "other"}}

PartialConfigs == {[Base EXCEPT !.ofPartial = TRUE, !.ofLimit = 1]}
=============================================================================
