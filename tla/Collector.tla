----------------------------- MODULE Collector ------------------------------
(***************************************************************************)
(* What the audit log collector promises about the lines it is given.      *)
(*                                                                         *)
(* A line is unread until the collector accepts it.  An accepted line is   *)
(* pending until the collector has finished with it, and nothing else      *)
(* makes it disappear while the process lives.  A death of the process     *)
(* forgets what was pending; the next process resumes exactly with the     *)
(* lines that were last saved.                                             *)
(***************************************************************************)
CONSTANT Lines

VARIABLES
    up,        \* a process is serving
    unread,    \* lines not accepted yet
    pending,   \* lines the process is responsible for
    saved      \* lines the next process starts with

Init == up = FALSE /\ unread = Lines /\ pending = {} /\ saved = {}

Accept == /\ up
          /\ \E l \in unread : /\ unread' = unread \ {l}
                               /\ pending' = pending \cup {l}
          /\ UNCHANGED <<up, saved>>

Finish == /\ up
          /\ \E l \in pending : pending' = pending \ {l}
          /\ UNCHANGED <<up, unread, saved>>

\* Only accepted lines are saved.
Save == /\ up
        /\ saved' \in SUBSET (Lines \ unread)
        /\ UNCHANGED <<up, unread, pending>>

Die == /\ up /\ up' = FALSE /\ pending' = {} /\ UNCHANGED <<unread, saved>>

Resume == /\ ~up /\ up' = TRUE /\ pending' = saved
          /\ UNCHANGED <<unread, saved>>

Next == Accept \/ Finish \/ Save \/ Die \/ Resume

Spec == Init /\ [][Next]_<<up, unread, pending, saved>>
=============================================================================
