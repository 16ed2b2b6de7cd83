-------------------------- MODULE AtomicQueueFile ---------------------------
(***************************************************************************)
(* What mlogc's queue file promises to the next process: a durable list of *)
(* lines that is replaced as a whole.  A new list is drafted aside, line   *)
(* by line, and installed in one step, or abandoned (the process died);    *)
(* until it is installed the durable list stays as it was.                 *)
(***************************************************************************)
EXTENDS Sequences

CONSTANTS Line, NoFile

VARIABLES durable, draft

Init == durable = NoFile /\ draft = NoFile

Begin == draft = NoFile /\ draft' = <<>> /\ UNCHANGED durable

Write == /\ draft # NoFile
         /\ \E l \in Line : draft' = Append(draft, l)
         /\ UNCHANGED durable

Install == draft # NoFile /\ durable' = draft /\ draft' = NoFile

Abandon == draft # NoFile /\ draft' = NoFile /\ UNCHANGED durable

Next == Begin \/ Write \/ Install \/ Abandon

Spec == Init /\ [][Next]_<<durable, draft>>
=============================================================================
