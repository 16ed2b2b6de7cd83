------------------------------ MODULE MlogcKeep -----------------------------
(***************************************************************************)
(* keep_entries_hack in mlogc/mlogc.c: two collectors, each with its own   *)
(* console, share one directory of audit files (KeepEntries 2600).  The    *)
(* modification time of a file is the flag by which they agree who deletes *)
(* it: the first one to have submitted it sets the time to 0, the second   *)
(* one finds it 0 and removes the file.                                    *)
(***************************************************************************)
EXTENDS Integers

CONSTANTS
    Collectors,   \* the processes that share the files
    Files,        \* the audit files
    Resent,       \* files that a collector may submit twice, because a crash
                  \* makes it forget that it has done so (bound: once)
    None

ASSUME KeepAssumption ==
    /\ \E a, b \in Collectors : a # b /\ Collectors = {a, b}
    /\ Resent \subseteq Files
    /\ None \notin Collectors

VARIABLES
    exists,     \* files that are there
    flagged,    \* files whose mtime is KEEP_ENTRIES_REMOVE_TIME
    lock,       \* owner of the exclusive lock on each file
    sends,      \* how often a collector's console answered 200 for a file
    pc, file    \* where a collector is, and with which file

vars == <<exists, flagged, lock, sends, pc, file>>

Init ==
    /\ exists = Files
    /\ flagged = {}
    /\ lock = [f \in Files |-> None]
    /\ sends = [c \in Collectors |-> [f \in Files |-> 0]]
    /\ pc = [c \in Collectors |-> "idle"]
    /\ file = [c \in Collectors |-> None]

Goto(c, label) == pc' = [pc EXCEPT ![c] = label]

\* thread_worker: the file is there and the console answers 200.
Submit(c, f) ==
    /\ pc[c] = "idle"
    /\ f \in exists
    /\ sends[c][f] < IF f \in Resent THEN 2 ELSE 1
    /\ sends' = [sends EXCEPT ![c][f] = @ + 1]
    /\ file' = [file EXCEPT ![c] = f]
    /\ Goto(c, "open")
    /\ UNCHANGED <<exists, flagged, lock>>

\* The file is opened; it may be gone by now.
Open(c) ==
    /\ pc[c] = "open"
    /\ Goto(c, IF file[c] \in exists THEN "lock" ELSE "idle")
    /\ UNCHANGED <<exists, flagged, lock, sends, file>>

\* Variant: the result of the lock without waiting is not looked at.
LockIgnored(c) == TRUE

\* The lock is free.
Lockable(c) == lock[file[c]] = None

\* The exclusive lock is taken, after waiting for it if need be.
Lock(c) ==
    /\ pc[c] = "lock"
    /\ Lockable(c)
    /\ lock' = [lock EXCEPT ![file[c]] = c]
    /\ Goto(c, "stat")
    /\ UNCHANGED <<exists, flagged, sends, file>>

\* The lock is released by closing the file.
Close(c) == lock' = [lock EXCEPT ![file[c]] =
                       IF lock[file[c]] = c THEN None ELSE @]

\* apr_stat goes by the name of the file: it may have been removed.
StatMissing(c) ==
    /\ pc[c] = "stat"
    /\ file[c] \notin exists
    /\ Close(c)
    /\ Goto(c, "idle")
    /\ UNCHANGED <<exists, flagged, sends, file>>

\* Variant: the flag is taken as set.
AlwaysFlagged(c) == TRUE

\* The other collector was here before.
IsFlagged(c) == file[c] \in flagged

\* It was not: the date is set, the other one will remove the file.
StatUnflagged(c) ==
    /\ pc[c] = "stat"
    /\ file[c] \in exists
    /\ ~IsFlagged(c)
    /\ Goto(c, "mark")
    /\ UNCHANGED <<exists, flagged, lock, sends, file>>

SetTime(c) ==
    /\ pc[c] = "mark"
    /\ flagged' = flagged \cup ({file[c]} \cap exists)
    /\ Close(c)
    /\ Goto(c, "idle")
    /\ UNCHANGED <<exists, sends, file>>

\* It was: the file is closed first, which unlocks it, ...
StatFlagged(c) ==
    /\ pc[c] = "stat"
    /\ file[c] \in exists
    /\ IsFlagged(c)
    /\ Close(c)
    /\ Goto(c, "remove")
    /\ UNCHANGED <<exists, flagged, sends, file>>

\* ... and then removed.
Remove(c) ==
    /\ pc[c] = "remove"
    /\ exists' = exists \ {file[c]}
    /\ Goto(c, "idle")
    /\ UNCHANGED <<flagged, lock, sends, file>>

keep_entries_hack(c) ==
    \/ Open(c) \/ Lock(c) \/ StatMissing(c) \/ StatUnflagged(c) \/ SetTime(c)
    \/ StatFlagged(c) \/ Remove(c)

Next == \E c \in Collectors : \/ \E f \in Files : Submit(c, f)
                              \/ keep_entries_hack(c)

Spec == Init /\ [][Next]_vars

\* A collector goes on with what it has to do; every file is submitted.
FairSpec == /\ Spec
            /\ \A c \in Collectors :
                 /\ WF_vars(keep_entries_hack(c))
                 /\ \A f \in Files : SF_vars(Submit(c, f))

-----------------------------------------------------------------------------
\* Where a collector can be; away from "idle" it is working on a file.
Labels == {"idle", "open", "lock", "stat", "mark", "remove"}

TypeOK ==
    /\ exists \subseteq Files /\ flagged \subseteq Files
    /\ lock \in [Files -> Collectors \cup {None}]
    /\ sends \in [Collectors -> [Files -> Nat]]
    /\ pc \in [Collectors -> Labels]
    /\ file \in [Collectors -> Files \cup {None}]

\* A file is removed only after two submissions, however the collectors
\* interleave.  When each submits a file once, both consoles have it then.
RemovedAfterTwoSubmissions ==
    \A f \in Files \ exists :
        \/ \A c \in Collectors : sends[c][f] > 0
        \/ \E c \in Collectors : sends[c][f] > 1

\* A file that both have submitted does not stay because each leaves it to
\* the other.
FilesRemoved ==
    \A f \in Files : <>(f \notin exists)
=============================================================================
