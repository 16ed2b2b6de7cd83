-------------------------- MODULE MlogcKeepSafety ---------------------------
(***************************************************************************)
(* Two collectors that share audit files remove one only after two         *)
(* submissions, for any number of files and any interleaving.              *)
(*                                                                         *)
(* The lock plays no part in the argument: it is given back before the     *)
(* file is removed.  What counts is that the date of a file was set by a   *)
(* submission that was over by then, so that the collector that finds it   *)
(* set is in another one.                                                  *)
(***************************************************************************)
EXTENDS MlogcKeep, TLAPS

\* Collector c is between submitting f and leaving keep_entries_hack.
Busy(c, f) == pc[c] # "idle" /\ file[c] = f

\* Both consoles have accepted f, or one has accepted it twice.
TwoSubmissions(f) ==
    \/ \A c \in Collectors : sends[c][f] > 0
    \/ \E c \in Collectors : sends[c][f] > 1

\* Whoever works on a file has submitted it.
BusyShape ==
    \A c \in Collectors : pc[c] # "idle" => file[c] \in Files /\ sends[c][file[c]] > 0

\* The date of a file was set in a submission that is over.
FlagShape ==
    \A f \in flagged : \E c \in Collectors :
        sends[c][f] > (IF Busy(c, f) THEN 1 ELSE 0)

\* Who is about to remove a file has found its date set.
RemoveShape ==
    \A c \in Collectors : pc[c] = "remove" => TwoSubmissions(file[c])

Inv == TypeOK /\ BusyShape /\ FlagShape /\ RemoveShape /\ RemovedAfterTwoSubmissions

LEMMA InitInv == Init => Inv
  BY KeepAssumption DEF Init, Inv, TypeOK, Labels, BusyShape, FlagShape, RemoveShape,
     RemovedAfterTwoSubmissions

\* The collector that finds the date set makes the second submission.
LEMMA FlaggedTwice ==
    ASSUME TypeOK, BusyShape, FlagShape, NEW c \in Collectors, pc[c] # "idle",
           file[c] \in flagged
    PROVE  TwoSubmissions(file[c])
<1> DEFINE f == file[c]
<1>1. f \in Files /\ sends[c][f] > 0 /\ Busy(c, f)
  BY DEF BusyShape, Busy
<1>2. PICK d \in Collectors : sends[d][f] > (IF Busy(d, f) THEN 1 ELSE 0)
  BY DEF FlagShape
<1>3. sends[c][f] \in Nat /\ sends[d][f] \in Nat
  BY <1>1 DEF TypeOK
<1>4. CASE d = c
  BY <1>1, <1>2, <1>3, <1>4 DEF TwoSubmissions
<1>5. CASE d # c
  <2>1. \A e \in Collectors : e = c \/ e = d
    BY <1>5, KeepAssumption
  <2>2. sends[d][f] > 0
    BY <1>2, <1>3
  <2>3. QED
    BY <1>1, <2>1, <2>2 DEF TwoSubmissions
<1>6. QED
  BY <1>4, <1>5

\* Submissions are never taken back.
LEMMA TwoSubmissionsStay ==
    ASSUME TypeOK, TypeOK', NEW f \in Files, TwoSubmissions(f),
           \A c \in Collectors : sends[c][f] <= sends'[c][f]
    PROVE  TwoSubmissions(f)'
  BY DEF TwoSubmissions, TypeOK

LEMMA SubmitStep ==
    ASSUME Inv, NEW c \in Collectors, NEW f \in Files, Submit(c, f) PROVE Inv'
<1> USE DEF Inv
<1>1. TypeOK'
  BY DEF TypeOK, Submit, Goto, Labels
<1>2. \A d \in Collectors, g \in Files :
         /\ sends[d][g] \in Nat /\ sends'[d][g] \in Nat
         /\ IF d = c /\ g = f THEN sends'[d][g] = sends[d][g] + 1
                              ELSE sends'[d][g] = sends[d][g]
  BY DEF TypeOK, Submit
<1>3. /\ pc[c] = "idle" /\ pc'[c] = "open" /\ file'[c] = f
      /\ \A d \in Collectors \ {c} : pc'[d] = pc[d] /\ file'[d] = file[d]
      /\ exists' = exists /\ flagged' = flagged
  BY DEF TypeOK, Submit, Goto
<1>4. BusyShape'
  BY <1>2, <1>3 DEF BusyShape
<1>5. FlagShape'
  <2> SUFFICES ASSUME NEW g \in flagged
               PROVE  \E d \in Collectors :
                         sends'[d][g] > (IF Busy(d, g)' THEN 1 ELSE 0)
    BY <1>3 DEF FlagShape
  <2>1. PICK d \in Collectors : sends[d][g] > (IF Busy(d, g) THEN 1 ELSE 0)
    BY DEF FlagShape
  <2>2. g \in Files
    BY DEF TypeOK
  <2>3. QED
    BY <1>2, <1>3, <2>1, <2>2 DEF Busy
<1>6. \A g \in Files : TwoSubmissions(g) => TwoSubmissions(g)'
  BY <1>1, <1>2, TwoSubmissionsStay
<1>7. RemoveShape'
  BY <1>3, <1>6 DEF RemoveShape, BusyShape
<1>8. RemovedAfterTwoSubmissions'
  BY <1>3, <1>6 DEF RemovedAfterTwoSubmissions, TwoSubmissions
<1>9. QED
  BY <1>1, <1>4, <1>5, <1>7, <1>8

LEMMA KeepStep ==
    ASSUME Inv, NEW c \in Collectors, keep_entries_hack(c) PROVE Inv'
<1> USE DEF Inv
<1>1. /\ sends' = sends /\ file' = file
      /\ \A d \in Collectors \ {c} : pc'[d] = pc[d]
      /\ pc[c] # "idle" /\ file[c] \in Files
      /\ flagged' \in {flagged, flagged \cup {file[c]}}
      /\ pc'[c] \in Labels
  BY DEF TypeOK, BusyShape, keep_entries_hack, Open, Lock, StatMissing, StatUnflagged,
     SetTime, StatFlagged, Remove, Goto, Labels
<1>2. TypeOK'
  BY <1>1 DEF TypeOK, keep_entries_hack, Open, Lock, Close, StatMissing, StatUnflagged,
     SetTime, StatFlagged, Remove, Goto, Labels
<1>3. BusyShape'
  BY <1>1 DEF BusyShape
<1>4. \A f \in Files : TwoSubmissions(f) => TwoSubmissions(f)'
  BY <1>1 DEF TwoSubmissions
<1>5. CASE SetTime(c)
  <2>1. pc'[c] = "idle" /\ exists' = exists /\ flagged' \subseteq flagged \cup {file[c]}
    BY <1>5 DEF SetTime, TypeOK, Goto
  <2>2. FlagShape'
    <3> SUFFICES ASSUME NEW g \in flagged'
                 PROVE  \E d \in Collectors :
                           sends'[d][g] > (IF Busy(d, g)' THEN 1 ELSE 0)
      BY DEF FlagShape
    <3>1. CASE g = file[c]
      BY <1>1, <2>1, <3>1 DEF BusyShape, Busy, TypeOK
    <3>2. CASE g \in flagged
      <4>1. PICK d \in Collectors : sends[d][g] > (IF Busy(d, g) THEN 1 ELSE 0)
        BY <3>2 DEF FlagShape
      <4>2. g \in Files /\ sends[d][g] \in Nat
        BY <3>2 DEF TypeOK
      <4>3. QED
        BY <1>1, <2>1, <4>1, <4>2 DEF Busy
    <3>3. QED
      BY <2>1, <3>1, <3>2
  <2>3. RemoveShape'
    BY <1>1, <1>4, <2>1 DEF RemoveShape, BusyShape
  <2>4. RemovedAfterTwoSubmissions'
    BY <1>4, <2>1 DEF RemovedAfterTwoSubmissions, TwoSubmissions
  <2>5. QED
    BY <1>2, <1>3, <2>2, <2>3, <2>4
<1>6. CASE ~SetTime(c)
  <2>1. flagged' = flagged
    BY <1>6 DEF keep_entries_hack, Open, Lock, StatMissing, StatUnflagged, StatFlagged,
       Remove
  <2>2. FlagShape'
    <3> SUFFICES ASSUME NEW g \in flagged
                 PROVE  \E d \in Collectors :
                           sends'[d][g] > (IF Busy(d, g)' THEN 1 ELSE 0)
      BY <2>1 DEF FlagShape
    <3>1. PICK d \in Collectors : sends[d][g] > (IF Busy(d, g) THEN 1 ELSE 0)
      BY DEF FlagShape
    <3>2. g \in Files /\ sends[d][g] \in Nat
      BY DEF TypeOK
    <3>3. QED
      BY <1>1, <3>1, <3>2 DEF Busy
  <2>3. pc'[c] = "remove" => file[c] \in flagged
    BY <1>6 DEF keep_entries_hack, Open, Lock, StatMissing, StatUnflagged, StatFlagged,
       IsFlagged, Remove, Goto, TypeOK
  <2>4. RemoveShape'
    BY <1>1, <1>4, <2>3, FlaggedTwice DEF RemoveShape, BusyShape
  <2>5. RemovedAfterTwoSubmissions'
    <3>1. \A f \in Files \ exists' : f \notin exists \/ (f = file[c] /\ pc[c] = "remove")
      BY <1>6 DEF keep_entries_hack, Open, Lock, StatMissing, StatUnflagged, StatFlagged,
         Remove
    <3>2. QED
      BY <1>1, <1>4, <3>1 DEF RemovedAfterTwoSubmissions, RemoveShape, TwoSubmissions
  <2>6. QED
    BY <1>2, <1>3, <2>2, <2>4, <2>5
<1>7. QED
  BY <1>5, <1>6

LEMMA NextInv == Inv /\ [Next]_vars => Inv'
<1> SUFFICES ASSUME Inv, [Next]_vars PROVE Inv'
  OBVIOUS
<1>1. CASE UNCHANGED vars
  BY <1>1 DEF vars, Inv, TypeOK, BusyShape, FlagShape, RemoveShape, Busy, TwoSubmissions,
     RemovedAfterTwoSubmissions
<1>2. CASE Next
  BY <1>2, SubmitStep, KeepStep DEF Next
<1>3. QED
  BY <1>1, <1>2

\* keep_entries_hack: however two collectors interleave opening, locking,
\* looking at the date, setting it, closing and removing, a file that is
\* gone was submitted by both, or twice by one that had forgotten it.
THEOREM RemovedAfterTwoSubmissionsCorrect == Spec => []RemovedAfterTwoSubmissions
<1>1. Inv => RemovedAfterTwoSubmissions
  BY DEF Inv
<1>2. QED
  BY <1>1, InitInv, NextInv, PTL DEF Spec
=============================================================================
