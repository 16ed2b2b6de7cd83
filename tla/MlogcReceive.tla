---------------------------- MODULE MlogcReceive ----------------------------
(***************************************************************************)
(* The buffer of receive_loop in mlogc/mlogc.c, through which the bytes of *)
(* the pipe become events (audit log lines).  The buffer is filled from    *)
(* next on; evnt is where the event being collected starts and curr how    *)
(* far it has been searched for its end of line.  An event that does not   *)
(* fit is dropped, and so is its continuation up to the end of line.       *)
(*                                                                         *)
(* A byte is the pair of the event it belongs to and its place there; the  *)
(* last one of every event, the end of line, has place EOL.                *)
(***************************************************************************)
EXTENDS Integers, Sequences

CONSTANTS
    PIPE_BUF_SIZE,  \* size of the buffer
    Events,         \* bound: number of events written to the pipe
    MaxLen,         \* bound: length of an event
    Recycled        \* is buf allocated from memory with old contents

ASSUME ReceiveAssumption ==
    /\ PIPE_BUF_SIZE \in Nat \ {0}
    /\ Events \in Nat /\ MaxLen \in Nat
    /\ Recycled \in BOOLEAN

EOL == 0
IsEol(byte) == byte[2] = EOL

\* What is in the buffer beside events: NUL, and an end of line from before.
NUL == <<0, 1>>
OldEol == <<0, EOL>>

VARIABLES
    lens,       \* lengths of the events the web server has written
    input,      \* bytes in the pipe
    buf, evnt, curr, next,
    done, drop_next, buffered_events,
    queued,     \* events given to add_entry
    pc          \* "top", "search", "settle" of the loop, or "end"

vars == <<lens, input, buf, evnt, curr, next, done, drop_next,
          buffered_events, queued, pc>>

\* What is written for event i of length n, and event i as it should be queued.
Written(i, n) == [p \in 1 .. n + 1 |-> <<i, IF p <= n THEN p ELSE EOL>>]
Event(i) == [p \in 1..lens[i] |-> <<i, p>>]

\* apr_palloc does not clear the buffer; buf[PIPE_BUF_SIZE] is set to NUL.
Init ==
    /\ lens = <<>> /\ input = <<>>
    /\ buf \in {[b EXCEPT ![PIPE_BUF_SIZE] = NUL] :
                  b \in [0..PIPE_BUF_SIZE ->
                           IF Recycled THEN {NUL, OldEol} ELSE {NUL}]}
    /\ evnt = 0 /\ curr = 0 /\ next = 0
    /\ done = FALSE /\ drop_next = FALSE /\ buffered_events = 0
    /\ queued = <<>>
    /\ pc = "top"

\* The web server writes an event of length n.
Send(n) ==
    /\ ~done /\ Len(lens) < Events
    /\ lens' = Append(lens, n)
    /\ input' = input \o Written(Len(lens) + 1, n)
    /\ UNCHANGED <<buf, evnt, curr, next, done, drop_next, buffered_events,
                   queued, pc>>

\* apr_file_read returns some of the bytes that are there.
Read(n) ==
    /\ pc = "top" /\ ~done
    /\ n <= PIPE_BUF_SIZE - next /\ n <= Len(input)
    /\ buf' = [k \in DOMAIN buf |-> IF k \in next .. next + n - 1
                                    THEN input[k - next + 1] ELSE buf[k]]
    /\ input' = SubSeq(input, n + 1, Len(input))
    /\ next' = next + n
    /\ buffered_events' = 0
    /\ pc' = "search"
    /\ UNCHANGED <<lens, evnt, curr, done, drop_next, queued>>

\* Variant: the end of the input is taken for an empty read.
EmptyRead == FALSE

\* Any status but success ends the loop.
ReadFailed == TRUE

\* ... or reports the end of the input: the web server has closed the pipe.
ReadEof ==
    /\ pc = "top" /\ ~done
    /\ next < PIPE_BUF_SIZE /\ input = <<>>
    /\ done' = ReadFailed
    /\ buffered_events' = 0
    /\ pc' = "search"
    /\ UNCHANGED <<lens, input, buf, evnt, curr, next, drop_next, queued>>

\* Where the search for an end of line that starts at curr stops.  The byte
\* there is then looked at even when it is the one after the data.
Stop == CHOOSE k \in curr..next :
          /\ k = next \/ IsEol(buf[k])
          /\ \A m \in curr .. k - 1 : ~IsEol(buf[m])

\* Variant: bytes after the end of line are skipped.
SkipRest(k) == next

\* The next event starts after the end of line at k.
After(k) == k + 1

\* An event is complete: it is queued, unless its beginning was dropped.
EndOfLine ==
    /\ pc = "search" /\ curr < next
    /\ IsEol(buf[Stop])
    /\ buf' = [buf EXCEPT ![Stop] = NUL]
    /\ IF drop_next
       THEN /\ drop_next' = FALSE
            /\ UNCHANGED <<queued, buffered_events>>
       ELSE /\ queued' = Append(queued, [j \in 1 .. Stop - evnt |->
                                           buf[evnt + j - 1]])
            /\ buffered_events' = buffered_events + 1
            /\ UNCHANGED drop_next
    /\ evnt' = After(Stop) /\ curr' = After(Stop)
    /\ UNCHANGED <<lens, input, next, done, pc>>

\* What is left is the beginning of an event, or nothing.
Partial ==
    /\ pc = "search"
    /\ curr < next => ~IsEol(buf[Stop])
    /\ curr' = IF curr < next THEN Stop ELSE curr
    /\ pc' = "settle"
    /\ UNCHANGED <<lens, input, buf, evnt, next, done, drop_next,
                   buffered_events, queued>>

\* Events were queued: the rest is moved to the beginning of the buffer.
Shift ==
    /\ pc = "settle" /\ buffered_events > 0
    /\ next' = next - evnt
    /\ curr' = curr - evnt
    /\ buf' = [k \in DOMAIN buf |-> IF k < next - evnt THEN buf[k + evnt]
                                                       ELSE buf[k]]
    /\ evnt' = 0
    /\ pc' = "top"
    /\ UNCHANGED <<lens, input, done, drop_next, buffered_events, queued>>

\* Variant: the continuation of an event that was dropped is not dropped.
KeepContinuation == FALSE

\* What follows up to the end of line is to be dropped too.
DropContinuation == TRUE

\* The buffer is full and nothing was queued: what is there is dropped.
TooLarge ==
    /\ pc = "settle" /\ buffered_events = 0
    /\ next = PIPE_BUF_SIZE
    /\ evnt' = 0 /\ curr' = 0 /\ next' = 0
    /\ drop_next' = DropContinuation
    /\ pc' = "top"
    /\ UNCHANGED <<lens, input, buf, done, buffered_events, queued>>

NothingToSettle ==
    /\ pc = "settle" /\ buffered_events = 0
    /\ next < PIPE_BUF_SIZE
    /\ pc' = "top"
    /\ UNCHANGED <<lens, input, buf, evnt, curr, next, done, drop_next,
                   buffered_events, queued>>

\* The loop ends when the input has ended and all data was searched.
Leave ==
    /\ pc = "top" /\ done /\ curr >= next
    /\ pc' = "end"
    /\ UNCHANGED <<lens, input, buf, evnt, curr, next, done, drop_next,
                   buffered_events, queued>>

Finished == pc = "end" /\ UNCHANGED vars

Next ==
    \/ \E n \in 0..MaxLen : Send(n)
    \/ \E n \in 1..PIPE_BUF_SIZE : Read(n)
    \/ ReadEof \/ EndOfLine \/ Partial \/ Shift \/ TooLarge
    \/ NothingToSettle \/ Leave \/ Finished

Spec == Init /\ [][Next]_vars

\* apr_file_read returns when there is data or the pipe is closed, and the
\* web server closes it some time.
FairSpec == Spec /\ WF_vars(Next)

-----------------------------------------------------------------------------
\* However the pipe cuts the stream, what is queued are whole events, in
\* order: no event is split, joined with another or queued twice.
WholeEventsInOrder ==
    \E f \in [DOMAIN queued -> DOMAIN lens] :
        /\ \A k \in DOMAIN queued : queued[k] = Event(f[k])
        /\ \A k, m \in DOMAIN queued : k < m => f[k] < f[m]

\* An event that is too large for the buffer with its end of line.
Oversized(i) == lens[i] >= PIPE_BUF_SIZE

\* Event i was not queued, or has no bytes to tell.
Missing(i) == \A k \in DOMAIN queued : queued[k] # Event(i) \/ lens[i] = 0

\* What explains that events up to i are missing: one of them was too large,
\* and since then nothing was queued.
AfterOversized(i) ==
    \E j \in 1..i : Oversized(j) /\ \A m \in j..i : Missing(m)

\* At the end every event was queued, except those that are too large and
\* those that follow one without a queued event between them.
OnlyAfterOversized ==
    pc = "end" => \A i \in DOMAIN lens :
                     lens[i] > 0 /\ Missing(i) => AfterOversized(i)

\* The log is delivered: whole events, in order, and none missing that the
\* buffer had room for, however the pipe cuts the stream.
EventsDelivered == WholeEventsInOrder /\ OnlyAfterOversized

\* The loop ends after the end of the input: it never spins with a full
\* buffer that it cannot read into.
LoopEnds == <>(pc = "end")
=============================================================================
