------------------------------- MODULE Mlogc --------------------------------
(***************************************************************************)
(* The ModSecurity audit log collector, mlogc/mlogc.c: a process that      *)
(* reads audit log lines from a pipe, keeps them in a queue in memory,     *)
(* submits them to a console over HTTP with a pool of worker threads, and  *)
(* from time to time dumps what is pending into a queue file from which    *)
(* the next process resumes.                                               *)
(*                                                                         *)
(* Threads are the main thread (receive_loop), the management thread       *)
(* (thread_manager), the signal thread (thread_signals) and up to          *)
(* max_connections workers (thread_worker).  The thread mutex protects the *)
(* queue, in_progress, the cURL handles and current_workers; but           *)
(* transaction_checkpoint and every "is there work" test read them without *)
(* taking it, so a critical section is several steps here wherever its     *)
(* intermediate states can be seen.                                        *)
(***************************************************************************)
EXTENDS Integers, Sequences, FiniteSets, SequencesExt

CONSTANTS
    Lines,               \* the audit log lines the web server writes
    BadLines,            \* lines that the log line regex does not match
    EmptyLines,          \* lines whose audit file is empty or unreadable
    LongLines,           \* lines that do not fit read_queue_entries' buffer
    CommentLines,        \* lines that begin with a #
    Threads,             \* identities of worker threads (reused after exit)
    Handles,             \* the cURL handles logc_init creates
    Main, Mgr, Sig,      \* the main, management and signal threads
    max_worker_requests, \* requests per worker; 0 = no limit
    keep_entries,        \* keep the audit file of a submitted entry
    opt_force,           \* -f: at end of input wait for the queue to empty
    Signals,             \* may SIGTERM or SIGINT arrive
    CreateMayFail,       \* may apr_thread_create fail
    StrayReads,          \* may an iteration come to nodes freed before it
    MaxCheckpoints,      \* bound: how often checkpoint_interval passes
    MaxRestarts,         \* bound: how often the process is started again
    None,                \* no entry, no owner
    NoFile,              \* contents of a file that does not exist
    Garbage              \* what is read from a line that was freed

Creators == {Main, Mgr}
Procs == Threads \cup {Main, Mgr, Sig}

\* logc_init creates max_connections handles.
max_connections == Cardinality(Handles)

AnyLine == Lines \cup {Garbage}
Entries == [id : Nat, line : AnyLine]
File    == Seq(AnyLine) \cup {NoFile}

ASSUME LinesAssumption ==
    /\ BadLines \subseteq Lines
    /\ EmptyLines \subseteq Lines
    /\ LongLines \subseteq Lines /\ CommentLines \subseteq Lines
    /\ Garbage \notin Lines /\ None \notin Lines
    /\ None \notin Entries /\ NoFile \notin Seq(AnyLine)

ASSUME ThreadsAssumption ==
    /\ IsFiniteSet(Threads) /\ IsFiniteSet(Handles)
    /\ Main # Mgr /\ Main # Sig /\ Mgr # Sig
    /\ {Main, Mgr, Sig} \cap Threads = {}
    /\ None \notin Procs
    /\ None \notin Handles

ASSUME OptionsAssumption ==
    /\ max_worker_requests \in Nat
    /\ keep_entries \in BOOLEAN /\ opt_force \in BOOLEAN
    /\ Signals \in BOOLEAN /\ CreateMayFail \in BOOLEAN
    /\ StrayReads \in BOOLEAN
    /\ MaxCheckpoints \in Nat /\ MaxRestarts \in Nat

VARIABLES
    pc,             \* where each thread is
    \* memory shared by the threads
    mutex,          \* owner of the thread mutex
    queue,          \* the array of waiting entries, used as a stack
    in_progress,    \* the hash of entries some worker is sending
    curl_handles,   \* the idle cURL handles
    current_workers,
    entry_counter,
    running,
    server_error,
    check_due,      \* server_error_last_check_time is long enough ago
    have_read_data,
    management_thread_active,
    \* local variables of the threads
    recv,           \* line the main thread is about to queue
    held,           \* worker: entry
    take_new,       \* worker: take_new
    looped,         \* worker: loop_count # 0
    num_requests,   \* worker: num_requests
    curl,           \* worker: its cURL handle
    ck,             \* the management thread inside transaction_checkpoint
    \* files
    qfile, qold, qnew,  \* queue_path, queue_path.old, queue_path.new
    txlog,              \* the transaction log
    audit,              \* lines whose audit file exists
    \* the world outside, and history
    stdin,          \* lines the web server has not written yet
    sent,           \* how often the console answered 200 for a line
    done,           \* lines whose processing has been completed
    steady,         \* entries that did not move since the dump began
    status,         \* "up", or "exited" once the process is gone
    checkpoints,    \* how often checkpoint_interval has passed
    restarts        \* how often the process was started again

flags      == <<running, server_error, check_due, have_read_data,
                management_thread_active>>
entries    == <<queue, in_progress, entry_counter>>
workers    == <<curl_handles, current_workers>>
sharedVars == <<mutex, entries, workers, flags>>
workerVars == <<held, take_new, looped, num_requests, curl>>
localVars  == <<recv, workerVars, ck>>
files      == <<qfile, qold, qnew>>
disk       == <<files, txlog>>
world      == <<audit, stdin, sent>>
history    == <<done, steady>>
system     == <<status, checkpoints, restarts>>
outside    == <<world, history, system>>
vars       == <<pc, sharedVars, localVars, disk, outside>>

-----------------------------------------------------------------------------
\* An entry_t: a line and the identity add_entry gave it.
Entry(id, l) == [id |-> id, line |-> l]

\* Entries that are allocated: waiting, or in the hands of a worker.
LiveEntries == Range(queue) \cup ({held[t] : t \in Threads} \ {None})

\* Threads that were created and have not given their handle back.
Alive == {t \in Threads : pc[t] \notin {"none", "exit"}}

\* Variant: the result of the trylock is ignored.
TryLockOnly(p) == mutex' = p

\* apr_thread_mutex_trylock, and apr_thread_mutex_lock when it is busy.
Lock(p) == mutex = None /\ mutex' = p

Unlock == mutex' = None

\* Initial value of the checkpoint's local variables.
CkIdle == [i |-> 0, cur |-> None, todo |-> {}, seen |-> {}, stale |-> FALSE,
           from |-> 0, final |-> FALSE]

\* main starts; nothing is loaded yet.
Init ==
    /\ pc = [p \in Procs |-> IF p = Main THEN "init" ELSE "none"]
    /\ mutex = None
    /\ queue = <<>> /\ in_progress = {}
    /\ curl_handles = Handles /\ current_workers = 0
    /\ entry_counter = 1
    /\ running = FALSE /\ server_error = FALSE /\ check_due = TRUE
    /\ have_read_data = FALSE /\ management_thread_active = FALSE
    /\ recv = None
    /\ held = [t \in Threads |-> None]
    /\ take_new = [t \in Threads |-> TRUE]
    /\ looped = [t \in Threads |-> FALSE]
    /\ num_requests = [t \in Threads |-> 0]
    /\ curl = [t \in Threads |-> None]
    /\ ck = CkIdle
    /\ qfile = NoFile /\ qold = NoFile /\ qnew = NoFile
    /\ txlog = {}
    /\ audit = Lines
    /\ stdin = Lines
    /\ sent = [l \in Lines |-> 0] /\ done = {} /\ steady = {}
    /\ status = "up" /\ checkpoints = 0 /\ restarts = 0

-----------------------------------------------------------------------------
(* Startup: transaction_log_init, then start_management_thread and         *)
(* start_signal_thread.  Files change one at a time, the process may die   *)
(* in between.                                                             *)

\* Variant: reading stops at the first comment.
EntriesBefore(f) ==
    {i \in DOMAIN f : \A j \in 1..i : f[j] \notin CommentLines \ LongLines}

\* The positions of a queue file that become an entry: a line that begins
\* with a # is taken for a comment.  A line that is longer than the buffer
\* comes in pieces, only the first of which can begin with it.
EntryAt(f) == {i \in DOMAIN f : f[i] \notin CommentLines \ LongLines}

\* Those positions one after the other, in the order of the file.
InOrder(f) ==
    {at \in [1..Cardinality(EntryAt(f)) -> EntryAt(f)] :
        /\ \A m, n \in DOMAIN at : m < n => at[m] < at[n]
        /\ {at[n] : n \in DOMAIN at} = EntryAt(f)}

\* What read_queue_entries makes of them.  No piece of a line that was too
\* long matches the log line regex.
Loaded(f, at) ==
    [n \in DOMAIN at |->
        Entry(n, IF f[at[n]] \in LongLines THEN Garbage ELSE f[at[n]])]

\* The file that is read: the queue file, or else .old, or else nothing.
Source == IF qfile # NoFile THEN qfile
          ELSE IF qold # NoFile THEN qold ELSE <<>>

\* .new is deleted and the queue file, or else the .old one, is read.
LoadQueue ==
    /\ pc[Main] = "init"
    /\ qnew' = NoFile
    /\ \E at \in InOrder(Source) :
          /\ queue' = Loaded(Source, at)
          /\ entry_counter' = Len(queue') + 1
    /\ pc' = [pc EXCEPT ![Main] = "adopt"]
    /\ UNCHANGED <<mutex, in_progress, workers, flags, localVars, qfile, qold,
                   txlog, outside>>

\* When only .old was there it becomes the queue file.
AdoptOld ==
    /\ pc[Main] = "adopt"
    /\ IF qfile = NoFile THEN qfile' = qold /\ qold' = NoFile
                         ELSE UNCHANGED <<qfile, qold>>
    /\ pc' = [pc EXCEPT ![Main] = "start"]
    /\ UNCHANGED <<sharedVars, localVars, qnew, txlog, outside>>

\* .old is deleted; the threads start.  The transaction log is opened for
\* appending, neither read nor truncated.
StartThreads ==
    /\ pc[Main] = "start"
    /\ qold' = NoFile
    /\ running' = TRUE /\ server_error' = FALSE
    /\ management_thread_active' = TRUE
    /\ pc' = [pc EXCEPT ![Main] = "recv", ![Mgr] = "top", ![Sig] = "wait"]
    /\ UNCHANGED <<mutex, entries, workers, check_due, have_read_data,
                   localVars, qfile, qnew, txlog, outside>>

\* The queue file cannot be read to its end, or the transaction log cannot be
\* opened: logc_shutdown(1).  There is no other thread to wait for yet.
StartFails ==
    /\ \/ /\ pc[Main] = "init"
          /\ qfile # NoFile \/ qold # NoFile
          /\ qnew' = NoFile /\ UNCHANGED qold
       \/ /\ pc[Main] = "start"
          /\ qold' = NoFile /\ UNCHANGED qnew
    /\ status' = "exited"
    /\ pc' = [q \in Procs |-> "none"]
    /\ UNCHANGED <<sharedVars, localVars, qfile, txlog, world, history,
                   checkpoints, restarts>>

-----------------------------------------------------------------------------
(* The main thread: receive_loop and add_entry.                            *)

\* A line has been read; it is recorded in the transaction log (TXIN).
Receive(l) ==
    /\ pc[Main] = "recv"
    /\ l \in stdin
    /\ stdin' = stdin \ {l}
    /\ have_read_data' = TRUE
    /\ txlog' = txlog \cup {<<"IN", l>>}
    /\ recv' = l
    /\ pc' = [pc EXCEPT ![Main] = "add"]
    /\ UNCHANGED <<mutex, entries, workers, running, server_error, check_due,
                   management_thread_active, workerVars, ck, files, audit,
                   sent, history, system>>

\* add_entry takes the mutex, numbers the entry and pushes it ...
AddEntry ==
    /\ pc[Main] = "add"
    /\ Lock(Main)
    /\ entry_counter' = entry_counter + 1
    /\ queue' = Append(queue, Entry(entry_counter, recv))
    /\ recv' = None
    /\ pc' = [pc EXCEPT ![Main] = "added"]
    /\ UNCHANGED <<in_progress, workers, flags, workerVars, ck, disk,
                   outside>>

\* ... and, still under the mutex, starts a worker unless there are enough
\* of them or the server is known to be in trouble.
AddEntryWorker ==
    /\ pc[Main] = "added"
    /\ IF current_workers < max_connections /\ ~server_error
       THEN /\ pc' = [pc EXCEPT ![Main] = "create"]
            /\ UNCHANGED mutex
       ELSE /\ pc' = [pc EXCEPT ![Main] = "recv"]
            /\ Unlock
    /\ UNCHANGED <<entries, workers, flags, localVars, disk, outside>>

\* End of input (or a read error).
EndOfInput ==
    /\ pc[Main] = "recv"
    /\ pc' = [pc EXCEPT ![Main] = "eof"]
    /\ UNCHANGED <<sharedVars, localVars, disk, outside>>

\* With -f the main thread waits for the queue to empty, as long as the
\* server works.  Then main calls logc_shutdown.
LeaveReceiveLoop ==
    /\ pc[Main] = "eof"
    /\ ~opt_force \/ server_error \/ queue = <<>>
    /\ pc' = [pc EXCEPT ![Main] = "shutdown"]
    /\ UNCHANGED <<sharedVars, localVars, disk, outside>>

-----------------------------------------------------------------------------
(* create_new_worker(lock), called by add_entry with the mutex held (lock  *)
(* is 0) and by the management thread (lock is 1), which takes it first.   *)
(* In both cases the caller c owns the mutex at "create".                  *)

\* Where the caller continues.
AfterCreate(c) == IF c = Main THEN "recv" ELSE "checkpoint"

\* The sanity check: enough workers already.
CreateNotNeeded(c) ==
    /\ pc[c] = "create"
    /\ current_workers >= max_connections
    /\ Unlock
    /\ pc' = [pc EXCEPT ![c] = AfterCreate(c)]
    /\ UNCHANGED <<entries, workers, flags, localVars, disk, outside>>

\* A handle is taken from the pool and the thread starts to run.
CreateThread(c, t, h) ==
    /\ pc[c] = "create"
    /\ current_workers < max_connections
    /\ h \in curl_handles
    /\ pc[t] = "none"
    /\ curl_handles' = curl_handles \ {h}
    /\ pc' = [pc EXCEPT ![c] = "created", ![t] = "loop"]
    /\ held' = [held EXCEPT ![t] = None]
    /\ take_new' = [take_new EXCEPT ![t] = TRUE]
    /\ looped' = [looped EXCEPT ![t] = FALSE]
    /\ num_requests' = [num_requests EXCEPT ![t] = 0]
    /\ curl' = [curl EXCEPT ![t] = h]
    /\ UNCHANGED <<mutex, entries, current_workers, flags, recv, ck, disk,
                   outside>>

\* Only then is the worker counted; the mutex is released.
CountWorker(c) ==
    /\ pc[c] = "created"
    /\ current_workers' = current_workers + 1
    /\ Unlock
    /\ pc' = [pc EXCEPT ![c] = AfterCreate(c)]
    /\ UNCHANGED <<entries, curl_handles, flags, localVars, disk, outside>>

\* No handle, or apr_thread_create failed: logc_shutdown(1).  With lock = 0
\* (the main thread) the mutex stays locked.
CreateFails(c) ==
    /\ pc[c] = "create"
    /\ current_workers < max_connections
    /\ \/ curl_handles = {} /\ UNCHANGED curl_handles
       \/ /\ CreateMayFail
          /\ \E h \in curl_handles : curl_handles' = curl_handles \ {h}
    /\ mutex' = IF c = Mgr THEN None ELSE mutex
    /\ pc' = [pc EXCEPT ![c] = "shutdown"]
    /\ UNCHANGED <<entries, current_workers, flags, localVars, disk, outside>>

create_new_worker(c) ==
    \/ CreateNotNeeded(c)
    \/ \E t \in Threads, h \in Handles : CreateThread(c, t, h)
    \/ CountWorker(c)
    \/ CreateFails(c)

-----------------------------------------------------------------------------
(* A worker: thread_worker.                                                *)

\* Top of the loop.  running and server_error are read without the mutex.
WorkerLoop(t) ==
    /\ pc[t] = "loop"
    /\ IF ~running \/ (server_error /\ looped[t])
       THEN /\ pc' = [pc EXCEPT ![t] = "down"]
            /\ UNCHANGED looped
       ELSE /\ pc' = [pc EXCEPT ![t] = IF take_new[t] THEN "fetch"
                                                     ELSE "send"]
            /\ looped' = [looped EXCEPT ![t] = TRUE]
    /\ UNCHANGED <<sharedVars, recv, held, take_new, num_requests, curl, ck,
                   disk, outside>>

\* Variant: nothing is removed.
WithdrawNothing(e) == in_progress

\* in_progress without an entry.
Withdraw(e) == in_progress \ {e}

\* The checkpoint's iteration over in_progress, when in_progress changes: it
\* has already fetched the node it visits next.
Disturbed == IF pc[Mgr] \in {"ckprogress", "ckprogresswrite"}
             THEN [ck EXCEPT !.stale = TRUE] ELSE ck

\* The entry that worker t is through with is logged (TXOUT) and freed.
Complete(t) ==
    /\ txlog' = txlog \cup {<<"OUT", held[t].line>>}
    /\ done' = done \cup {held[t].line}
    /\ in_progress' = Withdraw(held[t]) /\ ck' = Disturbed
    /\ steady' = steady \ {held[t]}
    /\ held' = [held EXCEPT ![t] = None]

\* The mutex is taken and the previous entry, if any, is completed.
FetchLock(t) ==
    /\ pc[t] = "fetch"
    /\ Lock(t)
    /\ IF held[t] # None THEN Complete(t)
       ELSE UNCHANGED <<txlog, history, in_progress, ck, held>>
    /\ pc' = [pc EXCEPT ![t] = "pop"]
    /\ UNCHANGED <<queue, workers, entry_counter, flags, recv, take_new,
                   looped, num_requests, curl, files, world, system>>

\* Variant: the queue is used first in, first out.
PopOldest(q) == [entry |-> Head(q), rest |-> Tail(q)]

\* apr_array_pop takes the entry that was pushed last.
Pop(q) == [entry |-> Last(q), rest |-> Front(q)]

\* One entry is popped.  It is in no container until it is registered.
FetchPop(t) ==
    /\ pc[t] = "pop"
    /\ queue # <<>>
    /\ held' = [held EXCEPT ![t] = Pop(queue).entry]
    /\ steady' = steady \ {Pop(queue).entry}
    /\ queue' = Pop(queue).rest
    /\ pc' = [pc EXCEPT ![t] = "register"]
    /\ UNCHANGED <<mutex, in_progress, workers, entry_counter, flags, recv,
                   take_new, looped, num_requests, curl, ck, disk, world,
                   done, system>>

\* There is no more work for this thread.
FetchEmpty(t) ==
    /\ pc[t] = "pop"
    /\ queue = <<>>
    /\ Unlock
    /\ pc' = [pc EXCEPT ![t] = "down"]
    /\ UNCHANGED <<entries, workers, flags, localVars, disk, outside>>

FetchRegister(t) ==
    /\ pc[t] = "register"
    /\ in_progress' = in_progress \cup {held[t]} /\ ck' = Disturbed
    /\ Unlock
    /\ pc' = [pc EXCEPT ![t] = "send"]
    /\ UNCHANGED <<queue, workers, entry_counter, flags, recv, workerVars,
                   disk, outside>>

\* num_requests after one more entry.  It is counted only if there is a limit,
\* and goes past it with entries after which the limit is not tested.
Requests(t) == IF max_worker_requests > 0 THEN num_requests[t] + 1
               ELSE num_requests[t]

\* Where a worker goes that has counted n requests.
AfterRequest(n) ==
    IF n > 0 /\ n >= max_worker_requests THEN "down" ELSE "loop"

\* The log line regex does not match, or the audit file is empty or cannot
\* be opened: the entry is through, and the limit on requests is not tested.
SkipInvalid(t) ==
    /\ pc[t] = "send"
    /\ held[t].line \in BadLines \cup {Garbage} \cup (EmptyLines \cap audit)
    /\ take_new' = [take_new EXCEPT ![t] = TRUE]
    /\ num_requests' = [num_requests EXCEPT ![t] = Requests(t)]
    /\ pc' = [pc EXCEPT ![t] = "loop"]
    /\ UNCHANGED <<sharedVars, recv, held, looped, curl, ck, disk, outside>>

\* There is no audit file: the entry is through.
SkipMissing(t) ==
    /\ pc[t] = "send"
    /\ held[t].line \in Lines \ (BadLines \cup audit)
    /\ take_new' = [take_new EXCEPT ![t] = TRUE]
    /\ num_requests' = [num_requests EXCEPT ![t] = Requests(t)]
    /\ pc' = [pc EXCEPT ![t] = AfterRequest(Requests(t))]
    /\ UNCHANGED <<sharedVars, recv, held, looped, curl, ck, disk, outside>>

\* The audit file can be sent.
Sendable(l) == l \in audit \ (BadLines \cup EmptyLines)

\* curl_easy_perform: the console answers 200.  It works (again); setting
\* server_error_last_check_time to 0 makes the next check due at once.
SendAccepted(t) ==
    /\ pc[t] = "send"
    /\ Sendable(held[t].line)
    /\ server_error' = FALSE
    /\ check_due' = TRUE
    /\ sent' = [sent EXCEPT ![held[t].line] = @ + 1]
    /\ num_requests' = [num_requests EXCEPT ![t] = Requests(t)]
    /\ take_new' = [take_new EXCEPT ![t] = FALSE]
    /\ pc' = [pc EXCEPT ![t] = "remove"]
    /\ UNCHANGED <<mutex, entries, workers, running, have_read_data,
                   management_thread_active, recv, held, looped, curl, ck,
                   disk, audit, stdin, history, system>>

\* ... and the audit file is deleted, unless entries are kept.
RemoveFile(t) ==
    /\ pc[t] = "remove"
    /\ audit' = IF keep_entries THEN audit ELSE audit \ {held[t].line}
    /\ take_new' = [take_new EXCEPT ![t] = TRUE]
    /\ pc' = [pc EXCEPT ![t] = AfterRequest(num_requests[t])]
    /\ UNCHANGED <<sharedVars, recv, held, looped, num_requests, curl, ck,
                   disk, stdin, sent, history, system>>

\* Variant: a refused entry is treated like an accepted one.
SendConflictRemoves(t) ==
    /\ pc[t] = "send"
    /\ Sendable(held[t].line)
    /\ take_new' = [take_new EXCEPT ![t] = TRUE]
    /\ num_requests' = [num_requests EXCEPT ![t] = Requests(t)]
    /\ pc' = [pc EXCEPT ![t] = "remove"]
    /\ UNCHANGED <<sharedVars, recv, held, looped, curl, ck, disk, outside>>

\* The console answers 409: something is wrong with this entry.
SendConflict(t) ==
    /\ pc[t] = "send"
    /\ Sendable(held[t].line)
    /\ take_new' = [take_new EXCEPT ![t] = TRUE]
    /\ num_requests' = [num_requests EXCEPT ![t] = Requests(t)]
    /\ pc' = [pc EXCEPT ![t] = AfterRequest(Requests(t))]
    /\ UNCHANGED <<sharedVars, recv, held, looped, curl, ck, disk, outside>>

\* No connection, no status, or any other status: the server is flagged as
\* errored and the entry is not done.
SendFailed(t) ==
    /\ pc[t] = "send"
    /\ Sendable(held[t].line)
    /\ server_error' = TRUE
    /\ check_due' = FALSE
    /\ take_new' = [take_new EXCEPT ![t] = FALSE]
    /\ num_requests' = [num_requests EXCEPT ![t] = Requests(t)]
    /\ pc' = [pc EXCEPT ![t] = AfterRequest(Requests(t))]
    /\ UNCHANGED <<mutex, entries, workers, running, have_read_data,
                   management_thread_active, recv, held, looped, curl, ck,
                   disk, outside>>

\* THREAD_SHUTDOWN: the entry leaves in_progress; it is completed, or ...
DownLock(t) ==
    /\ pc[t] = "down"
    /\ Lock(t)
    /\ IF held[t] = None
       THEN UNCHANGED <<in_progress, ck, held, txlog, history>>
       ELSE IF take_new[t] THEN Complete(t)
       ELSE /\ in_progress' = Withdraw(held[t]) /\ ck' = Disturbed
            /\ steady' = steady \ {held[t]}
            /\ UNCHANGED <<held, txlog, done>>
    /\ pc' = [pc EXCEPT ![t] = "requeue"]
    /\ UNCHANGED <<queue, workers, entry_counter, flags, recv, take_new,
                   looped, num_requests, curl, files, world, system>>

\* Variant: a worker without an entry pushes its null pointer.
PutBackAlways(e) == Append(queue, e)

\* The queue with an entry, if there is one, put back.
PutBack(e) == IF e # None THEN Append(queue, e) ELSE queue

\* ... goes back to the queue when it is not done.
Requeue(t) ==
    /\ pc[t] = "requeue"
    /\ queue' = PutBack(held[t])
    /\ held' = [held EXCEPT ![t] = None]
    /\ pc' = [pc EXCEPT ![t] = "release"]
    /\ UNCHANGED <<mutex, in_progress, workers, entry_counter, flags, recv,
                   take_new, looped, num_requests, curl, ck, disk, outside>>

\* The pool with a handle given back.
GiveBack(h) == curl_handles \cup {h}

\* Variant: a worker that leaves is not subtracted.
NotRetired == current_workers

\* current_workers when a worker leaves.
Retired == current_workers - 1

\* The handle goes back to the pool and the worker is no longer counted.
Release(t) ==
    /\ pc[t] = "release"
    /\ curl_handles' = GiveBack(curl[t])
    /\ curl' = [curl EXCEPT ![t] = None]
    /\ current_workers' = Retired
    /\ Unlock
    /\ pc' = [pc EXCEPT ![t] = "exit"]
    /\ UNCHANGED <<entries, flags, recv, held, take_new, looped, num_requests,
                   ck, disk, outside>>

\* After the unlock the thread still destroys tpool, a child of thread_pool.
ThreadExit(t) ==
    /\ pc[t] = "exit"
    /\ pc' = [pc EXCEPT ![t] = "none"]
    /\ UNCHANGED <<sharedVars, localVars, disk, outside>>

thread_worker(t) ==
    \/ WorkerLoop(t) \/ FetchLock(t) \/ FetchPop(t) \/ FetchEmpty(t)
    \/ FetchRegister(t) \/ SkipInvalid(t) \/ SkipMissing(t)
    \/ SendAccepted(t) \/ RemoveFile(t) \/ SendConflict(t) \/ SendFailed(t)
    \/ DownLock(t) \/ Requeue(t) \/ Release(t) \/ ThreadExit(t)

-----------------------------------------------------------------------------
(* The management thread: thread_manager.                                  *)

\* Variant: the server is probed only while workers are active.
InvestigateBusy == server_error /\ current_workers > 0 /\ check_due

\* Time to probe a server that is flagged as errored.
Investigate == server_error /\ current_workers = 0 /\ check_due

\* There is more work than workers.
CatchUp == /\ ~server_error
           /\ current_workers < max_connections
           /\ Len(queue) > current_workers

\* One round: decide, without the mutex, whether to start a worker.
ManagerRound ==
    /\ pc[Mgr] = "top"
    /\ running
    /\ check_due' = (check_due /\ ~Investigate)
    /\ pc' = [pc EXCEPT ![Mgr] = IF Investigate \/ CatchUp
                                THEN "lock" ELSE "checkpoint"]
    /\ UNCHANGED <<mutex, entries, workers, running, server_error,
                   have_read_data, management_thread_active, localVars, disk,
                   outside>>

\* create_new_worker(1) takes the mutex.
ManagerLock ==
    /\ pc[Mgr] = "lock"
    /\ Lock(Mgr)
    /\ pc' = [pc EXCEPT ![Mgr] = "create"]
    /\ UNCHANGED <<entries, workers, flags, localVars, disk, outside>>

\* The checkpoint interval has not passed, or nothing was ever read.
SkipCheckpoint ==
    /\ pc[Mgr] = "checkpoint"
    /\ pc' = [pc EXCEPT ![Mgr] = "top"]
    /\ UNCHANGED <<sharedVars, localVars, disk, outside>>

\* transaction_checkpoint begins: .new is created exclusively.
OpenNew(final) ==
    /\ have_read_data
    /\ qnew = NoFile
    /\ qnew' = <<>>
    /\ ck' = [CkIdle EXCEPT !.i = 1, !.from = entry_counter, !.final = final]
    /\ steady' = Range(queue) \cup in_progress
    /\ pc' = [pc EXCEPT ![Mgr] = "ckqueue"]

\* The checkpoint interval has passed.
StartCheckpoint ==
    /\ pc[Mgr] = "checkpoint"
    /\ checkpoints < MaxCheckpoints
    /\ checkpoints' = checkpoints + 1
    /\ OpenNew(FALSE)
    /\ UNCHANGED <<sharedVars, recv, workerVars, qfile, qold, txlog, world,
                   done, status, restarts>>

\* Told to stop: once no worker is counted, the final checkpoint.
Drain ==
    /\ pc[Mgr] = "top"
    /\ ~running
    /\ pc' = [pc EXCEPT ![Mgr] = "drain"]
    /\ UNCHANGED <<sharedVars, localVars, disk, outside>>

\* Variant: the final checkpoint does not wait for the workers.
NoWait == TRUE

\* All workers have left.
Drained == current_workers = 0

FinalCheckpoint ==
    /\ pc[Mgr] = "drain"
    /\ Drained
    /\ \/ OpenNew(TRUE)
       \/ /\ ~(have_read_data /\ qnew = NoFile)
          /\ pc' = [pc EXCEPT ![Mgr] = "leave"]
          /\ UNCHANGED <<ck, steady, qnew>>
    /\ UNCHANGED <<sharedVars, recv, workerVars, qfile, qold, txlog, world,
                   done, system>>

\* management_thread_active is cleared, the thread exits.
ManagerExit ==
    /\ pc[Mgr] = "leave"
    /\ management_thread_active' = FALSE
    /\ pc' = [pc EXCEPT ![Mgr] = "none"]
    /\ UNCHANGED <<mutex, entries, workers, running, server_error, check_due,
                   have_read_data, localVars, disk, outside>>

-----------------------------------------------------------------------------
(* transaction_checkpoint.  It holds the global mutex, which excludes      *)
(* other processes, but not the thread mutex: the other threads go on.     *)

\* A pointer to the next waiting entry is read ...
DumpQueueNext ==
    /\ pc[Mgr] = "ckqueue"
    /\ IF ck.i <= Len(queue)
       THEN /\ ck' = [ck EXCEPT !.cur = queue[ck.i], !.i = @ + 1]
            /\ pc' = [pc EXCEPT ![Mgr] = "ckqueuewrite"]
       ELSE /\ ck' = [ck EXCEPT !.todo = in_progress]
            /\ pc' = [pc EXCEPT ![Mgr] = "ckprogress"]
    /\ UNCHANGED <<sharedVars, recv, workerVars, disk, outside>>

\* Entries whose nodes are no longer in the hash, to which an iteration over
\* in_progress can come once workers have changed it: the node it fetched
\* ahead may by then be in APR's list of free nodes, which goes on with those
\* of entries that were freed before.
Astray == IF ~ck.stale THEN {}
          ELSE ck.todo \cup (IF StrayReads THEN {Entry(0, Garbage)} ELSE {})

\* The iteration has met every entry of the hash.
MetAll == in_progress \subseteq ck.seen

\* ... or to the next entry of the hash.  An undisturbed iteration meets every
\* entry.  From a free node it does not come back to the list it was in, and
\* when the hash grows its lists are split: a disturbed one may miss entries
\* that stay.  (It may also meet one again, which only repeats its line; one
\* visit each is the bound here.)
DumpProgressNext ==
    /\ pc[Mgr] = "ckprogress"
    /\ \/ \E e \in (in_progress \cup Astray) \ ck.seen :
             /\ ck' = [ck EXCEPT !.cur = e, !.seen = @ \cup {e}]
             /\ pc' = [pc EXCEPT ![Mgr] = "ckprogresswrite"]
       \/ /\ ck.stale \/ MetAll
          /\ pc' = [pc EXCEPT ![Mgr] = "ckremove"]
          /\ UNCHANGED ck
    /\ UNCHANGED <<sharedVars, recv, workerVars, disk, outside>>

\* ... and its line is written.  If a worker freed the entry in between,
\* what is written is whatever that memory holds now.
DumpWrite ==
    /\ pc[Mgr] \in {"ckqueuewrite", "ckprogresswrite"}
    /\ \E l \in {ck.cur.line} \cup
              (IF ck.cur \in LiveEntries THEN {} ELSE {Garbage}) :
         qnew' = Append(qnew, l)
    /\ ck' = [ck EXCEPT !.cur = None]
    /\ pc' = [pc EXCEPT ![Mgr] = IF pc[Mgr] = "ckqueuewrite" THEN "ckqueue"
                                                           ELSE "ckprogress"]
    /\ UNCHANGED <<sharedVars, recv, workerVars, qfile, qold, txlog, outside>>

\* Switch the files: .old is removed,
RemoveOld ==
    /\ pc[Mgr] = "ckremove"
    /\ qold' = NoFile
    /\ pc' = [pc EXCEPT ![Mgr] = "ckbackup"]
    /\ UNCHANGED <<sharedVars, localVars, qfile, qnew, txlog, outside>>

\* Variant: the queue file is deleted instead of renamed.
BackupLost == qold

\* .old after the queue file, if there is one, was renamed to it.
Backup == IF qfile # NoFile THEN qfile ELSE qold

\* the queue file becomes .old (if there is one),
RenameQueueToOld ==
    /\ pc[Mgr] = "ckbackup"
    /\ qold' = Backup /\ qfile' = NoFile
    /\ pc' = [pc EXCEPT ![Mgr] = "ckinstall"]
    /\ UNCHANGED <<sharedVars, localVars, qnew, txlog, outside>>

\* .new becomes the queue file,
RenameNewToQueue ==
    /\ pc[Mgr] = "ckinstall"
    /\ qfile' = qnew /\ qnew' = NoFile
    /\ pc' = [pc EXCEPT ![Mgr] = "ckclean"]
    /\ UNCHANGED <<sharedVars, localVars, qold, txlog, outside>>

\* .old is removed again,
RemoveBackup ==
    /\ pc[Mgr] = "ckclean"
    /\ qold' = NoFile
    /\ pc' = [pc EXCEPT ![Mgr] = "cktruncate"]
    /\ UNCHANGED <<sharedVars, localVars, qfile, qnew, txlog, outside>>

\* and the transaction log is truncated.
TruncateLog ==
    /\ pc[Mgr] = "cktruncate"
    /\ txlog' = {}
    /\ pc' = [pc EXCEPT ![Mgr] = IF ck.final THEN "leave" ELSE "top"]
    /\ ck' = CkIdle
    /\ steady' = {}
    /\ UNCHANGED <<sharedVars, recv, workerVars, files, world, done, system>>

transaction_checkpoint ==
    \/ DumpQueueNext \/ DumpProgressNext \/ DumpWrite
    \/ RemoveOld \/ RenameQueueToOld \/ RenameNewToQueue \/ RemoveBackup
    \/ TruncateLog

thread_manager ==
    \/ ManagerRound \/ ManagerLock \/ SkipCheckpoint \/ StartCheckpoint
    \/ Drain \/ FinalCheckpoint \/ ManagerExit
    \/ transaction_checkpoint

-----------------------------------------------------------------------------
(* Shutdown, signals, time, and the end of the process.                    *)

\* SIGTERM or SIGINT reaches the signal thread.
Signal ==
    /\ Signals
    /\ pc[Sig] = "wait"
    /\ pc' = [pc EXCEPT ![Sig] = "shutdown"]
    /\ UNCHANGED <<sharedVars, localVars, disk, outside>>

\* logc_shutdown tells the threads to stop ...
Shutdown(p) ==
    /\ pc[p] = "shutdown"
    /\ running' = FALSE
    /\ pc' = [pc EXCEPT ![p] = "shutwait"]
    /\ UNCHANGED <<mutex, entries, workers, server_error, check_due,
                   have_read_data, management_thread_active, localVars, disk,
                   outside>>

\* ... waits for the management thread, and exits the process.
ExitProcess(p) ==
    /\ pc[p] = "shutwait"
    /\ ~management_thread_active
    /\ status' = "exited"
    /\ pc' = [q \in Procs |-> "none"]
    /\ UNCHANGED <<sharedVars, localVars, disk, world, history, checkpoints,
                   restarts>>

logc_shutdown(p) == Shutdown(p) \/ ExitProcess(p)

\* server_error_timeout passes.
Timeout ==
    /\ status = "up"
    /\ ~check_due
    /\ check_due' = TRUE
    /\ UNCHANGED <<pc, mutex, entries, workers, running, server_error,
                   have_read_data, management_thread_active, localVars, disk,
                   outside>>

\* The process is killed at any moment, or has exited, and the web server
\* starts it again: memory is lost, the files stay.
Restart ==
    /\ restarts < MaxRestarts
    /\ restarts' = restarts + 1
    /\ status' = "up"
    /\ pc' = [p \in Procs |-> IF p = Main THEN "init" ELSE "none"]
    /\ mutex' = None
    /\ queue' = <<>> /\ in_progress' = {}
    /\ curl_handles' = Handles /\ current_workers' = 0
    /\ entry_counter' = 1
    /\ running' = FALSE /\ server_error' = FALSE /\ check_due' = TRUE
    /\ have_read_data' = FALSE /\ management_thread_active' = FALSE
    /\ recv' = None
    /\ held' = [t \in Threads |-> None]
    /\ take_new' = [t \in Threads |-> TRUE]
    /\ looped' = [t \in Threads |-> FALSE]
    /\ num_requests' = [t \in Threads |-> 0]
    /\ curl' = [t \in Threads |-> None]
    /\ ck' = CkIdle
    /\ steady' = {}
    /\ UNCHANGED <<disk, world, done, checkpoints>>

-----------------------------------------------------------------------------
receive_loop ==
    \/ \E l \in Lines : Receive(l)
    \/ AddEntry \/ AddEntryWorker \/ EndOfInput \/ LeaveReceiveLoop

Startup == LoadQueue \/ AdoptOld \/ StartThreads \/ StartFails

Next ==
    \/ Startup
    \/ receive_loop
    \/ \E c \in Creators : create_new_worker(c)
    \/ \E t \in Threads : thread_worker(t)
    \/ thread_manager
    \/ Signal
    \/ \E p \in {Main, Mgr, Sig} : logc_shutdown(p)
    \/ Timeout
    \/ Restart

Spec == Init /\ [][Next]_vars

-----------------------------------------------------------------------------
(* Properties.                                                             *)

\* Where each kind of thread can be; a thread that does not run is at "none".
MainLabels == {"none", "init", "adopt", "start", "recv", "add", "added",
               "create", "created", "eof", "shutdown", "shutwait"}
DumpLabels == {"ckqueue", "ckqueuewrite", "ckprogress", "ckprogresswrite",
               "ckremove", "ckbackup", "ckinstall", "ckclean", "cktruncate"}
MgrLabels  == {"none", "top", "lock", "create", "created", "checkpoint",
               "drain", "leave", "shutdown", "shutwait"} \cup DumpLabels
SigLabels  == {"none", "wait", "shutdown", "shutwait"}
WorkerLabels == {"none", "loop", "fetch", "pop", "register", "send", "remove",
                 "down", "requeue", "release", "exit"}
Labels == MainLabels \cup MgrLabels \cup SigLabels \cup WorkerLabels

PcType ==
    /\ pc \in [Procs -> Labels]
    /\ pc[Main] \in MainLabels /\ pc[Mgr] \in MgrLabels
    /\ pc[Sig] \in SigLabels /\ \A t \in Threads : pc[t] \in WorkerLabels

SharedType ==
    /\ mutex \in Procs \cup {None}
    /\ queue \in Seq(Entries) /\ in_progress \subseteq Entries
    /\ entry_counter \in Nat
    /\ curl_handles \subseteq Handles /\ current_workers \in Int

FlagsType ==
    /\ running \in BOOLEAN /\ server_error \in BOOLEAN
    /\ check_due \in BOOLEAN /\ have_read_data \in BOOLEAN
    /\ management_thread_active \in BOOLEAN

LocalType ==
    /\ recv \in Lines \cup {None}
    /\ held \in [Threads -> Entries \cup {None}]
    /\ take_new \in [Threads -> BOOLEAN] /\ looped \in [Threads -> BOOLEAN]
    /\ num_requests \in [Threads -> Nat]
    /\ curl \in [Threads -> Handles \cup {None}]

CkType == [i : Nat, cur : Entries \cup {None}, todo : SUBSET Entries,
           seen : SUBSET Entries, stale : BOOLEAN, from : Nat,
           final : BOOLEAN]

DiskType ==
    /\ qfile \in File /\ qold \in File /\ qnew \in File
    /\ txlog \subseteq {"IN", "OUT"} \X AnyLine

OutsideType ==
    /\ audit \subseteq Lines /\ stdin \subseteq Lines
    /\ sent \in [Lines -> Nat] /\ done \subseteq AnyLine
    /\ steady \subseteq Entries
    /\ status \in {"up", "exited"} /\ restarts \in 0..MaxRestarts
    /\ checkpoints \in 0..MaxCheckpoints

\* Types of all variables of the collector, and where its threads can be.
TypeOK ==
    /\ PcType /\ SharedType /\ FlagsType /\ LocalType /\ ck \in CkType
    /\ DiskType /\ OutsideType

\* Program points at which a thread owns the thread mutex.
Critical(p) ==
    pc[p] \in {"added", "create", "created", "pop", "register", "requeue",
              "release"}

\* The thread mutex of create_new_worker, add_entry and thread_worker works:
\* whoever is inside a critical section owns it, and nobody leaves one
\* without giving it back, except the main thread when create_new_worker
\* fails: logc_shutdown is then called with the mutex locked.
MutexOwner ==
    status = "up" =>
        \A p \in Procs :
            /\ Critical(p) => mutex = p
            /\ mutex = p => \/ Critical(p)
                           \/ (p = Main /\ pc[p] \in {"shutdown", "shutwait"})

\* Every entry is in one place: it waits in the queue once, or one worker
\* holds it, and in_progress lists exactly the entries held by the workers
\* that have registered theirs and not yet withdrawn it.
EntryOwnedOnce ==
    status = "up" =>
        /\ IsInjective(queue)
        /\ \A t \in Threads : held[t] # None =>
              /\ held[t] \notin Range(queue)
              /\ \A u \in Threads \ {t} : held[u] # held[t]
        /\ in_progress = {held[t] : t \in {u \in Threads :
              held[u] # None /\ pc[u] \notin {"register", "requeue"}}}

\* Handles and workers are accounted for: a handle is idle or owned by one
\* worker, and current_workers, which limits the workers to max_connections,
\* counts the threads that own one, except one that is just being created.
HandleAccounting ==
    status = "up" =>
        /\ \A t \in Alive : curl[t] \in Handles \ curl_handles
        /\ \A t, u \in Alive : t # u => curl[t] # curl[u]
        /\ Cardinality(Alive) = current_workers +
              Cardinality({c \in Creators : pc[c] = "created"})

\* No accepted line is dropped while the process lives: it is with the main
\* thread, in an allocated entry, or its processing was completed.
NothingForgotten ==
    status = "up" /\ restarts = 0 =>
        \A l \in Lines \ stdin :
            \/ l \in done \/ recv = l
            \/ \E e \in LiveEntries : e.line = l

\* Audit files are evidence: one is deleted only after the console confirmed
\* that it has it, whatever crashes and retries happen.
AuditFileKept == \A l \in Lines : l \notin audit => sent[l] > 0

\* The dump runs without the thread mutex.  Still, an entry that stays where it
\* is while the dump runs is in the new queue file; only one that stays in
\* in_progress may be missing, if other workers changed in_progress while the
\* dump went through it.
SteadyEntriesDumped ==
    pc[Mgr] \in {"ckremove", "ckbackup", "ckinstall"} =>
        \A e \in steady : \/ e.line \in Range(qnew)
                          \/ ck.stale /\ e \in in_progress

\* After an exit at end of input, what is not completed is in the queue file.
CleanExitKeepsPending ==
    status = "exited" /\ restarts = 0 /\ ~Signals =>
        \A l \in Lines \ stdin :
            l \in done \/ (qfile # NoFile /\ l \in Range(qfile))

\* Pending lines survive: none is dropped while the process lives (worker
\* exits put their entry back), and none at an orderly exit.
PendingKept == NothingForgotten /\ CleanExitKeepsPending

-----------------------------------------------------------------------------
(* What comments and documentation say, and the code does not do.          *)

\* mlogc-default.conf: the queue file keeps "the pending audit log entry
\* data".  So an entry that was accepted before the dump began and is not
\* through when it ends is in the new file.
PendingEntriesDumped ==
    pc[Mgr] \in {"ckremove", "ckbackup", "ckinstall"} =>
        \A e \in LiveEntries : e.id < ck.from => e.line \in Range(qnew)

\* mlogc-default.conf: the transaction log "is used to recover data in case
\* of a crash".  So a new process has queued what came in and did not go out.
RecoveredFromLog ==
    pc[Main] = "adopt" =>
        \A l \in Lines : <<"IN", l>> \in txlog /\ <<"OUT", l>> \notin txlog
            => \E e \in Range(queue) : e.line = l

-----------------------------------------------------------------------------
(* Refinement.                                                             *)

\* What a process that starts now would find: transaction_log_init reads the
\* queue file, or else .old.
Loadable == IF qfile # NoFile THEN qfile ELSE qold

QueueFile == INSTANCE AtomicQueueFile WITH
    Line <- AnyLine, durable <- Loadable, draft <- qnew

\* The renames of transaction_checkpoint and the recovery of
\* transaction_log_init replace the queue file atomically: at every moment,
\* wherever the process dies, the next one finds the last complete dump.
QueueFileAtomic == QueueFile!Spec

Serving == status = "up" /\ pc[Main] # "init"

Promise == INSTANCE Collector WITH
    up      <- Serving,
    unread  <- stdin,
    pending <- IF ~Serving THEN {}
               ELSE Lines \cap ({recv} \cup {e.line : e \in LiveEntries}),
    saved   <- IF Loadable = NoFile THEN {}
               ELSE (Lines \ (LongLines \cup CommentLines))
                        \cap Range(Loadable)

\* The collector keeps its promise about every line, across crashes: while a
\* process lives a line that was accepted stays pending until a worker is
\* through with it, and a new process resumes with what was dumped, except
\* for two kinds of lines that it dumps but does not read back: those that
\* are too long for its buffer and those that begin with a #.
CollectorPromise == Promise!Spec

-----------------------------------------------------------------------------
(* Liveness.                                                               *)

\* A worker that waits for curl_easy_perform.  Only connecting has a timeout:
\* a submission that has begun may stay without an answer for ever.
Submitting(t) == pc[t] = "send" /\ Sendable(held[t].line)

\* Threads that can run do run, except a worker that waits for the console; a
\* thread that waits for the mutex gets it some time; and time passes.
Fairness ==
    /\ WF_vars(Startup)
    /\ WF_vars(AddEntryWorker) /\ SF_vars(AddEntry)
    /\ WF_vars(LeaveReceiveLoop)
    /\ \A c \in Creators : WF_vars(create_new_worker(c))
    /\ \A t \in Threads : /\ WF_vars(~Submitting(t) /\ thread_worker(t))
                          /\ SF_vars(FetchLock(t)) /\ SF_vars(DownLock(t))
    /\ WF_vars(thread_manager) /\ SF_vars(ManagerLock)
    /\ WF_vars(\E p \in {Main, Mgr, Sig} : logc_shutdown(p))
    /\ WF_vars(Timeout)

FairSpec == Spec /\ Fairness

\* No submission stays without an answer for ever.
SubmissionsReturn == \A t \in Threads : []<>~Submitting(t)

\* ... nor does the console fail for ever: if entries are submitted again and
\* again, some are accepted or refused.
ConsoleAnswers ==
    SubmissionsReturn /\ SF_vars(\E t \in Threads : \/ SendAccepted(t)
                                                  \/ SendConflict(t))

\* If the console answers some time, an accepted line is eventually through,
\* unless the collector is told to stop: no wakeup is missed between
\* add_entry, workers that give up because of a server error or their request
\* limit, and the management thread.
EveryLineHandled ==
    ConsoleAnswers =>
        \A l \in Lines : (l \notin stdin) ~> (l \in done \/ ~running)

\* logc_shutdown was called because no worker could be created: by the
\* management thread, which then waits for itself, or by the main thread, which
\* keeps the mutex that the workers need to leave and the management thread to
\* create another one.
ShutdownStuck ==
    \/ pc[Mgr] = "shutwait"
    \/ /\ pc[Main] = "shutwait" /\ mutex = Main
       /\ current_workers > 0 \/ pc[Mgr] = "lock"

\* Once logc_shutdown has been called the process exits, if every submission
\* returns: nothing else than one without an answer and the deadlocks of a
\* failing create_new_worker keeps it waiting.
ShutdownTerminates ==
    SubmissionsReturn =>
        ((\E p \in {Main, Mgr, Sig} : pc[p] = "shutdown")
            ~> (status = "exited" \/ ShutdownStuck))
=============================================================================
