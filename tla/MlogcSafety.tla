----------------------------- MODULE MlogcSafety ----------------------------
(***************************************************************************)
(* Safety of the audit log collector, for any number of lines, workers and *)
(* handles, any request limit, and any number of checkpoints and restarts: *)
(* the types are right, the thread mutex excludes, audit files are kept    *)
(* until they were accepted, every entry has one owner, handles and        *)
(* workers are accounted for, the dump misses no entry that stays in       *)
(* place, and pending lines survive until they are through or in the queue *)
(* file.  At the end: the collector implements its abstract specifications.*)
(***************************************************************************)
EXTENDS Mlogc, FiniteSetTheorems, TLAPS

-----------------------------------------------------------------------------
(* Types.  TypeOK is not inductive: a worker may append the entry it holds *)
(* to the queue only because it holds one.  Shape says so, and TypeOK /\   *)
(* Shape is inductive.                                                     *)


\* A worker that uses an entry or a handle has one.
WorkerShape ==
    \A t \in Threads :
       /\ pc[t] \in {"register", "send", "remove"} => held[t] # None
       /\ pc[t] = "loop" /\ ~take_new[t] => held[t] # None
       /\ pc[t] \notin {"none", "exit"} => curl[t] # None

\* While the dump runs it has a new file, and an entry where it writes one.
DumpShape ==
    /\ pc[Mgr] \in {"ckqueuewrite", "ckprogresswrite"} => ck.cur # None
    /\ pc[Mgr] \in {"ckqueue", "ckqueuewrite"} => ck.i > 0
    /\ pc[Mgr] \in {"ckqueue", "ckqueuewrite", "ckprogress",
                    "ckprogresswrite", "ckremove", "ckbackup", "ckinstall"}
          => qnew # NoFile

\* The main thread has a line to queue; nobody else runs during startup.
StartShape ==
    /\ pc[Main] = "add" => recv # None
    /\ pc[Main] \in {"init", "adopt", "start"} =>
          pc[Mgr] = "none" /\ pc[Sig] = "none"

Shape == WorkerShape /\ DumpShape /\ StartShape

-----------------------------------------------------------------------------
(* Lemmas about the operators.                                             *)

\* What read_queue_entries loads is a sequence with one entry per line that is
\* not a comment.
LEMMA LoadedType ==
    ASSUME DiskType, NEW at \in InOrder(Source)
    PROVE  /\ Source \in Seq(AnyLine)
           /\ EntryAt(Source) \subseteq 1..Len(Source)
           /\ Len(Loaded(Source, at)) \in Nat
           /\ DOMAIN at = 1..Len(Loaded(Source, at))
           /\ Loaded(Source, at) \in Seq(Entries)
<1>1. Source \in Seq(AnyLine)
  BY DEF DiskType, Source, File
<1>2. DEFINE n == Len(Source)
             k == Cardinality(EntryAt(Source))
<1>3. n \in Nat /\ DOMAIN Source = 1..n
  BY <1>1
<1>4. \A i \in 1..n : Source[i] \in AnyLine
  BY <1>1
<1>5. EntryAt(Source) \subseteq 1..n
  BY <1>3 DEF EntryAt
<1>6. k \in Nat
  <2>1. IsFiniteSet(1..n)
    BY <1>3, FS_Interval
  <2>2. IsFiniteSet(EntryAt(Source))
    BY <1>5, <2>1, FS_Subset
  <2>3. QED
    BY <2>2, FS_CardinalityType
<1>7. at \in [1..k -> EntryAt(Source)]
  BY DEF InOrder
<1>8. Loaded(Source, at) \in [1..k -> Entries]
  <2>1. \A m \in 1..k : m \in Nat /\ at[m] \in 1..n
    BY <1>5, <1>6, <1>7
  <2>2. QED
    BY <1>4, <1>7, <2>1 DEF Loaded, Entry, Entries, AnyLine
<1>9. Loaded(Source, at) \in Seq(Entries) /\ Len(Loaded(Source, at)) = k
  BY <1>6, <1>8
<1>10. QED
  BY <1>1, <1>5, <1>6, <1>7, <1>9

\* apr_array_pop takes an entry and leaves a sequence of entries.
LEMMA PopType ==
    ASSUME NEW q \in Seq(Entries), q # <<>>
    PROVE  Pop(q).entry \in Entries /\ Pop(q).rest \in Seq(Entries)
  BY DEF Pop, Front, Last

LEMMA RequestsType ==
    ASSUME LocalType, NEW t \in Threads
    PROVE  Requests(t) \in Nat
  BY OptionsAssumption DEF LocalType, Requests

\* Workers that change in_progress let an iteration over it go stale; they
\* touch nothing else of the dump.
LEMMA DisturbedType ==
    ASSUME ck \in CkType
    PROVE  /\ Disturbed \in CkType /\ Disturbed.i = ck.i
           /\ Disturbed.cur = ck.cur /\ Disturbed.todo = ck.todo
           /\ Disturbed.seen = ck.seen /\ Disturbed.from = ck.from
           /\ Disturbed.final = ck.final /\ (ck.stale => Disturbed.stale)
  BY DEF CkType, Disturbed

\* What an iteration over in_progress comes to is an entry.
LEMMA AstrayType ==
    ASSUME ck \in CkType PROVE Astray \subseteq Entries
<1>1. Entry(0, Garbage) \in Entries
  BY DEF Entry, Entries, AnyLine
<1>2. QED
  BY <1>1 DEF Astray, CkType

LEMMA CkIdleType == CkIdle \in CkType
  BY DEF CkIdle, CkType

LEMMA CkNextType ==
    ASSUME NEW k \in CkType, NEW e \in Entries
    PROVE  [k EXCEPT !.cur = e, !.i = @ + 1] \in CkType
<1>1. k.i + 1 \in Nat
  BY DEF CkType
<1>2. QED
  BY <1>1 DEF CkType

LEMMA CkSeenType ==
    ASSUME NEW k \in CkType, NEW e \in Entries
    PROVE  [k EXCEPT !.cur = e, !.seen = @ \cup {e}] \in CkType
  BY DEF CkType

LEMMA CkCurType ==
    ASSUME NEW k \in CkType, NEW S \in SUBSET Entries
    PROVE  /\ [k EXCEPT !.cur = None] \in CkType
           /\ [k EXCEPT !.todo = S] \in CkType
  BY DEF CkType

LEMMA OpenNewType ==
    ASSUME TypeOK, NEW final \in BOOLEAN, OpenNew(final)
    PROVE  ck' \in CkType /\ steady' \subseteq Entries /\ qnew' \in File
<1>1. Range(queue) \subseteq Entries
  BY DEF TypeOK, SharedType, Range
<1>2. ck' \in CkType
  BY DEF OpenNew, TypeOK, SharedType, CkIdle, CkType
<1>3. QED
  BY <1>1, <1>2 DEF OpenNew, TypeOK, SharedType, File

\* A worker completes an entry that it holds.
LEMMA CompleteType ==
    ASSUME TypeOK, NEW t \in Threads, held[t] # None, Complete(t)
    PROVE  /\ txlog' \subseteq {"IN", "OUT"} \X AnyLine
           /\ done' \subseteq AnyLine /\ steady' \subseteq Entries
           /\ in_progress' \subseteq Entries
           /\ held' \in [Threads -> Entries \cup {None}]
           /\ ck' \in CkType
<1>1. held[t].line \in AnyLine
  BY DEF TypeOK, LocalType, Entries
<1>2. QED
  BY <1>1, DisturbedType DEF Complete, Withdraw, TypeOK, LocalType, SharedType, DiskType,
     OutsideType

-----------------------------------------------------------------------------
(* Every action keeps the types.                                           *)

LEMMA StartupKeepsTypes == ASSUME TypeOK, Shape, Startup PROVE TypeOK'
<1> USE ThreadsAssumption DEF PcType, Labels, MainLabels, MgrLabels,
      DumpLabels, SigLabels, WorkerLabels, Procs, flags, entries, workers,
      sharedVars, workerVars, localVars, files, disk, world, history, system,
      outside, TypeOK, SharedType, FlagsType, LocalType, DiskType,
      OutsideType
<1>1. CASE LoadQueue
  <2>1. PICK at \in InOrder(Source) :
           queue' = Loaded(Source, at) /\ entry_counter' = Len(queue') + 1
    BY <1>1 DEF LoadQueue
  <2>2. queue' \in Seq(Entries) /\ entry_counter' \in Nat
    BY <2>1, LoadedType
  <2>3. QED
    BY <1>1, <2>2 DEF LoadQueue, File
<1>2. CASE AdoptOld
  BY <1>2 DEF AdoptOld
<1>3. CASE StartThreads
  BY <1>3 DEF StartThreads, File
<1>4. CASE StartFails
  BY <1>4 DEF StartFails, File
<1>5. QED
  BY <1>1, <1>2, <1>3, <1>4 DEF Startup

LEMMA ReceiveKeepsTypes == ASSUME TypeOK, Shape, receive_loop PROVE TypeOK'
<1> USE LinesAssumption, ThreadsAssumption DEF PcType, Labels, MainLabels,
      MgrLabels, DumpLabels, SigLabels, WorkerLabels, Procs, flags, entries,
      workers, sharedVars, workerVars, localVars, files, disk, world,
      history, system, outside, TypeOK, SharedType, FlagsType, LocalType,
      DiskType, OutsideType
<1>1. ASSUME NEW l \in Lines, Receive(l) PROVE TypeOK'
  BY <1>1 DEF Receive, AnyLine
<1>2. CASE AddEntry
  BY <1>2 DEF AddEntry, Lock, Shape, StartShape, Entry, Entries, AnyLine
<1>3. CASE AddEntryWorker
  BY <1>3 DEF AddEntryWorker, Unlock
<1>4. CASE EndOfInput
  BY <1>4 DEF EndOfInput
<1>5. CASE LeaveReceiveLoop
  BY <1>5 DEF LeaveReceiveLoop
<1>6. QED
  BY <1>1, <1>2, <1>3, <1>4, <1>5 DEF receive_loop

LEMMA CreateKeepsTypes ==
    ASSUME TypeOK, NEW c \in Creators, create_new_worker(c) PROVE TypeOK'
<1> USE ThreadsAssumption, OptionsAssumption DEF PcType, Labels, MainLabels,
      MgrLabels, DumpLabels, SigLabels, WorkerLabels, Procs, Creators, flags,
      entries, workers, sharedVars, workerVars, localVars, files, disk,
      world, history, system, outside, TypeOK, SharedType, FlagsType,
      LocalType, DiskType, OutsideType
<1>1. CASE CreateNotNeeded(c)
  BY <1>1 DEF CreateNotNeeded, AfterCreate, Unlock
<1>2. ASSUME NEW t \in Threads, NEW h \in Handles, CreateThread(c, t, h)
      PROVE  TypeOK'
  BY <1>2 DEF CreateThread
<1>3. CASE CountWorker(c)
  BY <1>3 DEF CountWorker, AfterCreate, Unlock
<1>4. CASE CreateFails(c)
  BY <1>4 DEF CreateFails
<1>5. QED
  BY <1>1, <1>2, <1>3, <1>4 DEF create_new_worker

LEMMA WorkerKeepsTypes ==
    ASSUME TypeOK, Shape, NEW t \in Threads, thread_worker(t) PROVE TypeOK'
<1> USE ThreadsAssumption, OptionsAssumption DEF PcType, Labels, MainLabels,
      MgrLabels, DumpLabels, SigLabels, WorkerLabels, Procs, Creators, flags,
      entries, workers, sharedVars, workerVars, localVars, files, disk,
      world, history, system, outside, TypeOK, SharedType, FlagsType,
      LocalType, DiskType, OutsideType
<1>1. CASE WorkerLoop(t)
  <2>1. /\ \/ pc' = [pc EXCEPT ![t] = "down"]
           \/ pc' = [pc EXCEPT ![t] = "fetch"]
           \/ pc' = [pc EXCEPT ![t] = "send"]
        /\ looped' = looped \/ looped' = [looped EXCEPT ![t] = TRUE]
    BY <1>1 DEF WorkerLoop
  <2>2. PcType'
    <3>1. CASE pc' = [pc EXCEPT ![t] = "down"]
      BY <3>1
    <3>2. CASE pc' = [pc EXCEPT ![t] = "fetch"]
      BY <3>2
    <3>3. CASE pc' = [pc EXCEPT ![t] = "send"]
      BY <3>3
    <3>4. QED
      BY <2>1, <3>1, <3>2, <3>3
  <2>3. looped' \in [Threads -> BOOLEAN]
    BY <2>1
  <2>4. UNCHANGED <<sharedVars, recv, held, take_new, num_requests, curl, ck,
                    disk, outside>>
    BY <1>1 DEF WorkerLoop
  <2>5. QED
    BY <2>2, <2>3, <2>4
<1>2. CASE FetchLock(t)
  BY <1>2, CompleteType DEF FetchLock, Lock
<1>3. CASE FetchPop(t)
  BY <1>3, PopType DEF FetchPop
<1>4. CASE FetchEmpty(t)
  BY <1>4 DEF FetchEmpty, Unlock
<1>5. CASE FetchRegister(t)
  BY <1>5, DisturbedType DEF FetchRegister, Unlock, Shape, WorkerShape
<1>6. CASE SkipInvalid(t)
  BY <1>6, RequestsType DEF SkipInvalid
<1>7. CASE SkipMissing(t)
  BY <1>7, RequestsType DEF SkipMissing, AfterRequest
<1>8. CASE SendAccepted(t)
  <2>1. PcType' /\ FlagsType'
    BY <1>8 DEF SendAccepted
  <2>2. take_new' \in [Threads -> BOOLEAN]
    BY <1>8 DEF SendAccepted
  <2>3. num_requests' \in [Threads -> Nat]
    BY <1>8, RequestsType DEF SendAccepted
  <2>4. sent' \in [Lines -> Nat]
    BY <1>8 DEF SendAccepted, Sendable
  <2>5. UNCHANGED <<mutex, entries, workers, recv, held, looped, curl, ck,
                    disk, audit, stdin, history, system>>
    BY <1>8 DEF SendAccepted
  <2>6. QED
    BY <2>1, <2>2, <2>3, <2>4, <2>5
<1>9. CASE RemoveFile(t)
  BY <1>9 DEF RemoveFile, AfterRequest
<1>10. CASE SendConflict(t)
  BY <1>10, RequestsType DEF SendConflict, AfterRequest
<1>11. CASE SendFailed(t)
  BY <1>11, RequestsType DEF SendFailed, AfterRequest
<1>12. CASE DownLock(t)
  BY <1>12, CompleteType, DisturbedType DEF DownLock, Lock, Withdraw
<1>13. CASE Requeue(t)
  BY <1>13 DEF Requeue, PutBack
<1>14. CASE Release(t)
  <2>1. curl[t] \in Handles
    BY <1>14 DEF Release, Shape, WorkerShape
  <2>2. curl_handles' \subseteq Handles /\ current_workers' \in Int
    BY <1>14, <2>1 DEF Release, GiveBack, Retired
  <2>3. QED
    BY <1>14, <2>2 DEF Release, Unlock
<1>15. CASE ThreadExit(t)
  BY <1>15 DEF ThreadExit
<1>16. QED
  BY <1>1, <1>2, <1>3, <1>4, <1>5, <1>6, <1>7, <1>8, <1>9, <1>10, <1>11,
     <1>12, <1>13, <1>14, <1>15 DEF thread_worker

LEMMA ManagerKeepsTypes == ASSUME TypeOK, Shape, thread_manager PROVE TypeOK'
<1> USE ThreadsAssumption, OptionsAssumption DEF PcType, Labels, MainLabels,
      MgrLabels, DumpLabels, SigLabels, WorkerLabels, Procs, Creators, flags,
      entries, workers, sharedVars, workerVars, localVars, files, disk,
      world, history, system, outside, TypeOK, SharedType, FlagsType,
      LocalType, DiskType, OutsideType
<1>1. CASE ManagerRound
  BY <1>1 DEF ManagerRound
<1>2. CASE ManagerLock
  BY <1>2 DEF ManagerLock, Lock
<1>3. CASE SkipCheckpoint
  BY <1>3 DEF SkipCheckpoint
<1>4. CASE StartCheckpoint
  <2>1. ck' \in CkType /\ steady' \subseteq Entries /\ qnew' \in File
    BY <1>4, OpenNewType DEF StartCheckpoint
  <2>2. PcType' /\ checkpoints' \in 0..MaxCheckpoints
    BY <1>4 DEF StartCheckpoint, OpenNew
  <2>3. UNCHANGED <<sharedVars, recv, workerVars, qfile, qold, txlog, world,
                    done, status, restarts>>
    BY <1>4 DEF StartCheckpoint
  <2>4. QED
    BY <2>1, <2>2, <2>3
<1>5. CASE Drain
  BY <1>5 DEF Drain
<1>6. CASE FinalCheckpoint
  <2>1. ck' \in CkType /\ steady' \subseteq Entries /\ qnew' \in File
    <3>1. CASE OpenNew(TRUE)
      BY <3>1, OpenNewType
    <3>2. CASE UNCHANGED <<ck, steady, qnew>>
      BY <3>2
    <3>3. QED
      BY <1>6, <3>1, <3>2 DEF FinalCheckpoint
  <2>2. PcType'
    BY <1>6 DEF FinalCheckpoint, OpenNew
  <2>3. UNCHANGED <<sharedVars, recv, workerVars, qfile, qold, txlog, world,
                    done, system>>
    BY <1>6 DEF FinalCheckpoint
  <2>4. QED
    BY <2>1, <2>2, <2>3
<1>7. CASE ManagerExit
  BY <1>7 DEF ManagerExit
<1>8. CASE DumpQueueNext
  <2>1. ck' \in CkType
    <3>1. CASE ck.i <= Len(queue) /\ ck.i # 0
      <4>1. ck.i \in 1..Len(queue)
        BY <3>1 DEF CkType
      <4>2. queue[ck.i] \in Entries
        BY <4>1
      <4>3. ck' = [ck EXCEPT !.cur = queue[ck.i], !.i = @ + 1]
        BY <1>8, <3>1 DEF DumpQueueNext
      <4>4. QED
        BY <4>2, <4>3, CkNextType
    <3>2. CASE ~(ck.i <= Len(queue))
      <4>1. ck' = [ck EXCEPT !.todo = in_progress]
        BY <1>8, <3>2 DEF DumpQueueNext
      <4>2. QED
        BY <4>1, CkCurType
    <3>3. QED
      BY <1>8, <3>1, <3>2 DEF DumpQueueNext, Shape, DumpShape
  <2>2. PcType'
    BY <1>8 DEF DumpQueueNext
  <2>3. UNCHANGED <<sharedVars, recv, workerVars, disk, outside>>
    BY <1>8 DEF DumpQueueNext
  <2>4. QED
    BY <2>1, <2>2, <2>3
<1>9. CASE DumpProgressNext
  <2>1. ck' \in CkType
    <3>1. ASSUME NEW e \in in_progress \cup Astray,
                 ck' = [ck EXCEPT !.cur = e, !.seen = @ \cup {e}]
          PROVE  ck' \in CkType
      BY <3>1, CkSeenType, AstrayType
    <3>2. QED
      BY <1>9, <3>1 DEF DumpProgressNext
  <2>2. PcType'
    <3>1. \/ pc' = [pc EXCEPT ![Mgr] = "ckprogresswrite"]
          \/ pc' = [pc EXCEPT ![Mgr] = "ckremove"]
      BY <1>9 DEF DumpProgressNext
    <3>2. QED
      BY <3>1
  <2>3. UNCHANGED <<sharedVars, recv, workerVars, disk, outside>>
    BY <1>9 DEF DumpProgressNext
  <2>4. QED
    BY <2>1, <2>2, <2>3
<1>10. CASE DumpWrite
  <2>1. ck' \in CkType
    BY <1>10, CkCurType DEF DumpWrite
  <2>2. ck.cur \in Entries /\ qnew \in Seq(AnyLine)
    BY <1>10 DEF DumpWrite, Shape, DumpShape, CkType, File
  <2>3. qnew' \in File
    BY <1>10, <2>2 DEF DumpWrite, Entries, AnyLine, File
  <2>4. PcType'
    BY <1>10 DEF DumpWrite
  <2>5. UNCHANGED <<sharedVars, recv, workerVars, qfile, qold, txlog, outside>>
    BY <1>10 DEF DumpWrite
  <2>6. QED
    BY <2>1, <2>3, <2>4, <2>5
<1>11. CASE RemoveOld
  BY <1>11 DEF RemoveOld, File
<1>12. CASE RenameQueueToOld
  BY <1>12 DEF RenameQueueToOld, Backup, File
<1>13. CASE RenameNewToQueue
  BY <1>13 DEF RenameNewToQueue, File
<1>14. CASE RemoveBackup
  BY <1>14 DEF RemoveBackup, File
<1>15. CASE TruncateLog
  BY <1>15, CkIdleType DEF TruncateLog
<1>16. QED
  BY <1>1, <1>2, <1>3, <1>4, <1>5, <1>6, <1>7, <1>8, <1>9, <1>10, <1>11,
     <1>12, <1>13, <1>14, <1>15 DEF thread_manager, transaction_checkpoint

LEMMA ProcessKeepsTypes ==
    ASSUME TypeOK,
           \/ Signal \/ \E p \in {Main, Mgr, Sig} : logc_shutdown(p)
           \/ Timeout \/ Restart
    PROVE  TypeOK'
<1> USE ThreadsAssumption, OptionsAssumption DEF PcType, Labels, MainLabels,
      MgrLabels, DumpLabels, SigLabels, WorkerLabels, Procs, Creators, flags,
      entries, workers, sharedVars, workerVars, localVars, files, disk,
      world, history, system, outside, TypeOK, SharedType, FlagsType,
      LocalType, DiskType, OutsideType
<1>1. CASE Signal
  BY <1>1 DEF Signal
<1>2. ASSUME NEW p \in {Main, Mgr, Sig}, Shutdown(p) PROVE TypeOK'
  <2>1. PcType'
    <3>1. CASE p = Main
      BY <1>2, <3>1 DEF Shutdown
    <3>2. CASE p = Mgr
      BY <1>2, <3>2 DEF Shutdown
    <3>3. CASE p = Sig
      BY <1>2, <3>3 DEF Shutdown
    <3>4. QED
      BY <3>1, <3>2, <3>3
  <2>2. QED
    BY <1>2, <2>1 DEF Shutdown
<1>3. ASSUME NEW p \in {Main, Mgr, Sig}, ExitProcess(p) PROVE TypeOK'
  BY <1>3 DEF ExitProcess
<1>4. CASE Timeout
  BY <1>4 DEF Timeout
<1>5. CASE Restart
  <2>1. PcType' /\ SharedType'
    BY <1>5 DEF Restart
  <2>2. FlagsType'
    BY <1>5 DEF Restart
  <2>5. recv' \in Lines \cup {None}
        /\ held' \in [Threads -> Entries \cup {None}]
        /\ num_requests' \in [Threads -> Nat]
        /\ curl' \in [Threads -> Handles \cup {None}]
    BY <1>5 DEF Restart
  <2>6. take_new' \in [Threads -> BOOLEAN] /\ looped' \in [Threads -> BOOLEAN]
    BY <1>5 DEF Restart
  <2>3. ck' \in CkType /\ DiskType' /\ OutsideType'
    BY <1>5, CkIdleType DEF Restart
  <2>4. QED
    BY <2>1, <2>2, <2>3, <2>5, <2>6
<1>6. QED
  BY <1>1, <1>2, <1>3, <1>4, <1>5 DEF logc_shutdown

-----------------------------------------------------------------------------
(* Every action keeps Shape.                                               *)

LEMMA OpenNewShape ==
    ASSUME PcType, NEW final \in BOOLEAN, OpenNew(final)
    PROVE  DumpShape'
<1>1. ck'.i = 1
  BY DEF OpenNew, CkIdle
<1>2. <<>> \in Seq(AnyLine)
  OBVIOUS
<1>3. qnew' # NoFile
  BY <1>2, LinesAssumption DEF OpenNew
<1>4. pc'[Mgr] = "ckqueue"
  BY DEF OpenNew, PcType, Procs
<1>5. QED
  BY <1>1, <1>3, <1>4 DEF DumpShape

LEMMA StartupKeepsShape ==
    ASSUME TypeOK, Shape, Startup PROVE Shape'
<1> USE ThreadsAssumption DEF TypeOK, PcType, LocalType, CkType, DiskType,
      Shape, WorkerShape, DumpShape, StartShape, flags, entries, workers,
      sharedVars, workerVars, localVars, files, disk, world, history, system,
      outside, Procs, Creators
<1>1. CASE LoadQueue
  BY <1>1 DEF LoadQueue
<1>2. CASE AdoptOld
  BY <1>2 DEF AdoptOld
<1>3. CASE StartThreads
  BY <1>3 DEF StartThreads
<1>4. CASE StartFails
  BY <1>4 DEF StartFails
<1>5. QED
  BY <1>1, <1>2, <1>3, <1>4 DEF Startup

LEMMA ReceiveKeepsShape ==
    ASSUME TypeOK, Shape, receive_loop PROVE Shape'
<1> USE ThreadsAssumption DEF TypeOK, PcType, LocalType, CkType, DiskType,
      Shape, WorkerShape, DumpShape, StartShape, flags, entries, workers,
      sharedVars, workerVars, localVars, files, disk, world, history, system,
      outside, Procs, Creators
<1>1. ASSUME NEW l \in Lines, Receive(l) PROVE Shape'
  BY <1>1, LinesAssumption DEF Receive
<1>2. CASE AddEntry
  BY <1>2 DEF AddEntry, Lock
<1>3. CASE AddEntryWorker
  BY <1>3 DEF AddEntryWorker, Unlock
<1>4. CASE EndOfInput
  BY <1>4 DEF EndOfInput
<1>5. CASE LeaveReceiveLoop
  BY <1>5 DEF LeaveReceiveLoop
<1>6. QED
  BY <1>1, <1>2, <1>3, <1>4, <1>5 DEF receive_loop

LEMMA CreateKeepsShape ==
    ASSUME TypeOK, Shape, NEW c \in Creators, create_new_worker(c) PROVE Shape'
<1> USE ThreadsAssumption DEF TypeOK, PcType, LocalType, CkType, DiskType,
      Shape, WorkerShape, DumpShape, StartShape, flags, entries, workers,
      sharedVars, workerVars, localVars, files, disk, world, history, system,
      outside, Procs, Creators
<1>1. CASE CreateNotNeeded(c)
  BY <1>1 DEF CreateNotNeeded, AfterCreate, Unlock
<1>2. ASSUME NEW t \in Threads, NEW h \in Handles, CreateThread(c, t, h)
      PROVE  Shape'
  BY <1>2 DEF CreateThread
<1>3. CASE CountWorker(c)
  BY <1>3 DEF CountWorker, AfterCreate, Unlock
<1>4. CASE CreateFails(c)
  BY <1>4 DEF CreateFails
<1>5. QED
  BY <1>1, <1>2, <1>3, <1>4 DEF create_new_worker

LEMMA WorkerKeepsShape ==
    ASSUME TypeOK, Shape, NEW t \in Threads, thread_worker(t) PROVE Shape'
<1> USE ThreadsAssumption DEF TypeOK, PcType, LocalType, CkType, DiskType,
      Shape, WorkerShape, DumpShape, StartShape, flags, entries, workers,
      sharedVars, workerVars, localVars, files, disk, world, history, system,
      outside, Procs, Creators
<1>1. CASE WorkerLoop(t)
  BY <1>1 DEF WorkerLoop
<1>2. CASE FetchLock(t)
  BY <1>2, DisturbedType DEF FetchLock, Lock, Complete
<1>3. CASE FetchPop(t)
  <2>1. Pop(queue).entry # None
    BY <1>3, PopType, LinesAssumption DEF FetchPop, SharedType
  <2>2. QED
    BY <1>3, <2>1 DEF FetchPop
<1>4. CASE FetchEmpty(t)
  BY <1>4 DEF FetchEmpty, Unlock
<1>5. CASE FetchRegister(t)
  BY <1>5, DisturbedType DEF FetchRegister, Unlock
<1>6. CASE SkipInvalid(t)
  BY <1>6 DEF SkipInvalid
<1>7. CASE SkipMissing(t)
  BY <1>7 DEF SkipMissing, AfterRequest
<1>8. CASE SendAccepted(t)
  BY <1>8 DEF SendAccepted, Sendable
<1>9. CASE RemoveFile(t)
  BY <1>9 DEF RemoveFile, AfterRequest
<1>10. CASE SendConflict(t)
  BY <1>10 DEF SendConflict, AfterRequest
<1>11. CASE SendFailed(t)
  BY <1>11 DEF SendFailed, AfterRequest
<1>12. CASE DownLock(t)
  BY <1>12, DisturbedType DEF DownLock, Lock, Complete
<1>13. CASE Requeue(t)
  BY <1>13 DEF Requeue
<1>14. CASE Release(t)
  BY <1>14 DEF Release
<1>15. CASE ThreadExit(t)
  BY <1>15 DEF ThreadExit
<1>16. QED
  BY <1>1, <1>2, <1>3, <1>4, <1>5, <1>6, <1>7, <1>8, <1>9, <1>10, <1>11,
     <1>12, <1>13, <1>14, <1>15 DEF thread_worker

LEMMA ManagerKeepsShape ==
    ASSUME TypeOK, Shape, thread_manager PROVE Shape'
<1> USE ThreadsAssumption DEF TypeOK, PcType, LocalType, CkType, DiskType,
      Shape, WorkerShape, DumpShape, StartShape, flags, entries, workers,
      sharedVars, workerVars, localVars, files, disk, world, history, system,
      outside, Procs, Creators
<1>1. CASE ManagerRound
  BY <1>1 DEF ManagerRound
<1>2. CASE ManagerLock
  BY <1>2 DEF ManagerLock, Lock
<1>3. CASE SkipCheckpoint
  BY <1>3 DEF SkipCheckpoint
<1>4. CASE StartCheckpoint
  <2>1. WorkerShape' /\ StartShape'
    BY <1>4 DEF StartCheckpoint, OpenNew
  <2>2. DumpShape'
    BY <1>4, OpenNewShape DEF StartCheckpoint
  <2>9. QED
    BY <2>1, <2>2
<1>5. CASE Drain
  BY <1>5 DEF Drain
<1>6. CASE FinalCheckpoint
  <2>1. WorkerShape' /\ StartShape'
    BY <1>6 DEF FinalCheckpoint, OpenNew
  <2>2. DumpShape'
    <3>1. CASE OpenNew(TRUE)
      BY <3>1, OpenNewShape
    <3>2. CASE pc' = [pc EXCEPT ![Mgr] = "leave"]
      BY <3>2
    <3>3. QED
      BY <1>6, <3>1, <3>2 DEF FinalCheckpoint
  <2>9. QED
    BY <2>1, <2>2
<1>7. CASE ManagerExit
  BY <1>7 DEF ManagerExit
<1>8. CASE DumpQueueNext
  <2>1. WorkerShape' /\ StartShape'
    BY <1>8 DEF DumpQueueNext
  <2>2. DumpShape'
    <3>1. CASE ck.i <= Len(queue)
      <4>1. ck.i \in 1..Len(queue)
        BY <1>8, <3>1 DEF DumpQueueNext
      <4>2. queue[ck.i] # None
        BY <4>1, LinesAssumption DEF SharedType
      <4>3. ck'.cur = queue[ck.i] /\ ck'.i = ck.i + 1
        BY <1>8, <3>1 DEF DumpQueueNext
      <4>4. QED
        BY <1>8, <3>1, <4>2, <4>3 DEF DumpQueueNext
    <3>2. CASE ~(ck.i <= Len(queue))
      BY <1>8, <3>2 DEF DumpQueueNext
    <3>3. QED
      BY <3>1, <3>2
  <2>9. QED
    BY <2>1, <2>2
<1>9. CASE DumpProgressNext
  <2>1. WorkerShape' /\ StartShape'
    BY <1>9 DEF DumpProgressNext
  <2>2. DumpShape'
    <3>1. ASSUME NEW e \in in_progress \cup Astray,
                 ck' = [ck EXCEPT !.cur = e, !.seen = @ \cup {e}]
          PROVE  ck'.cur # None
      BY <3>1, AstrayType, LinesAssumption DEF SharedType
    <3>2. QED
      BY <1>9, <3>1 DEF DumpProgressNext
  <2>9. QED
    BY <2>1, <2>2
<1>10. CASE DumpWrite
  <2>1. WorkerShape' /\ StartShape'
    BY <1>10 DEF DumpWrite
  <2>2. DumpShape'
    <3>1. qnew \in Seq(AnyLine) /\ ck.cur \in Entries
      BY <1>10 DEF DumpWrite, File
    <3>2. qnew' \in Seq(AnyLine)
      BY <1>10, <3>1 DEF DumpWrite, Entries, AnyLine
    <3>3. ck'.i = ck.i
      BY <1>10 DEF DumpWrite
    <3>4. QED
      BY <1>10, <3>2, <3>3, LinesAssumption DEF DumpWrite
  <2>9. QED
    BY <2>1, <2>2
<1>11. CASE RemoveOld
  BY <1>11 DEF RemoveOld
<1>12. CASE RenameQueueToOld
  BY <1>12 DEF RenameQueueToOld
<1>13. CASE RenameNewToQueue
  BY <1>13 DEF RenameNewToQueue
<1>14. CASE RemoveBackup
  BY <1>14 DEF RemoveBackup
<1>15. CASE TruncateLog
  BY <1>15 DEF TruncateLog
<1>16. QED
  BY <1>1, <1>2, <1>3, <1>4, <1>5, <1>6, <1>7, <1>8, <1>9, <1>10, <1>11,
     <1>12, <1>13, <1>14, <1>15 DEF thread_manager, transaction_checkpoint

LEMMA ProcessKeepsShape ==
    ASSUME TypeOK, Shape,
           \/ Signal \/ \E p \in {Main, Mgr, Sig} : logc_shutdown(p)
           \/ Timeout \/ Restart
    PROVE  Shape'
<1> USE ThreadsAssumption DEF TypeOK, PcType, LocalType, CkType, DiskType,
      Shape, WorkerShape, DumpShape, StartShape, flags, entries, workers,
      sharedVars, workerVars, localVars, files, disk, world, history, system,
      outside, Procs, Creators
<1>1. CASE Signal
  BY <1>1 DEF Signal
<1>2. ASSUME NEW p \in {Main, Mgr, Sig}, Shutdown(p) PROVE Shape'
  BY <1>2 DEF Shutdown
<1>3. ASSUME NEW p \in {Main, Mgr, Sig}, ExitProcess(p) PROVE Shape'
  BY <1>3 DEF ExitProcess
<1>4. CASE Timeout
  BY <1>4 DEF Timeout
<1>5. CASE Restart
  BY <1>5 DEF Restart
<1>6. QED
  BY <1>1, <1>2, <1>3, <1>4, <1>5 DEF logc_shutdown

-----------------------------------------------------------------------------
(* The theorem.                                                            *)

\* The inductive invariant of the types.
TypeInv == TypeOK /\ Shape

LEMMA TypeInvInit == Init => TypeInv
<1> SUFFICES ASSUME Init PROVE TypeInv
  OBVIOUS
<1> USE LinesAssumption, ThreadsAssumption, OptionsAssumption DEF Init
<1>1. PcType
  BY DEF PcType, Labels, MainLabels, MgrLabels, DumpLabels, SigLabels,
     WorkerLabels, Procs
<1>2. SharedType
  BY DEF SharedType
<1>3. FlagsType
  BY DEF FlagsType
<1>4. take_new \in [Threads -> BOOLEAN] /\ looped \in [Threads -> BOOLEAN]
  OBVIOUS
<1>5. LocalType
  BY <1>4 DEF LocalType
<1>6. ck \in CkType
  BY CkIdleType
<1>7. DiskType
  BY DEF DiskType, File
<1>8. OutsideType
  BY DEF OutsideType
<1>9. Shape
  BY DEF Shape, WorkerShape, DumpShape, StartShape, Procs
<1>10. QED
  BY <1>1, <1>2, <1>3, <1>5, <1>6, <1>7, <1>8, <1>9 DEF TypeInv, TypeOK

LEMMA TypeInvStep == TypeInv /\ [Next]_vars => TypeInv'
<1> SUFFICES ASSUME TypeOK, Shape, [Next]_vars PROVE TypeOK' /\ Shape'
  BY DEF TypeInv
<1>1. CASE UNCHANGED vars
  <2>1. UNCHANGED <<pc, mutex, queue, in_progress, entry_counter, curl_handles,
          current_workers, running, server_error, check_due, have_read_data,
          management_thread_active, recv, held, take_new, looped,
          num_requests, curl, ck, qfile, qold, qnew, txlog, audit, stdin,
          sent, done, steady, status, checkpoints, restarts>>
    BY <1>1 DEF vars, flags, entries, workers, sharedVars, workerVars,
     localVars, files, disk, world, history, system, outside
  <2>2. TypeOK'
    BY <2>1 DEF TypeOK, PcType, SharedType, FlagsType, LocalType, DiskType,
       OutsideType
  <2>3. Shape'
    BY <2>1 DEF Shape, WorkerShape, DumpShape, StartShape
  <2>4. QED
    BY <2>2, <2>3
<1>2. CASE Next
  <2>1. TypeOK'
    BY <1>2, StartupKeepsTypes, ReceiveKeepsTypes, CreateKeepsTypes,
       WorkerKeepsTypes, ManagerKeepsTypes, ProcessKeepsTypes DEF Next
  <2>2. Shape'
    BY <1>2, StartupKeepsShape, ReceiveKeepsShape, CreateKeepsShape,
       WorkerKeepsShape, ManagerKeepsShape, ProcessKeepsShape DEF Next
  <2>3. QED
    BY <2>1, <2>2
<1>3. QED
  BY <1>1, <1>2

\* The variables of the collector keep their types, and its threads are where
\* the code of their kind can be, whatever the sizes, crashes and failures.
THEOREM TypeCorrect == Spec => []TypeOK
<1>1. TypeInv => TypeOK
  BY DEF TypeInv
<1>2. QED
  BY <1>1, TypeInvInit, TypeInvStep, PTL DEF Spec

\* Types and shape, for the proofs that rest on them.
THEOREM TypeInvCorrect == Spec => []TypeInv
  BY TypeInvInit, TypeInvStep, PTL DEF Spec

-----------------------------------------------------------------------------
(* Safety.                                                                 *)


\* AuditFileKept is not inductive: a worker deletes a file some time after the
\* console has answered, and must still hold that entry then.
AuditShape ==
    /\ AuditFileKept
    /\ \A t \in Threads : pc[t] = "remove" =>
          held[t].line \in Lines /\ sent[held[t].line] > 0

\* Worker t has put its entry into in_progress and not taken it out.
Registered(t) == held[t] # None /\ pc[t] \notin {"register", "requeue"}

\* The queue holds an entry once, and only entries numbered before.
QueueApart ==
    /\ IsInjective(queue)
    /\ \A e \in Range(queue) : e.id < entry_counter

\* What a worker holds is nowhere else.
HeldApart ==
    /\ \A t \in Threads :
          /\ held[t] # None => /\ held[t] \notin Range(queue)
                               /\ held[t].id < entry_counter
          /\ pc[t] \in {"none", "exit", "release", "pop"} => held[t] = None
    /\ \A t, u \in Threads : held[t] # None /\ t # u => held[t] # held[u]

\* in_progress lists what the registered workers hold.
ProgressExact ==
    /\ \A t \in Threads : Registered(t) => held[t] \in in_progress
    /\ \A e \in in_progress : \E t \in Threads : Registered(t) /\ held[t] = e

\* No worker runs before the queue file was loaded.
NoWorkerYet ==
    pc[Main] \in {"init", "adopt", "start"} => \A t \in Threads : pc[t] = "none"

\* EntryOwnedOnce, with what makes it inductive: entries are numbered in
\* ascending order, and a worker at certain places holds none.
EntryShape ==
    status = "up" => QueueApart /\ HeldApart /\ ProgressExact /\ NoWorkerYet

\* A process that has exited has no threads.
ExitedStill == status = "exited" => \A p \in Procs : pc[p] = "none"

\* Where the dump of the queue, and that of in_progress, is under way; where
\* both are complete; and where .new exists.
InQueue    == {"ckqueue", "ckqueuewrite"}
InProgress == {"ckprogress", "ckprogresswrite"}
Dumped     == {"ckremove", "ckbackup", "ckinstall"}
HasNew     == InQueue \cup InProgress \cup Dumped

\* The line of an entry is in the new queue file.
Written(e) == e.line \in Range(qnew)

\* An entry of the hash that a disturbed iteration may miss.
Missed(e) == ck.stale /\ e \in in_progress

\* An entry that did not move is among what the dump has still to visit, or
\* its pointer has just been read, or its line is written, or it may be missed.
\* Entries are pushed and popped at the end of the queue only, so what stays
\* keeps its index.
DumpCovers ==
    /\ pc[Mgr] \in InQueue => ck.seen = {}
    /\ pc[Mgr] \in InQueue => \A e \in steady :
          \/ e \in in_progress
          \/ \E j \in 1..Len(queue) :
                /\ queue[j] = e
                /\ j < ck.i => \/ Written(e)
                               \/ pc[Mgr] = "ckqueuewrite" /\ ck.cur = e
    /\ pc[Mgr] \in InProgress => \A e \in steady :
          \/ Written(e) \/ Missed(e)
          \/ /\ e \in in_progress
             /\ e \in ck.seen => pc[Mgr] = "ckprogresswrite" /\ ck.cur = e
    /\ pc[Mgr] \in Dumped => \A e \in steady : Written(e) \/ Missed(e)

\* A step that is not the dump's; it may disturb the iteration.
DumpWaits ==
    /\ qnew' = qnew /\ ck'.i = ck.i /\ ck'.cur = ck.cur /\ ck'.seen = ck.seen
    /\ ck.stale => ck'.stale

\* The threads have been started.
Started == pc[Main] \notin {"init", "adopt", "start"}

\* The management thread was told to stop; it has found no worker counted.
Closing == \/ pc[Mgr] \in {"none", "drain", "leave"}
           \/ pc[Mgr] \in DumpLabels /\ ck.final
Closed  == Closing /\ pc[Mgr] # "drain"

\* Flags and program points on the way to an exit.
CloseOrder ==
    status = "up" =>
       /\ recv # None => pc[Main] = "add"
       /\ ~Signals => pc[Sig] \in {"none", "wait"}
       /\ Started /\ ~management_thread_active => pc[Mgr] = "none"
       /\ ~Signals /\ Started /\ ~running =>
             pc[Main] = "shutwait" \/ pc[Mgr] = "shutwait"
       /\ Started /\ Closing => ~running
       /\ pc[Main] # "init" /\ pc[Mgr] \notin HasNew => qnew = NoFile
       /\ restarts = 0 /\ ~have_read_data => stdin = Lines
       /\ ~Started => ~have_read_data

\* What was accepted is completed or in the queue file.
Stored ==
    \A l \in Lines \ stdin :
       l \in done \/ (qfile # NoFile /\ l \in Range(qfile))

\* At the final checkpoint no worker is left, so every entry waits in the
\* queue and stays there, and the new queue file receives all of them.
FinalDump ==
    status = "up" /\ ~Signals /\ Started /\ Closed =>
       /\ Alive = {}
       /\ pc[Mgr] \in HasNew => Range(queue) \subseteq steady
       /\ restarts = 0 /\ pc[Mgr] \notin HasNew => Stored

-----------------------------------------------------------------------------
(* The thread mutex.                                                       *)

LEMMA StartupKeepsMutex ==
    ASSUME TypeOK, Shape, MutexOwner, Startup PROVE MutexOwner'
<1> USE ThreadsAssumption DEF TypeOK, PcType, MainLabels, MgrLabels,
      DumpLabels, SigLabels, WorkerLabels, SharedType, Shape, StartShape,
      MutexOwner, Critical, flags, entries, workers, sharedVars, workerVars,
      localVars, files, disk, world, history, system, outside, Procs,
      Creators
<1>1. CASE LoadQueue
  BY <1>1 DEF LoadQueue
<1>2. CASE AdoptOld
  BY <1>2 DEF AdoptOld
<1>3. CASE StartThreads
  BY <1>3 DEF StartThreads
<1>4. CASE StartFails
  BY <1>4 DEF StartFails
<1>5. QED
  BY <1>1, <1>2, <1>3, <1>4 DEF Startup

LEMMA ReceiveKeepsMutex ==
    ASSUME TypeOK, Shape, MutexOwner, receive_loop PROVE MutexOwner'
<1> USE ThreadsAssumption DEF TypeOK, PcType, MainLabels, MgrLabels,
      DumpLabels, SigLabels, WorkerLabels, SharedType, Shape, StartShape,
      MutexOwner, Critical, flags, entries, workers, sharedVars, workerVars,
      localVars, files, disk, world, history, system, outside, Procs,
      Creators
<1>1. ASSUME NEW l \in Lines, Receive(l) PROVE MutexOwner'
  BY <1>1 DEF Receive
<1>2. CASE AddEntry
  BY <1>2 DEF AddEntry, Lock
<1>3. CASE AddEntryWorker
  BY <1>3 DEF AddEntryWorker, Unlock
<1>4. CASE EndOfInput
  BY <1>4 DEF EndOfInput
<1>5. CASE LeaveReceiveLoop
  BY <1>5 DEF LeaveReceiveLoop
<1>6. QED
  BY <1>1, <1>2, <1>3, <1>4, <1>5 DEF receive_loop

LEMMA CreateKeepsMutex ==
    ASSUME TypeOK, Shape, MutexOwner, NEW c \in Creators, create_new_worker(c) PROVE MutexOwner'
<1> USE ThreadsAssumption DEF TypeOK, PcType, MainLabels, MgrLabels,
      DumpLabels, SigLabels, WorkerLabels, SharedType, Shape, StartShape,
      MutexOwner, Critical, flags, entries, workers, sharedVars, workerVars,
      localVars, files, disk, world, history, system, outside, Procs,
      Creators
<1>1. CASE CreateNotNeeded(c)
  BY <1>1 DEF CreateNotNeeded, AfterCreate, Unlock
<1>2. ASSUME NEW t \in Threads, NEW h \in Handles, CreateThread(c, t, h)
      PROVE  MutexOwner'
  BY <1>2 DEF CreateThread
<1>3. CASE CountWorker(c)
  BY <1>3 DEF CountWorker, AfterCreate, Unlock
<1>4. CASE CreateFails(c)
  BY <1>4 DEF CreateFails
<1>5. QED
  BY <1>1, <1>2, <1>3, <1>4 DEF create_new_worker

LEMMA WorkerKeepsMutex ==
    ASSUME TypeOK, Shape, MutexOwner, NEW t \in Threads, thread_worker(t) PROVE MutexOwner'
<1> USE ThreadsAssumption DEF TypeOK, PcType, MainLabels, MgrLabels,
      DumpLabels, SigLabels, WorkerLabels, SharedType, Shape, StartShape,
      MutexOwner, Critical, flags, entries, workers, sharedVars, workerVars,
      localVars, files, disk, world, history, system, outside, Procs,
      Creators
<1>1. CASE WorkerLoop(t)
  BY <1>1 DEF WorkerLoop
<1>2. CASE FetchLock(t)
  BY <1>2 DEF FetchLock, Lock, Complete
<1>3. CASE FetchPop(t)
  BY <1>3 DEF FetchPop
<1>4. CASE FetchEmpty(t)
  BY <1>4 DEF FetchEmpty, Unlock
<1>5. CASE FetchRegister(t)
  BY <1>5 DEF FetchRegister, Unlock
<1>6. CASE SkipInvalid(t)
  BY <1>6 DEF SkipInvalid
<1>7. CASE SkipMissing(t)
  BY <1>7 DEF SkipMissing, AfterRequest
<1>8. CASE SendAccepted(t)
  BY <1>8 DEF SendAccepted, Sendable
<1>9. CASE RemoveFile(t)
  BY <1>9 DEF RemoveFile, AfterRequest
<1>10. CASE SendConflict(t)
  BY <1>10 DEF SendConflict, AfterRequest
<1>11. CASE SendFailed(t)
  BY <1>11 DEF SendFailed, AfterRequest
<1>12. CASE DownLock(t)
  BY <1>12 DEF DownLock, Lock, Complete
<1>13. CASE Requeue(t)
  BY <1>13 DEF Requeue
<1>14. CASE Release(t)
  BY <1>14 DEF Release, Unlock
<1>15. CASE ThreadExit(t)
  BY <1>15 DEF ThreadExit
<1>16. QED
  BY <1>1, <1>2, <1>3, <1>4, <1>5, <1>6, <1>7, <1>8, <1>9, <1>10, <1>11,
     <1>12, <1>13, <1>14, <1>15 DEF thread_worker

LEMMA ManagerKeepsMutex ==
    ASSUME TypeOK, Shape, MutexOwner, thread_manager PROVE MutexOwner'
<1> USE ThreadsAssumption DEF TypeOK, PcType, MainLabels, MgrLabels,
      DumpLabels, SigLabels, WorkerLabels, SharedType, Shape, StartShape,
      MutexOwner, Critical, flags, entries, workers, sharedVars, workerVars,
      localVars, files, disk, world, history, system, outside, Procs,
      Creators
<1>1. CASE ManagerRound
  BY <1>1 DEF ManagerRound
<1>2. CASE ManagerLock
  BY <1>2 DEF ManagerLock, Lock
<1>3. CASE SkipCheckpoint
  BY <1>3 DEF SkipCheckpoint
<1>4. CASE StartCheckpoint
  BY <1>4 DEF StartCheckpoint, OpenNew
<1>5. CASE Drain
  BY <1>5 DEF Drain
<1>6. CASE FinalCheckpoint
  BY <1>6 DEF FinalCheckpoint, OpenNew
<1>7. CASE ManagerExit
  BY <1>7 DEF ManagerExit
<1>8. CASE DumpQueueNext
  BY <1>8 DEF DumpQueueNext
<1>9. CASE DumpProgressNext
  BY <1>9 DEF DumpProgressNext
<1>10. CASE DumpWrite
  BY <1>10 DEF DumpWrite
<1>11. CASE RemoveOld
  BY <1>11 DEF RemoveOld
<1>12. CASE RenameQueueToOld
  BY <1>12 DEF RenameQueueToOld
<1>13. CASE RenameNewToQueue
  BY <1>13 DEF RenameNewToQueue
<1>14. CASE RemoveBackup
  BY <1>14 DEF RemoveBackup
<1>15. CASE TruncateLog
  BY <1>15 DEF TruncateLog
<1>16. QED
  BY <1>1, <1>2, <1>3, <1>4, <1>5, <1>6, <1>7, <1>8, <1>9, <1>10, <1>11,
     <1>12, <1>13, <1>14, <1>15 DEF thread_manager, transaction_checkpoint

LEMMA ProcessKeepsMutex ==
    ASSUME TypeOK, Shape, MutexOwner,
           \/ Signal \/ \E p \in {Main, Mgr, Sig} : logc_shutdown(p)
           \/ Timeout \/ Restart
    PROVE  MutexOwner'
<1> USE ThreadsAssumption DEF TypeOK, PcType, MainLabels, MgrLabels,
      DumpLabels, SigLabels, WorkerLabels, SharedType, Shape, StartShape,
      MutexOwner, Critical, flags, entries, workers, sharedVars, workerVars,
      localVars, files, disk, world, history, system, outside, Procs,
      Creators
<1>1. CASE Signal
  BY <1>1 DEF Signal
<1>2. ASSUME NEW p \in {Main, Mgr, Sig}, Shutdown(p) PROVE MutexOwner'
  BY <1>2 DEF Shutdown
<1>3. ASSUME NEW p \in {Main, Mgr, Sig}, ExitProcess(p) PROVE MutexOwner'
  BY <1>3 DEF ExitProcess
<1>4. CASE Timeout
  BY <1>4 DEF Timeout
<1>5. CASE Restart
  BY <1>5 DEF Restart
<1>6. QED
  BY <1>1, <1>2, <1>3, <1>4, <1>5 DEF logc_shutdown

LEMMA MutexInit == Init => MutexOwner
  BY LinesAssumption, ThreadsAssumption DEF Init, MutexOwner, Critical, Procs

LEMMA MutexStep == TypeInv /\ MutexOwner /\ [Next]_vars => MutexOwner'
<1> SUFFICES ASSUME TypeOK, Shape, MutexOwner, [Next]_vars PROVE MutexOwner'
  BY DEF TypeInv
<1>1. CASE UNCHANGED vars
  BY <1>1 DEF vars, MutexOwner, Critical, flags, entries, workers,
     sharedVars, workerVars,
     localVars, files, disk, world, history, system, outside
<1>2. CASE Next
  BY <1>2, StartupKeepsMutex, ReceiveKeepsMutex, CreateKeepsMutex,
     WorkerKeepsMutex, ManagerKeepsMutex, ProcessKeepsMutex DEF Next
<1>3. QED
  BY <1>1, <1>2

\* In add_entry, create_new_worker and thread_worker, the thread that is in
\* a critical section owns the thread mutex, and nobody keeps it outside one
\* (except a main thread that shuts down because create_new_worker failed).
THEOREM MutexOwnerCorrect == Spec => []MutexOwner
  BY MutexInit, MutexStep, TypeInvCorrect, PTL DEF Spec

-----------------------------------------------------------------------------
(* Audit files.                                                            *)

LEMMA StartupKeepsAudit ==
    ASSUME TypeOK, Shape, AuditShape, Startup PROVE AuditShape'
<1> USE ThreadsAssumption DEF TypeOK, PcType, LocalType, OutsideType,
      AuditShape, AuditFileKept, flags, entries, workers, sharedVars,
      workerVars, localVars, files, disk, world, history, system, outside,
      Procs, Creators
<1>1. CASE LoadQueue
  BY <1>1 DEF LoadQueue
<1>2. CASE AdoptOld
  BY <1>2 DEF AdoptOld
<1>3. CASE StartThreads
  BY <1>3 DEF StartThreads
<1>4. CASE StartFails
  BY <1>4 DEF StartFails
<1>5. QED
  BY <1>1, <1>2, <1>3, <1>4 DEF Startup

LEMMA ReceiveKeepsAudit ==
    ASSUME TypeOK, Shape, AuditShape, receive_loop PROVE AuditShape'
<1> USE ThreadsAssumption DEF TypeOK, PcType, LocalType, OutsideType,
      AuditShape, AuditFileKept, flags, entries, workers, sharedVars,
      workerVars, localVars, files, disk, world, history, system, outside,
      Procs, Creators
<1>1. ASSUME NEW l \in Lines, Receive(l) PROVE AuditShape'
  BY <1>1 DEF Receive
<1>2. CASE AddEntry
  BY <1>2 DEF AddEntry, Lock
<1>3. CASE AddEntryWorker
  BY <1>3 DEF AddEntryWorker, Unlock
<1>4. CASE EndOfInput
  BY <1>4 DEF EndOfInput
<1>5. CASE LeaveReceiveLoop
  BY <1>5 DEF LeaveReceiveLoop
<1>6. QED
  BY <1>1, <1>2, <1>3, <1>4, <1>5 DEF receive_loop

LEMMA CreateKeepsAudit ==
    ASSUME TypeOK, Shape, AuditShape, NEW c \in Creators, create_new_worker(c) PROVE AuditShape'
<1> USE ThreadsAssumption DEF TypeOK, PcType, LocalType, OutsideType,
      AuditShape, AuditFileKept, flags, entries, workers, sharedVars,
      workerVars, localVars, files, disk, world, history, system, outside,
      Procs, Creators
<1>1. CASE CreateNotNeeded(c)
  BY <1>1 DEF CreateNotNeeded, AfterCreate, Unlock
<1>2. ASSUME NEW t \in Threads, NEW h \in Handles, CreateThread(c, t, h)
      PROVE  AuditShape'
  BY <1>2 DEF CreateThread
<1>3. CASE CountWorker(c)
  BY <1>3 DEF CountWorker, AfterCreate, Unlock
<1>4. CASE CreateFails(c)
  BY <1>4 DEF CreateFails
<1>5. QED
  BY <1>1, <1>2, <1>3, <1>4 DEF create_new_worker

LEMMA WorkerKeepsAudit ==
    ASSUME TypeOK, Shape, AuditShape, NEW t \in Threads, thread_worker(t) PROVE AuditShape'
<1> USE ThreadsAssumption DEF TypeOK, PcType, LocalType, OutsideType,
      AuditShape, AuditFileKept, flags, entries, workers, sharedVars,
      workerVars, localVars, files, disk, world, history, system, outside,
      Procs, Creators
<1>1. CASE WorkerLoop(t)
  BY <1>1 DEF WorkerLoop
<1>2. CASE FetchLock(t)
  BY <1>2 DEF FetchLock, Lock, Complete
<1>3. CASE FetchPop(t)
  BY <1>3 DEF FetchPop
<1>4. CASE FetchEmpty(t)
  BY <1>4 DEF FetchEmpty, Unlock
<1>5. CASE FetchRegister(t)
  BY <1>5 DEF FetchRegister, Unlock
<1>6. CASE SkipInvalid(t)
  BY <1>6 DEF SkipInvalid
<1>7. CASE SkipMissing(t)
  BY <1>7 DEF SkipMissing, AfterRequest
<1>8. CASE SendAccepted(t)
  BY <1>8 DEF SendAccepted, Sendable
<1>9. CASE RemoveFile(t)
  BY <1>9 DEF RemoveFile, AfterRequest
<1>10. CASE SendConflict(t)
  BY <1>10 DEF SendConflict, AfterRequest
<1>11. CASE SendFailed(t)
  BY <1>11 DEF SendFailed, AfterRequest
<1>12. CASE DownLock(t)
  BY <1>12 DEF DownLock, Lock, Complete
<1>13. CASE Requeue(t)
  BY <1>13 DEF Requeue
<1>14. CASE Release(t)
  BY <1>14 DEF Release, Unlock
<1>15. CASE ThreadExit(t)
  BY <1>15 DEF ThreadExit
<1>16. QED
  BY <1>1, <1>2, <1>3, <1>4, <1>5, <1>6, <1>7, <1>8, <1>9, <1>10, <1>11,
     <1>12, <1>13, <1>14, <1>15 DEF thread_worker

LEMMA ManagerKeepsAudit ==
    ASSUME TypeOK, Shape, AuditShape, thread_manager PROVE AuditShape'
<1> USE ThreadsAssumption DEF TypeOK, PcType, LocalType, OutsideType,
      AuditShape, AuditFileKept, flags, entries, workers, sharedVars,
      workerVars, localVars, files, disk, world, history, system, outside,
      Procs, Creators
<1>1. CASE ManagerRound
  BY <1>1 DEF ManagerRound
<1>2. CASE ManagerLock
  BY <1>2 DEF ManagerLock, Lock
<1>3. CASE SkipCheckpoint
  BY <1>3 DEF SkipCheckpoint
<1>4. CASE StartCheckpoint
  BY <1>4 DEF StartCheckpoint, OpenNew
<1>5. CASE Drain
  BY <1>5 DEF Drain
<1>6. CASE FinalCheckpoint
  BY <1>6 DEF FinalCheckpoint, OpenNew
<1>7. CASE ManagerExit
  BY <1>7 DEF ManagerExit
<1>8. CASE DumpQueueNext
  BY <1>8 DEF DumpQueueNext
<1>9. CASE DumpProgressNext
  BY <1>9 DEF DumpProgressNext
<1>10. CASE DumpWrite
  BY <1>10 DEF DumpWrite
<1>11. CASE RemoveOld
  BY <1>11 DEF RemoveOld
<1>12. CASE RenameQueueToOld
  BY <1>12 DEF RenameQueueToOld
<1>13. CASE RenameNewToQueue
  BY <1>13 DEF RenameNewToQueue
<1>14. CASE RemoveBackup
  BY <1>14 DEF RemoveBackup
<1>15. CASE TruncateLog
  BY <1>15 DEF TruncateLog
<1>16. QED
  BY <1>1, <1>2, <1>3, <1>4, <1>5, <1>6, <1>7, <1>8, <1>9, <1>10, <1>11,
     <1>12, <1>13, <1>14, <1>15 DEF thread_manager, transaction_checkpoint

LEMMA ProcessKeepsAudit ==
    ASSUME TypeOK, Shape, AuditShape,
           \/ Signal \/ \E p \in {Main, Mgr, Sig} : logc_shutdown(p)
           \/ Timeout \/ Restart
    PROVE  AuditShape'
<1> USE ThreadsAssumption DEF TypeOK, PcType, LocalType, OutsideType,
      AuditShape, AuditFileKept, flags, entries, workers, sharedVars,
      workerVars, localVars, files, disk, world, history, system, outside,
      Procs, Creators
<1>1. CASE Signal
  BY <1>1 DEF Signal
<1>2. ASSUME NEW p \in {Main, Mgr, Sig}, Shutdown(p) PROVE AuditShape'
  BY <1>2 DEF Shutdown
<1>3. ASSUME NEW p \in {Main, Mgr, Sig}, ExitProcess(p) PROVE AuditShape'
  BY <1>3 DEF ExitProcess
<1>4. CASE Timeout
  BY <1>4 DEF Timeout
<1>5. CASE Restart
  BY <1>5 DEF Restart
<1>6. QED
  BY <1>1, <1>2, <1>3, <1>4, <1>5 DEF logc_shutdown

LEMMA AuditInit == Init => AuditShape
  BY LinesAssumption, ThreadsAssumption DEF Init, AuditShape, AuditFileKept,
     Procs

LEMMA AuditStep == TypeInv /\ AuditShape /\ [Next]_vars => AuditShape'
<1> SUFFICES ASSUME TypeOK, Shape, AuditShape, [Next]_vars PROVE AuditShape'
  BY DEF TypeInv
<1>1. CASE UNCHANGED vars
  BY <1>1 DEF vars, AuditShape, AuditFileKept, flags, entries, workers,
     sharedVars, workerVars,
     localVars, files, disk, world, history, system, outside
<1>2. CASE Next
  BY <1>2, StartupKeepsAudit, ReceiveKeepsAudit, CreateKeepsAudit,
     WorkerKeepsAudit, ManagerKeepsAudit, ProcessKeepsAudit DEF Next
<1>3. QED
  BY <1>1, <1>2

\* thread_worker deletes no audit file that the console has not accepted,
\* across any number of crashes, restarts and retries.
THEOREM AuditFileKeptCorrect == Spec => []AuditFileKept
<1>1. AuditShape => AuditFileKept
  BY DEF AuditShape
<1>2. QED
  BY <1>1, AuditInit, AuditStep, TypeInvCorrect, PTL DEF Spec

-----------------------------------------------------------------------------
(* Lemmas about the queue.                                                 *)

\* apr_array_push of an entry that is not in the queue.
LEMMA AppendRange ==
    ASSUME NEW q \in Seq(Entries), NEW e \in Entries
    PROVE  /\ Range(Append(q, e)) = Range(q) \cup {e}
           /\ IsInjective(q) /\ e \notin Range(q) => IsInjective(Append(q, e))
<1> DEFINE a == Append(q, e)
<1>1. /\ DOMAIN q = 1..Len(q) /\ DOMAIN a = 1..Len(q) + 1
      /\ \A i \in 1..Len(q) : a[i] = q[i]
      /\ a[Len(q) + 1] = e /\ Len(q) \in Nat
  OBVIOUS
<1> HIDE DEF a
<1>2. Range(a) = Range(q) \cup {e}
  BY <1>1 DEF Range
<1>3. ASSUME IsInjective(q), e \notin Range(q) PROVE IsInjective(a)
  BY <1>1, <1>3 DEF Range, IsInjective
<1>4. QED
  BY <1>2, <1>3 DEF a

\* apr_array_pop takes the last entry out.
LEMMA PopRange ==
    ASSUME NEW q \in Seq(Entries), q # <<>>
    PROVE  /\ Range(Pop(q).rest) \subseteq Range(q)
           /\ Pop(q).entry \in Range(q)
           /\ IsInjective(q) => /\ IsInjective(Pop(q).rest)
                                /\ Pop(q).entry \notin Range(Pop(q).rest)
<1> DEFINE f == Front(q)
<1>0. Len(q) \in Nat \ {0} /\ DOMAIN q = 1..Len(q)
  OBVIOUS
<1>1. /\ Len(q) \in Nat \ {0} /\ DOMAIN q = 1..Len(q)
      /\ DOMAIN f = 1..Len(q) - 1
      /\ \A i \in 1..Len(q) - 1 : f[i] = q[i]
  BY <1>0 DEF Front
<1>2. Pop(q).rest = f /\ Pop(q).entry = q[Len(q)]
  BY DEF Pop, Last
<1> HIDE DEF f
<1>3. Range(f) \subseteq Range(q) /\ q[Len(q)] \in Range(q)
  BY <1>1 DEF Range
<1>4. ASSUME IsInjective(q)
      PROVE  IsInjective(f) /\ q[Len(q)] \notin Range(f)
  BY <1>1, <1>4 DEF Range, IsInjective
<1>5. QED
  BY <1>2, <1>3, <1>4

\* read_queue_entries numbers what it loads from 1 on.
LEMMA LoadedRange ==
    ASSUME DiskType, NEW at \in InOrder(Source)
    PROVE  /\ IsInjective(Loaded(Source, at))
           /\ \A e \in Range(Loaded(Source, at)) :
                 e.id < Len(Loaded(Source, at)) + 1
<1>1. DEFINE k == Len(Loaded(Source, at))
<1>2. k \in Nat /\ DOMAIN Loaded(Source, at) = 1..k
      /\ \A n \in 1..k : Loaded(Source, at)[n].id = n
  BY LoadedType DEF Loaded, Entry
<1>3. QED
  BY <1>2 DEF IsInjective, Range

-----------------------------------------------------------------------------
(* Ownership of entries.                                                   *)

LEMMA StartupKeepsEntries ==
    ASSUME TypeOK, Shape, EntryShape, Startup PROVE EntryShape'
<1> USE LinesAssumption, ThreadsAssumption DEF TypeOK, PcType, LocalType,
      SharedType, Shape, flags, entries, workers, sharedVars, workerVars,
      localVars, files, disk, world, history, system, outside, Procs,
      Creators
<1>1. CASE LoadQueue
  <2> SUFFICES ASSUME status' = "up"
               PROVE  QueueApart' /\ HeldApart' /\ ProgressExact' /\ NoWorkerYet'
    BY DEF EntryShape
  <2>0. QueueApart /\ HeldApart /\ ProgressExact /\ NoWorkerYet
    BY <1>1 DEF LoadQueue, EntryShape
  <2>6. \A t \in Threads : held[t] = None
    BY <1>1, <2>0 DEF LoadQueue, HeldApart, NoWorkerYet
  <2>1. QueueApart'
    <3>1. PICK at \in InOrder(Source) :
             queue' = Loaded(Source, at) /\ entry_counter' = Len(queue') + 1
      BY <1>1 DEF LoadQueue
    <3>2. QED
      BY <1>1, <2>0, <2>6, <3>1, LoadedRange
         DEF LoadQueue, QueueApart, HeldApart
  <2>2. HeldApart'
    BY <1>1, <2>0, <2>6 DEF LoadQueue, HeldApart, NoWorkerYet
  <2>3. ProgressExact'
    BY <1>1, <2>0, <2>6 DEF LoadQueue, ProgressExact, Registered, HeldApart
  <2>4. NoWorkerYet'
    BY <1>1, <2>0 DEF LoadQueue, NoWorkerYet, HeldApart
  <2>5. QED
    BY <2>1, <2>2, <2>3, <2>4
<1>2. CASE AdoptOld
  BY <1>2 DEF AdoptOld, Registered, EntryShape,
     QueueApart, HeldApart, ProgressExact, NoWorkerYet
<1>3. CASE StartThreads
  BY <1>3 DEF StartThreads, Registered, EntryShape,
     QueueApart, HeldApart, ProgressExact, NoWorkerYet
<1>4. CASE StartFails
  BY <1>4 DEF StartFails, Registered, EntryShape,
     QueueApart, HeldApart, ProgressExact, NoWorkerYet
<1>5. QED
  BY <1>1, <1>2, <1>3, <1>4 DEF Startup

LEMMA ReceiveKeepsEntries ==
    ASSUME TypeOK, Shape, EntryShape, receive_loop PROVE EntryShape'
<1> USE LinesAssumption, ThreadsAssumption DEF TypeOK, PcType, LocalType,
      SharedType, Shape, flags, entries, workers, sharedVars, workerVars,
      localVars, files, disk, world, history, system, outside, Procs,
      Creators
<1>1. ASSUME NEW l \in Lines, Receive(l) PROVE EntryShape'
  BY <1>1 DEF Receive, Registered, EntryShape,
     QueueApart, HeldApart, ProgressExact, NoWorkerYet
<1>2. CASE AddEntry
  <2> SUFFICES ASSUME status' = "up"
               PROVE  QueueApart' /\ HeldApart' /\ ProgressExact' /\ NoWorkerYet'
    BY DEF EntryShape
  <2>0. QueueApart /\ HeldApart /\ ProgressExact /\ NoWorkerYet
    BY <1>2 DEF AddEntry, EntryShape
  <2> DEFINE e == Entry(entry_counter, recv)
  <2>6. e \in Entries /\ e.id = entry_counter
    BY <1>2 DEF AddEntry, StartShape, Entry, Entries, AnyLine
  <2>7. queue' = Append(queue, e)
    BY <1>2 DEF AddEntry
  <2>8. /\ entry_counter' = entry_counter + 1 /\ held' = held
        /\ pc' = [pc EXCEPT ![Main] = "added"]
    BY <1>2 DEF AddEntry
  <2> HIDE DEF e
  <2>13. Range(queue) \subseteq Entries
    BY DEF Range
  <2>9. \A x \in Range(queue) : x \in Entries /\ x.id \in Nat
    BY <2>13 DEF Entries
  <2>10. \A t \in Threads : held[t] # None => held[t].id \in Nat
    BY DEF Entries
  <2>11. e \notin Range(queue) /\ \A t \in Threads : held[t] # e
    BY <2>0, <2>6, <2>9, <2>10 DEF QueueApart, HeldApart
  <2>12. Range(queue') = Range(queue) \cup {e} /\ IsInjective(queue')
    BY <2>0, <2>6, <2>7, <2>11, AppendRange DEF QueueApart
  <2>1. QueueApart'
    BY <2>0, <2>6, <2>8, <2>9, <2>12 DEF QueueApart
  <2>2. HeldApart'
    <3>1. \A t \in Threads : pc'[t] = pc[t] /\ held'[t] = held[t]
      BY <2>8
    <3>2. QED
      BY <2>0, <2>8, <2>10, <2>11, <2>12, <3>1 DEF HeldApart
  <2>3. ProgressExact'
    BY <1>2, <2>0 DEF AddEntry, QueueApart, ProgressExact, Registered,
       HeldApart
  <2>4. NoWorkerYet'
    BY <1>2, <2>0 DEF AddEntry, QueueApart, NoWorkerYet, HeldApart
  <2>5. QED
    BY <2>1, <2>2, <2>3, <2>4
<1>3. CASE AddEntryWorker
  BY <1>3 DEF AddEntryWorker, Unlock, Registered, EntryShape,
     QueueApart, HeldApart, ProgressExact, NoWorkerYet
<1>4. CASE EndOfInput
  BY <1>4 DEF EndOfInput, Registered, EntryShape,
     QueueApart, HeldApart, ProgressExact, NoWorkerYet
<1>5. CASE LeaveReceiveLoop
  BY <1>5 DEF LeaveReceiveLoop, Registered, EntryShape,
     QueueApart, HeldApart, ProgressExact, NoWorkerYet
<1>6. QED
  BY <1>1, <1>2, <1>3, <1>4, <1>5 DEF receive_loop

LEMMA CreateKeepsEntries ==
    ASSUME TypeOK, Shape, EntryShape, NEW c \in Creators, create_new_worker(c) PROVE EntryShape'
<1> USE LinesAssumption, ThreadsAssumption DEF TypeOK, PcType, LocalType,
      SharedType, Shape, flags, entries, workers, sharedVars, workerVars,
      localVars, files, disk, world, history, system, outside, Procs,
      Creators
<1>1. CASE CreateNotNeeded(c)
  BY <1>1 DEF CreateNotNeeded, AfterCreate, Unlock, Registered, EntryShape,
     QueueApart, HeldApart, ProgressExact, NoWorkerYet
<1>2. ASSUME NEW t \in Threads, NEW h \in Handles, CreateThread(c, t, h)
      PROVE  EntryShape'
  <2> SUFFICES ASSUME status' = "up"
               PROVE  QueueApart' /\ HeldApart' /\ ProgressExact' /\ NoWorkerYet'
    BY DEF EntryShape
  <2>0. QueueApart /\ HeldApart /\ ProgressExact /\ NoWorkerYet
    BY <1>2 DEF CreateThread, EntryShape
  <2>1. QueueApart'
    BY <1>2, <2>0 DEF CreateThread, QueueApart, HeldApart
  <2>2. HeldApart'
    BY <1>2, <2>0 DEF CreateThread, HeldApart, NoWorkerYet
  <2>3. ProgressExact'
    BY <1>2, <2>0 DEF CreateThread, ProgressExact, Registered, HeldApart
  <2>4. NoWorkerYet'
    BY <1>2, <2>0 DEF CreateThread, NoWorkerYet, StartShape
  <2>5. QED
    BY <2>1, <2>2, <2>3, <2>4
<1>3. CASE CountWorker(c)
  BY <1>3 DEF CountWorker, AfterCreate, Unlock, Registered, EntryShape,
     QueueApart, HeldApart, ProgressExact, NoWorkerYet
<1>4. CASE CreateFails(c)
  BY <1>4 DEF CreateFails, Registered, EntryShape,
     QueueApart, HeldApart, ProgressExact, NoWorkerYet
<1>5. QED
  BY <1>1, <1>2, <1>3, <1>4 DEF create_new_worker

LEMMA WorkerKeepsEntries ==
    ASSUME TypeOK, Shape, EntryShape, NEW t \in Threads, thread_worker(t) PROVE EntryShape'
<1> USE LinesAssumption, ThreadsAssumption DEF TypeOK, PcType, LocalType,
      SharedType, Shape, flags, entries, workers, sharedVars, workerVars,
      localVars, files, disk, world, history, system, outside, Procs,
      Creators
<1>1. CASE WorkerLoop(t)
  <2> SUFFICES ASSUME status' = "up"
               PROVE  QueueApart' /\ HeldApart' /\ ProgressExact' /\ NoWorkerYet'
    BY DEF EntryShape
  <2>0. QueueApart /\ HeldApart /\ ProgressExact /\ NoWorkerYet
    BY <1>1 DEF WorkerLoop, EntryShape
  <2>1. QueueApart'
    BY <1>1, <2>0 DEF WorkerLoop, QueueApart, HeldApart
  <2>2. HeldApart'
    BY <1>1, <2>0 DEF WorkerLoop, HeldApart, NoWorkerYet
  <2>3. ProgressExact'
    <3>1. \A u \in Threads : Registered(u)' <=> Registered(u)
      BY <1>1 DEF WorkerLoop, Registered
    <3>2. UNCHANGED <<held, in_progress>>
      BY <1>1 DEF WorkerLoop
    <3>3. QED
      BY <2>0, <3>1, <3>2 DEF ProgressExact
  <2>4. NoWorkerYet'
    BY <1>1, <2>0 DEF WorkerLoop, NoWorkerYet, HeldApart
  <2>5. QED
    BY <2>1, <2>2, <2>3, <2>4
<1>2. CASE FetchLock(t)
  <2> SUFFICES ASSUME status' = "up"
               PROVE  QueueApart' /\ HeldApart' /\ ProgressExact' /\ NoWorkerYet'
    BY DEF EntryShape
  <2>0. QueueApart /\ HeldApart /\ ProgressExact /\ NoWorkerYet
    BY <1>2 DEF FetchLock, EntryShape
  <2>1. QueueApart'
    BY <1>2, <2>0 DEF FetchLock, Lock, Complete, Withdraw, QueueApart,
       HeldApart
  <2>2. HeldApart'
    BY <1>2, <2>0 DEF FetchLock, Lock, Complete, Withdraw, HeldApart,
       NoWorkerYet
  <2>3. ProgressExact'
    BY <1>2, <2>0 DEF FetchLock, Lock, Complete, Withdraw, ProgressExact,
       Registered, HeldApart
  <2>4. NoWorkerYet'
    BY <1>2, <2>0 DEF FetchLock, Lock, Complete, Withdraw, NoWorkerYet,
       HeldApart
  <2>5. QED
    BY <2>1, <2>2, <2>3, <2>4
<1>3. CASE FetchPop(t)
  <2> SUFFICES ASSUME status' = "up"
               PROVE  QueueApart' /\ HeldApart' /\ ProgressExact' /\ NoWorkerYet'
    BY DEF EntryShape
  <2>0. QueueApart /\ HeldApart /\ ProgressExact /\ NoWorkerYet
    BY <1>3 DEF FetchPop, EntryShape
  <2>1. QueueApart'
    BY <1>3, <2>0, PopRange DEF FetchPop, QueueApart, QueueApart, HeldApart
  <2>2. HeldApart'
    BY <1>3, <2>0, PopRange, PopType DEF FetchPop, QueueApart, HeldApart,
       NoWorkerYet
  <2>3. ProgressExact'
    <3>1. held[t] = None /\ pc'[t] = "register" /\ in_progress' = in_progress
      BY <1>3, <2>0 DEF FetchPop, HeldApart
    <3>2. \A u \in Threads \ {t} : held'[u] = held[u] /\ pc'[u] = pc[u]
      BY <1>3 DEF FetchPop
    <3>3. QED
      BY <2>0, <3>1, <3>2 DEF ProgressExact, Registered
  <2>4. NoWorkerYet'
    BY <1>3, <2>0 DEF FetchPop, QueueApart, NoWorkerYet, HeldApart
  <2>5. QED
    BY <2>1, <2>2, <2>3, <2>4
<1>4. CASE FetchEmpty(t)
  BY <1>4 DEF FetchEmpty, Unlock, Registered, EntryShape,
     QueueApart, HeldApart, ProgressExact, NoWorkerYet
<1>5. CASE FetchRegister(t)
  <2> SUFFICES ASSUME status' = "up"
               PROVE  QueueApart' /\ HeldApart' /\ ProgressExact' /\ NoWorkerYet'
    BY DEF EntryShape
  <2>0. QueueApart /\ HeldApart /\ ProgressExact /\ NoWorkerYet
    BY <1>5 DEF FetchRegister, EntryShape
  <2>1. QueueApart'
    BY <1>5, <2>0 DEF FetchRegister, QueueApart
  <2>2. HeldApart'
    BY <1>5, <2>0 DEF FetchRegister, HeldApart
  <2>3. ProgressExact'
    <3>1. /\ held[t] # None /\ pc'[t] = "send"
          /\ in_progress' = in_progress \cup {held[t]} /\ held' = held
      BY <1>5 DEF FetchRegister, WorkerShape
    <3>2. \A u \in Threads \ {t} : pc'[u] = pc[u]
      BY <1>5 DEF FetchRegister
    <3>3. QED
      BY <1>5, <2>0, <3>1, <3>2 DEF ProgressExact, Registered, FetchRegister
  <2>4. NoWorkerYet'
    BY <1>5, <2>0 DEF FetchRegister, NoWorkerYet
  <2>5. QED
    BY <2>1, <2>2, <2>3, <2>4
<1>6. CASE SkipInvalid(t)
  BY <1>6 DEF SkipInvalid, Registered, EntryShape,
     QueueApart, HeldApart, ProgressExact, NoWorkerYet
<1>7. CASE SkipMissing(t)
  BY <1>7 DEF SkipMissing, AfterRequest, Registered, EntryShape,
     QueueApart, HeldApart, ProgressExact, NoWorkerYet
<1>8. CASE SendAccepted(t)
  BY <1>8 DEF SendAccepted, Sendable, Registered, EntryShape,
     QueueApart, HeldApart, ProgressExact, NoWorkerYet
<1>9. CASE RemoveFile(t)
  BY <1>9 DEF RemoveFile, AfterRequest, Registered, EntryShape,
     QueueApart, HeldApart, ProgressExact, NoWorkerYet
<1>10. CASE SendConflict(t)
  BY <1>10 DEF SendConflict, AfterRequest, Registered, EntryShape,
     QueueApart, HeldApart, ProgressExact, NoWorkerYet
<1>11. CASE SendFailed(t)
  BY <1>11 DEF SendFailed, AfterRequest, Registered, EntryShape,
     QueueApart, HeldApart, ProgressExact, NoWorkerYet
<1>12. CASE DownLock(t)
  <2> SUFFICES ASSUME status' = "up"
               PROVE  QueueApart' /\ HeldApart' /\ ProgressExact' /\ NoWorkerYet'
    BY DEF EntryShape
  <2>0. QueueApart /\ HeldApart /\ ProgressExact /\ NoWorkerYet
    BY <1>12 DEF DownLock, EntryShape
  <2>1. QueueApart'
    BY <1>12, <2>0 DEF DownLock, Lock, Complete, Withdraw, QueueApart,
       HeldApart
  <2>2. HeldApart'
    <3>1. /\ UNCHANGED <<queue, entry_counter>>
          /\ pc' = [pc EXCEPT ![t] = "requeue"]
      BY <1>12 DEF DownLock
    <3>2. held' = held \/ held' = [held EXCEPT ![t] = None]
      BY <1>12 DEF DownLock, Complete
    <3>3. \A u \in Threads : held'[u] = held[u] \/ held'[u] = None
      BY <3>2
    <3>4. QED
      BY <2>0, <3>1, <3>3 DEF HeldApart
  <2>3. ProgressExact'
    BY <1>12, <2>0 DEF DownLock, Lock, Complete, Withdraw, ProgressExact,
       Registered, HeldApart
  <2>4. NoWorkerYet'
    BY <1>12, <2>0 DEF DownLock, Lock, Complete, Withdraw, NoWorkerYet,
       HeldApart
  <2>5. QED
    BY <2>1, <2>2, <2>3, <2>4
<1>13. CASE Requeue(t)
  <2> SUFFICES ASSUME status' = "up"
               PROVE  QueueApart' /\ HeldApart' /\ ProgressExact' /\ NoWorkerYet'
    BY DEF EntryShape
  <2>0. QueueApart /\ HeldApart /\ ProgressExact /\ NoWorkerYet
    BY <1>13 DEF Requeue, EntryShape
  <2>1. QueueApart'
    BY <1>13, <2>0, AppendRange DEF Requeue, PutBack, QueueApart, QueueApart,
       HeldApart
  <2>2. HeldApart'
    BY <1>13, <2>0, AppendRange DEF Requeue, PutBack, QueueApart, HeldApart,
       NoWorkerYet
  <2>3. ProgressExact'
    BY <1>13, <2>0 DEF Requeue, PutBack, QueueApart, ProgressExact,
       Registered, HeldApart
  <2>4. NoWorkerYet'
    BY <1>13, <2>0 DEF Requeue, PutBack, QueueApart, NoWorkerYet, HeldApart
  <2>5. QED
    BY <2>1, <2>2, <2>3, <2>4
<1>14. CASE Release(t)
  BY <1>14 DEF Release, Unlock, Registered, EntryShape,
     QueueApart, HeldApart, ProgressExact, NoWorkerYet
<1>15. CASE ThreadExit(t)
  BY <1>15 DEF ThreadExit, Registered, EntryShape,
     QueueApart, HeldApart, ProgressExact, NoWorkerYet
<1>16. QED
  BY <1>1, <1>2, <1>3, <1>4, <1>5, <1>6, <1>7, <1>8, <1>9, <1>10, <1>11,
     <1>12, <1>13, <1>14, <1>15 DEF thread_worker

LEMMA ManagerKeepsEntries ==
    ASSUME TypeOK, Shape, EntryShape, thread_manager PROVE EntryShape'
<1> USE LinesAssumption, ThreadsAssumption DEF TypeOK, PcType, LocalType,
      SharedType, Shape, flags, entries, workers, sharedVars, workerVars,
      localVars, files, disk, world, history, system, outside, Procs,
      Creators
<1>1. CASE ManagerRound
  BY <1>1 DEF ManagerRound, Registered, EntryShape,
     QueueApart, HeldApart, ProgressExact, NoWorkerYet
<1>2. CASE ManagerLock
  BY <1>2 DEF ManagerLock, Lock, Registered, EntryShape,
     QueueApart, HeldApart, ProgressExact, NoWorkerYet
<1>3. CASE SkipCheckpoint
  BY <1>3 DEF SkipCheckpoint, Registered, EntryShape,
     QueueApart, HeldApart, ProgressExact, NoWorkerYet
<1>4. CASE StartCheckpoint
  BY <1>4 DEF StartCheckpoint, OpenNew, Registered, EntryShape,
     QueueApart, HeldApart, ProgressExact, NoWorkerYet
<1>5. CASE Drain
  BY <1>5 DEF Drain, Registered, EntryShape,
     QueueApart, HeldApart, ProgressExact, NoWorkerYet
<1>6. CASE FinalCheckpoint
  BY <1>6 DEF FinalCheckpoint, OpenNew, Registered, EntryShape,
     QueueApart, HeldApart, ProgressExact, NoWorkerYet
<1>7. CASE ManagerExit
  BY <1>7 DEF ManagerExit, Registered, EntryShape,
     QueueApart, HeldApart, ProgressExact, NoWorkerYet
<1>8. CASE DumpQueueNext
  BY <1>8 DEF DumpQueueNext, Registered, EntryShape,
     QueueApart, HeldApart, ProgressExact, NoWorkerYet
<1>9. CASE DumpProgressNext
  <2> SUFFICES ASSUME status' = "up"
               PROVE  QueueApart' /\ HeldApart' /\ ProgressExact' /\ NoWorkerYet'
    BY DEF EntryShape
  <2>0. QueueApart /\ HeldApart /\ ProgressExact /\ NoWorkerYet
    BY <1>9 DEF DumpProgressNext, EntryShape
  <2>1. QueueApart'
    BY <1>9, <2>0 DEF DumpProgressNext, QueueApart, HeldApart
  <2>2. HeldApart'
    BY <1>9, <2>0 DEF DumpProgressNext, HeldApart, NoWorkerYet
  <2>3. ProgressExact'
    BY <1>9, <2>0 DEF DumpProgressNext, ProgressExact, Registered, HeldApart
  <2>4. NoWorkerYet'
    BY <1>9, <2>0 DEF DumpProgressNext, NoWorkerYet, HeldApart
  <2>5. QED
    BY <2>1, <2>2, <2>3, <2>4
<1>10. CASE DumpWrite
  BY <1>10 DEF DumpWrite, Registered, EntryShape,
     QueueApart, HeldApart, ProgressExact, NoWorkerYet
<1>11. CASE RemoveOld
  BY <1>11 DEF RemoveOld, Registered, EntryShape,
     QueueApart, HeldApart, ProgressExact, NoWorkerYet
<1>12. CASE RenameQueueToOld
  BY <1>12 DEF RenameQueueToOld, Registered, EntryShape,
     QueueApart, HeldApart, ProgressExact, NoWorkerYet
<1>13. CASE RenameNewToQueue
  BY <1>13 DEF RenameNewToQueue, Registered, EntryShape,
     QueueApart, HeldApart, ProgressExact, NoWorkerYet
<1>14. CASE RemoveBackup
  BY <1>14 DEF RemoveBackup, Registered, EntryShape,
     QueueApart, HeldApart, ProgressExact, NoWorkerYet
<1>15. CASE TruncateLog
  BY <1>15 DEF TruncateLog, Registered, EntryShape,
     QueueApart, HeldApart, ProgressExact, NoWorkerYet
<1>16. QED
  BY <1>1, <1>2, <1>3, <1>4, <1>5, <1>6, <1>7, <1>8, <1>9, <1>10, <1>11,
     <1>12, <1>13, <1>14, <1>15 DEF thread_manager, transaction_checkpoint

LEMMA ProcessKeepsEntries ==
    ASSUME TypeOK, Shape, EntryShape,
           \/ Signal \/ \E p \in {Main, Mgr, Sig} : logc_shutdown(p)
           \/ Timeout \/ Restart
    PROVE  EntryShape'
<1> USE LinesAssumption, ThreadsAssumption DEF TypeOK, PcType, LocalType,
      SharedType, Shape, flags, entries, workers, sharedVars, workerVars,
      localVars, files, disk, world, history, system, outside, Procs,
      Creators
<1>1. CASE Signal
  BY <1>1 DEF Signal, Registered, EntryShape,
     QueueApart, HeldApart, ProgressExact, NoWorkerYet
<1>2. ASSUME NEW p \in {Main, Mgr, Sig}, Shutdown(p) PROVE EntryShape'
  BY <1>2 DEF Shutdown, Registered, EntryShape,
     QueueApart, HeldApart, ProgressExact, NoWorkerYet
<1>3. ASSUME NEW p \in {Main, Mgr, Sig}, ExitProcess(p) PROVE EntryShape'
  BY <1>3 DEF ExitProcess, Registered, EntryShape,
     QueueApart, HeldApart, ProgressExact, NoWorkerYet
<1>4. CASE Timeout
  BY <1>4 DEF Timeout, Registered, EntryShape,
     QueueApart, HeldApart, ProgressExact, NoWorkerYet
<1>5. CASE Restart
  <2> SUFFICES ASSUME status' = "up"
               PROVE  QueueApart' /\ HeldApart' /\ ProgressExact' /\ NoWorkerYet'
    BY DEF EntryShape
  <2>1. QueueApart'
    BY <1>5, LinesAssumption DEF Restart, Range, IsInjective, QueueApart
  <2>2. HeldApart'
    BY <1>5, LinesAssumption DEF Restart, Range, IsInjective, HeldApart
  <2>3. ProgressExact'
    BY <1>5, LinesAssumption DEF Restart, Range, IsInjective, ProgressExact,
       Registered
  <2>4. NoWorkerYet'
    BY <1>5, LinesAssumption DEF Restart, Range, IsInjective, NoWorkerYet
  <2>5. QED
    BY <2>1, <2>2, <2>3, <2>4
<1>6. QED
  BY <1>1, <1>2, <1>3, <1>4, <1>5 DEF logc_shutdown

LEMMA EntryInit == Init => EntryShape
  BY LinesAssumption, ThreadsAssumption DEF Init, EntryShape, QueueApart,
     HeldApart,
     ProgressExact, NoWorkerYet, Registered, Procs, Range, IsInjective

LEMMA EntryStep == TypeInv /\ EntryShape /\ [Next]_vars => EntryShape'
<1> SUFFICES ASSUME TypeOK, Shape, EntryShape, [Next]_vars PROVE EntryShape'
  BY DEF TypeInv
<1>1. CASE UNCHANGED vars
  BY <1>1 DEF vars, EntryShape, QueueApart, HeldApart,
     ProgressExact, NoWorkerYet, Registered, flags, entries, workers, sharedVars, workerVars,
     localVars, files, disk, world, history, system, outside
<1>2. CASE Next
  BY <1>2, StartupKeepsEntries, ReceiveKeepsEntries, CreateKeepsEntries,
     WorkerKeepsEntries, ManagerKeepsEntries, ProcessKeepsEntries DEF Next
<1>3. QED
  BY <1>1, <1>2

LEMMA EntryShapeImplies == TypeOK /\ EntryShape => EntryOwnedOnce
<1> SUFFICES ASSUME TypeOK, EntryShape, status = "up" PROVE EntryOwnedOnce
  BY DEF EntryOwnedOnce
<1>1. QueueApart /\ HeldApart /\ ProgressExact
  BY DEF EntryShape
<1>2. in_progress = {held[t] : t \in {u \in Threads :
         held[u] # None /\ pc[u] \notin {"register", "requeue"}}}
  BY <1>1 DEF ProgressExact, Registered
<1>3. QED
  BY <1>1, <1>2 DEF EntryOwnedOnce, QueueApart, HeldApart

\* Every allocated entry is in the queue once or with exactly one worker, and
\* in_progress lists what the registered workers hold: thread_worker neither
\* duplicates nor shares an entry, so none is freed twice.
THEOREM EntryOwnedOnceCorrect == Spec => []EntryOwnedOnce
<1>1. TypeInv /\ EntryShape => EntryOwnedOnce
  BY EntryShapeImplies DEF TypeInv
<1>2. QED
  BY <1>1, EntryInit, EntryStep, TypeInvCorrect, PTL DEF Spec
-----------------------------------------------------------------------------
(* cURL handles and the count of workers.                                  *)

\* Creators that have started a thread and not counted it yet.
Uncounted == {c \in Creators : pc[c] = "created"}

\* A step that moves no handle and neither starts nor ends a worker.
LEMMA HandlesFrame ==
    ASSUME HandleAccounting, UNCHANGED <<workers, curl, status>>,
           Alive' = Alive, Uncounted' = Uncounted
    PROVE  HandleAccounting'
  BY DEF HandleAccounting, Uncounted, workers

LEMMA AliveFinite ==
    /\ IsFiniteSet(Alive) /\ Cardinality(Alive) \in Nat
    /\ IsFiniteSet(Uncounted) /\ Cardinality(Uncounted) \in Nat
<1>1. IsFiniteSet(Alive)
  BY FS_Subset, ThreadsAssumption DEF Alive
<1>2. IsFiniteSet({Main}) /\ IsFiniteSet({Main} \cup {Mgr})
  BY FS_Singleton, FS_AddElement
<1>3. Creators = {Main} \cup {Mgr}
  BY DEF Creators
<1>4. IsFiniteSet(Uncounted)
  BY <1>2, <1>3, FS_Subset DEF Uncounted
<1>5. QED
  BY <1>1, <1>4, FS_CardinalityType

LEMMA StartupKeepsHandles ==
    ASSUME TypeOK, Shape, HandleAccounting,
           Startup
    PROVE  HandleAccounting'
<1> USE ThreadsAssumption
      DEF TypeOK, PcType, LocalType, SharedType, Shape, StartShape, flags,
          entries, workers, sharedVars, workerVars, localVars, files, disk,
          world, history, system, outside, Procs, Creators
<1>1. CASE LoadQueue
  BY <1>1, HandlesFrame DEF LoadQueue, Alive, Uncounted
<1>2. CASE AdoptOld
  BY <1>2, HandlesFrame DEF AdoptOld, Alive, Uncounted
<1>3. CASE StartThreads
  BY <1>3, HandlesFrame DEF StartThreads, Alive, Uncounted
<1>4. CASE StartFails
  BY <1>4 DEF StartFails, HandleAccounting
<1>5. QED
  BY <1>1, <1>2, <1>3, <1>4 DEF Startup

LEMMA ReceiveKeepsHandles ==
    ASSUME TypeOK, Shape, HandleAccounting,
           receive_loop
    PROVE  HandleAccounting'
<1> USE ThreadsAssumption
      DEF TypeOK, PcType, LocalType, SharedType, Shape, StartShape, flags,
          entries, workers, sharedVars, workerVars, localVars, files, disk,
          world, history, system, outside, Procs, Creators
<1>1. ASSUME NEW l \in Lines, Receive(l) PROVE HandleAccounting'
  BY <1>1, HandlesFrame DEF Receive, Alive, Uncounted
<1>2. CASE AddEntry
  BY <1>2, HandlesFrame DEF AddEntry, Lock, Alive, Uncounted
<1>3. CASE AddEntryWorker
  BY <1>3, HandlesFrame DEF AddEntryWorker, Unlock, Alive, Uncounted
<1>4. CASE EndOfInput
  BY <1>4, HandlesFrame DEF EndOfInput, Alive, Uncounted
<1>5. CASE LeaveReceiveLoop
  BY <1>5, HandlesFrame DEF LeaveReceiveLoop, Alive, Uncounted
<1>6. QED
  BY <1>1, <1>2, <1>3, <1>4, <1>5 DEF receive_loop

LEMMA CreateKeepsHandles ==
    ASSUME TypeOK, Shape, HandleAccounting,
           NEW c \in Creators, create_new_worker(c)
    PROVE  HandleAccounting'
<1> USE ThreadsAssumption
      DEF TypeOK, PcType, LocalType, SharedType, Shape, StartShape, flags,
          entries, workers, sharedVars, workerVars, localVars, files, disk,
          world, history, system, outside, Procs, Creators
<1>1. CASE CreateNotNeeded(c)
  BY <1>1, HandlesFrame DEF CreateNotNeeded, AfterCreate, Unlock, Alive,
     Uncounted
<1>2. ASSUME NEW t \in Threads, NEW h \in Handles, CreateThread(c, t, h)
      PROVE  HandleAccounting'
  <2>1. t \notin Alive /\ Alive' = Alive \cup {t}
    BY <1>2 DEF CreateThread, Alive
  <2>2. c \notin Uncounted /\ Uncounted' = Uncounted \cup {c}
    BY <1>2 DEF CreateThread, Uncounted
  <2>3. /\ Cardinality(Alive') = Cardinality(Alive) + 1
        /\ Cardinality(Uncounted') = Cardinality(Uncounted) + 1
    BY <2>1, <2>2, AliveFinite, FS_AddElement
  <2>4. /\ curl_handles' = curl_handles \ {h} /\ h \in curl_handles
        /\ curl' = [curl EXCEPT ![t] = h]
        /\ current_workers' = current_workers /\ status' = status
    BY <1>2 DEF CreateThread
  <2>5. curl'[t] = h /\ \A u \in Alive : curl'[u] = curl[u]
    BY <2>1, <2>4 DEF Alive
  <2>6. ASSUME status = "up"
        PROVE  /\ \A u \in Alive' : curl'[u] \in Handles \ curl_handles'
               /\ \A u, v \in Alive' : u # v => curl'[u] # curl'[v]
    BY <2>1, <2>4, <2>5, <2>6 DEF HandleAccounting
  <2>7. QED
    BY <2>3, <2>4, <2>6, AliveFinite DEF HandleAccounting, Uncounted
<1>3. CASE CountWorker(c)
  <2>1. Alive' = Alive
    BY <1>3 DEF CountWorker, AfterCreate, Alive
  <2>2. c \in Uncounted /\ Uncounted' = Uncounted \ {c}
    BY <1>3 DEF CountWorker, AfterCreate, Uncounted
  <2>3. Cardinality(Uncounted') = Cardinality(Uncounted) - 1
    BY <2>2, AliveFinite, FS_RemoveElement
  <2>4. /\ UNCHANGED <<curl_handles, curl, status>>
        /\ current_workers' = current_workers + 1
    BY <1>3 DEF CountWorker
  <2>5. QED
    BY <2>1, <2>3, <2>4, AliveFinite DEF HandleAccounting, Uncounted
<1>4. CASE CreateFails(c)
  <2>1. Alive' = Alive /\ Uncounted' = Uncounted
    BY <1>4 DEF CreateFails, Alive, Uncounted
  <2>2. /\ UNCHANGED <<current_workers, curl, status>>
        /\ curl_handles' \subseteq curl_handles
    BY <1>4 DEF CreateFails
  <2>3. QED
    BY <2>1, <2>2 DEF HandleAccounting, Uncounted
<1>5. QED
  BY <1>1, <1>2, <1>3, <1>4 DEF create_new_worker

LEMMA WorkerKeepsHandles ==
    ASSUME TypeOK, Shape, HandleAccounting,
           NEW t \in Threads, thread_worker(t)
    PROVE  HandleAccounting'
<1> USE ThreadsAssumption
      DEF TypeOK, PcType, LocalType, SharedType, Shape, StartShape, flags,
          entries, workers, sharedVars, workerVars, localVars, files, disk,
          world, history, system, outside, Procs, Creators
<1>1. CASE WorkerLoop(t)
  <2>1. Alive' = Alive /\ Uncounted' = Uncounted
    BY <1>1 DEF WorkerLoop, Alive, Uncounted
  <2>2. QED
    BY <1>1, <2>1, HandlesFrame DEF WorkerLoop
<1>2. CASE FetchLock(t)
  BY <1>2, HandlesFrame DEF FetchLock, Lock, Complete, Alive, Uncounted
<1>3. CASE FetchPop(t)
  BY <1>3, HandlesFrame DEF FetchPop, Alive, Uncounted
<1>4. CASE FetchEmpty(t)
  BY <1>4, HandlesFrame DEF FetchEmpty, Unlock, Alive, Uncounted
<1>5. CASE FetchRegister(t)
  BY <1>5, HandlesFrame DEF FetchRegister, Unlock, Alive, Uncounted
<1>6. CASE SkipInvalid(t)
  BY <1>6, HandlesFrame DEF SkipInvalid, Alive, Uncounted
<1>7. CASE SkipMissing(t)
  BY <1>7, HandlesFrame DEF SkipMissing, AfterRequest, Alive, Uncounted
<1>8. CASE SendAccepted(t)
  BY <1>8, HandlesFrame DEF SendAccepted, Alive, Uncounted
<1>9. CASE RemoveFile(t)
  BY <1>9, HandlesFrame DEF RemoveFile, AfterRequest, Alive, Uncounted
<1>10. CASE SendConflict(t)
  BY <1>10, HandlesFrame DEF SendConflict, AfterRequest, Alive, Uncounted
<1>11. CASE SendFailed(t)
  BY <1>11, HandlesFrame DEF SendFailed, AfterRequest, Alive, Uncounted
<1>12. CASE DownLock(t)
  BY <1>12, HandlesFrame DEF DownLock, Lock, Complete, Alive, Uncounted
<1>13. CASE Requeue(t)
  BY <1>13, HandlesFrame DEF Requeue, Alive, Uncounted
<1>14. CASE Release(t)
  <2>1. t \in Alive /\ Alive' = Alive \ {t}
    BY <1>14 DEF Release, Alive
  <2>2. Uncounted' = Uncounted
    BY <1>14 DEF Release, Uncounted
  <2>3. Cardinality(Alive') = Cardinality(Alive) - 1
    BY <2>1, AliveFinite, FS_RemoveElement
  <2>4. /\ curl_handles' = curl_handles \cup {curl[t]}
        /\ curl' = [curl EXCEPT ![t] = None]
        /\ current_workers' = current_workers - 1 /\ status' = status
    BY <1>14 DEF Release, GiveBack, Retired
  <2>5. \A u \in Alive' : curl'[u] = curl[u]
    BY <2>1, <2>4 DEF Alive
  <2>6. ASSUME status = "up"
        PROVE  /\ \A u \in Alive' : curl'[u] \in Handles \ curl_handles'
               /\ \A u, v \in Alive' : u # v => curl'[u] # curl'[v]
    BY <2>1, <2>4, <2>5, <2>6 DEF HandleAccounting
  <2>7. ASSUME status = "up"
        PROVE  Cardinality(Alive') = current_workers' + Cardinality(Uncounted')
    <3>1. Cardinality(Alive) = current_workers + Cardinality(Uncounted)
      BY <2>7 DEF HandleAccounting, Uncounted
    <3>2. QED
      BY <2>2, <2>3, <2>4, <3>1, AliveFinite
  <2>8. QED
    BY <2>4, <2>6, <2>7 DEF HandleAccounting, Uncounted
<1>15. CASE ThreadExit(t)
  BY <1>15, HandlesFrame DEF ThreadExit, Alive, Uncounted
<1>16. QED
  BY <1>1, <1>2, <1>3, <1>4, <1>5, <1>6, <1>7, <1>8, <1>9, <1>10, <1>11,
     <1>12, <1>13, <1>14, <1>15 DEF thread_worker

LEMMA ManagerKeepsHandles ==
    ASSUME TypeOK, Shape, HandleAccounting,
           thread_manager
    PROVE  HandleAccounting'
<1> USE ThreadsAssumption
      DEF TypeOK, PcType, LocalType, SharedType, Shape, StartShape, flags,
          entries, workers, sharedVars, workerVars, localVars, files, disk,
          world, history, system, outside, Procs, Creators
<1>1. CASE ManagerRound
  BY <1>1, HandlesFrame DEF ManagerRound, Alive, Uncounted
<1>2. CASE ManagerLock
  BY <1>2, HandlesFrame DEF ManagerLock, Lock, Alive, Uncounted
<1>3. CASE SkipCheckpoint
  BY <1>3, HandlesFrame DEF SkipCheckpoint, Alive, Uncounted
<1>4. CASE StartCheckpoint
  BY <1>4, HandlesFrame DEF StartCheckpoint, OpenNew, Alive, Uncounted
<1>5. CASE Drain
  BY <1>5, HandlesFrame DEF Drain, Alive, Uncounted
<1>6. CASE FinalCheckpoint
  BY <1>6, HandlesFrame DEF FinalCheckpoint, OpenNew, Alive, Uncounted
<1>7. CASE ManagerExit
  BY <1>7, HandlesFrame DEF ManagerExit, Alive, Uncounted
<1>8. CASE DumpQueueNext
  BY <1>8, HandlesFrame DEF DumpQueueNext, Alive, Uncounted
<1>9. CASE DumpProgressNext
  BY <1>9, HandlesFrame DEF DumpProgressNext, Alive, Uncounted
<1>10. CASE DumpWrite
  BY <1>10, HandlesFrame DEF DumpWrite, Alive, Uncounted
<1>11. CASE RemoveOld
  BY <1>11, HandlesFrame DEF RemoveOld, Alive, Uncounted
<1>12. CASE RenameQueueToOld
  BY <1>12, HandlesFrame DEF RenameQueueToOld, Alive, Uncounted
<1>13. CASE RenameNewToQueue
  BY <1>13, HandlesFrame DEF RenameNewToQueue, Alive, Uncounted
<1>14. CASE RemoveBackup
  BY <1>14, HandlesFrame DEF RemoveBackup, Alive, Uncounted
<1>15. CASE TruncateLog
  BY <1>15, HandlesFrame DEF TruncateLog, Alive, Uncounted
<1>16. QED
  BY <1>1, <1>2, <1>3, <1>4, <1>5, <1>6, <1>7, <1>8, <1>9, <1>10, <1>11,
     <1>12, <1>13, <1>14, <1>15 DEF thread_manager, transaction_checkpoint

LEMMA ProcessKeepsHandles ==
    ASSUME TypeOK, Shape, HandleAccounting,
           \/ Signal \/ \E p \in {Main, Mgr, Sig} : logc_shutdown(p)
           \/ Timeout \/ Restart
    PROVE  HandleAccounting'
<1> USE ThreadsAssumption
      DEF TypeOK, PcType, LocalType, SharedType, Shape, StartShape, flags,
          entries, workers, sharedVars, workerVars, localVars, files, disk,
          world, history, system, outside, Procs, Creators
<1>1. CASE Signal
  BY <1>1, HandlesFrame DEF Signal, Alive, Uncounted
<1>2. ASSUME NEW p \in {Main, Mgr, Sig}, Shutdown(p) PROVE HandleAccounting'
  BY <1>2, HandlesFrame DEF Shutdown, Alive, Uncounted
<1>3. ASSUME NEW p \in {Main, Mgr, Sig}, ExitProcess(p) PROVE HandleAccounting'
  BY <1>3 DEF ExitProcess, HandleAccounting
<1>4. CASE Timeout
  BY <1>4, HandlesFrame DEF Timeout, Alive, Uncounted
<1>5. CASE Restart
  <2>1. Alive' = {} /\ Uncounted' = {}
    BY <1>5 DEF Restart, Alive, Uncounted
  <2>2. current_workers' = 0
    BY <1>5 DEF Restart
  <2>3. Cardinality(Alive') = current_workers' + Cardinality(Uncounted')
    BY <2>1, <2>2, FS_EmptySet
  <2>4. QED
    BY <2>1, <2>3 DEF HandleAccounting, Uncounted
<1>6. QED
  BY <1>1, <1>2, <1>3, <1>4, <1>5 DEF logc_shutdown
LEMMA HandlesInit == Init => HandleAccounting
<1> SUFFICES ASSUME Init PROVE HandleAccounting
  OBVIOUS
<1>1. Alive = {} /\ Uncounted = {}
  BY ThreadsAssumption DEF Init, Alive, Uncounted, Procs, Creators
<1>2. Cardinality(Alive) = current_workers + Cardinality(Uncounted)
  BY <1>1, FS_EmptySet DEF Init
<1>3. QED
  BY <1>1, <1>2 DEF HandleAccounting, Uncounted

LEMMA HandlesStep == TypeInv /\ HandleAccounting /\ [Next]_vars => HandleAccounting'
<1> SUFFICES ASSUME TypeOK, Shape, HandleAccounting, [Next]_vars
             PROVE  HandleAccounting'
  BY DEF TypeInv
<1>1. CASE UNCHANGED vars
  BY <1>1, HandlesFrame DEF vars, sharedVars, localVars, workerVars, outside,
     system, Alive, Uncounted
<1>2. CASE Next
  BY <1>2, StartupKeepsHandles, ReceiveKeepsHandles, CreateKeepsHandles,
     WorkerKeepsHandles, ManagerKeepsHandles, ProcessKeepsHandles DEF Next
<1>3. QED
  BY <1>1, <1>2

\* A cURL handle is idle or with one worker, and current_workers, by which
\* create_new_worker keeps to max_connections and thread_manager decides that
\* all have left, counts the workers that own one, except one that has been
\* started and not counted yet.
THEOREM HandleAccountingCorrect == Spec => []HandleAccounting
  BY HandlesInit, HandlesStep, TypeInvCorrect, PTL DEF Spec
-----------------------------------------------------------------------------
(* The end of a process.                                                   *)

\* Every step but a restart is one of a process that runs.
LEMMA AwakeStep ==
    ASSUME TypeOK, ExitedStill, Next PROVE status = "up" \/ Restart
<1> USE ThreadsAssumption DEF TypeOK, OutsideType, ExitedStill, Procs
<1>1. CASE Startup
  BY <1>1 DEF Startup, LoadQueue, AdoptOld, StartThreads, StartFails
<1>2. CASE receive_loop
  BY <1>2 DEF receive_loop, Receive, AddEntry, AddEntryWorker, EndOfInput,
     LeaveReceiveLoop
<1>3. ASSUME NEW c \in Creators, create_new_worker(c) PROVE status = "up"
  BY <1>3 DEF create_new_worker, CreateNotNeeded, CreateThread, CountWorker,
     CreateFails, Creators
<1>4. ASSUME NEW t \in Threads, thread_worker(t) PROVE status = "up"
  BY <1>4 DEF thread_worker, WorkerLoop, FetchLock, FetchPop, FetchEmpty,
     FetchRegister, SkipInvalid, SkipMissing, SendAccepted, RemoveFile,
     SendConflict, SendFailed, DownLock, Requeue, Release, ThreadExit
<1>5. CASE thread_manager
  BY <1>5 DEF thread_manager, ManagerRound, ManagerLock, SkipCheckpoint,
     StartCheckpoint, Drain, FinalCheckpoint, ManagerExit,
     transaction_checkpoint, DumpQueueNext, DumpProgressNext, DumpWrite,
     RemoveOld, RenameQueueToOld, RenameNewToQueue, RemoveBackup, TruncateLog
<1>6. CASE Signal \/ Timeout
  BY <1>6 DEF Signal, Timeout
<1>7. ASSUME NEW p \in {Main, Mgr, Sig}, logc_shutdown(p) PROVE status = "up"
  BY <1>7 DEF logc_shutdown, Shutdown, ExitProcess
<1>8. QED
  BY <1>1, <1>2, <1>3, <1>4, <1>5, <1>6, <1>7 DEF Next

\* Only logc_shutdown ends a process, called at startup or later.
LEMMA StatusStep ==
    ASSUME Next
    PROVE  \/ status' = status \/ Restart \/ StartFails
           \/ \E p \in {Main, Mgr, Sig} : ExitProcess(p)
<1> USE DEF outside, system
<1>1. CASE Startup
  BY <1>1 DEF Startup, LoadQueue, AdoptOld, StartThreads
<1>2. CASE receive_loop
  BY <1>2 DEF receive_loop, Receive, AddEntry, AddEntryWorker, EndOfInput,
     LeaveReceiveLoop
<1>3. ASSUME NEW c \in Creators, create_new_worker(c) PROVE status' = status
  BY <1>3 DEF create_new_worker, CreateNotNeeded, CreateThread, CountWorker,
     CreateFails
<1>4. ASSUME NEW t \in Threads, thread_worker(t) PROVE status' = status
  BY <1>4 DEF thread_worker, WorkerLoop, FetchLock, FetchPop, FetchEmpty,
     FetchRegister, SkipInvalid, SkipMissing, SendAccepted, RemoveFile,
     SendConflict, SendFailed, DownLock, Requeue, Release, ThreadExit
<1>5. CASE thread_manager
  BY <1>5 DEF thread_manager, ManagerRound, ManagerLock, SkipCheckpoint,
     StartCheckpoint, Drain, FinalCheckpoint, ManagerExit,
     transaction_checkpoint, DumpQueueNext, DumpProgressNext, DumpWrite,
     RemoveOld, RenameQueueToOld, RenameNewToQueue, RemoveBackup, TruncateLog
<1>6. CASE Signal \/ Timeout
  BY <1>6 DEF Signal, Timeout
<1>7. ASSUME NEW p \in {Main, Mgr, Sig}, Shutdown(p) PROVE status' = status
  BY <1>7 DEF Shutdown
<1>8. QED
  BY <1>1, <1>2, <1>3, <1>4, <1>5, <1>6, <1>7 DEF Next, logc_shutdown

LEMMA ExitedInit == Init => ExitedStill
  BY DEF Init, ExitedStill

LEMMA ExitedStep == TypeInv /\ ExitedStill /\ [Next]_vars => ExitedStill'
<1> SUFFICES ASSUME TypeOK, ExitedStill, [Next]_vars PROVE ExitedStill'
  BY DEF TypeInv
<1>1. CASE UNCHANGED vars
  BY <1>1 DEF vars, outside, system, ExitedStill
<1>2. CASE Restart
  BY <1>2 DEF Restart, ExitedStill
<1>3. ASSUME NEW p \in {Main, Mgr, Sig}, ExitProcess(p) PROVE ExitedStill'
  BY <1>3 DEF ExitProcess, ExitedStill
<1>4. CASE StartFails
  BY <1>4 DEF StartFails, ExitedStill
<1>5. QED
  BY <1>1, <1>2, <1>3, <1>4, AwakeStep, StatusStep DEF ExitedStill

-----------------------------------------------------------------------------
(* The dump, while workers and the main thread go on.                      *)

\* A step of another thread, which leaves steady entries where they are.
LEMMA CoversMove ==
    ASSUME DumpCovers, pc'[Mgr] = pc[Mgr], DumpWaits,
           steady' \subseteq steady,
           \A e \in steady' : e \in in_progress => e \in in_progress',
           \A e \in steady', j \in 1..Len(queue) :
              queue[j] = e => j \in 1..Len(queue') /\ queue'[j] = e
    PROVE  DumpCovers'
<1>1. /\ \A e : Written(e)' <=> Written(e)
      /\ ck'.i = ck.i /\ ck'.cur = ck.cur /\ ck'.seen = ck.seen
      /\ \A e \in steady' : Missed(e) => Missed(e)'
  BY DEF Written, Missed, DumpWaits
<1>2. (pc[Mgr] \in InQueue => ck.seen = {})'
  BY <1>1 DEF DumpCovers, InQueue
<1>3. ASSUME pc[Mgr] \in InQueue, NEW e \in steady'
      PROVE  \/ e \in in_progress'
             \/ \E j \in 1..Len(queue') :
                   /\ queue'[j] = e
                   /\ j < ck.i => \/ Written(e)
                                  \/ pc[Mgr] = "ckqueuewrite" /\ ck.cur = e
  <2>1. CASE e \in in_progress
    BY <1>3, <2>1
  <2>2. CASE e \notin in_progress
    <3>1. PICK j \in 1..Len(queue) :
             /\ queue[j] = e
             /\ j < ck.i => \/ Written(e)
                            \/ pc[Mgr] = "ckqueuewrite" /\ ck.cur = e
      BY <1>3, <2>2 DEF DumpCovers
    <3>2. j \in 1..Len(queue') /\ queue'[j] = e
      BY <1>3, <3>1
    <3>3. QED
      BY <3>1, <3>2
  <2>3. QED
    BY <2>1, <2>2
<1>4. ASSUME pc[Mgr] \in InProgress, NEW e \in steady'
      PROVE  \/ Written(e) \/ Missed(e)
             \/ /\ e \in in_progress'
                /\ e \in ck.seen => pc[Mgr] = "ckprogresswrite" /\ ck.cur = e
  BY <1>4 DEF DumpCovers
<1>5. ASSUME pc[Mgr] \in Dumped, NEW e \in steady'
      PROVE  Written(e) \/ Missed(e)
  BY <1>5 DEF DumpCovers
<1>6. QED
  BY <1>1, <1>2, <1>3, <1>4, <1>5 DEF DumpCovers, InQueue, InProgress, Dumped

\* A step that leaves the entries and the dump alone.
LEMMA CoversFrame ==
    ASSUME DumpCovers, pc'[Mgr] = pc[Mgr],
           UNCHANGED <<ck, qnew, steady, in_progress, queue>>
    PROVE  DumpCovers'
  BY CoversMove DEF DumpWaits

\* No dump is under way after the step.
LEMMA CoversNone ==
    ASSUME pc'[Mgr] \notin HasNew PROVE DumpCovers'
  BY DEF DumpCovers, HasNew, InQueue, InProgress, Dumped

\* An entry is pushed.
LEMMA AppendKeeps ==
    ASSUME NEW q \in Seq(Entries), NEW e \in Entries
    PROVE  \A j \in 1..Len(q) :
              j \in 1..Len(Append(q, e)) /\ Append(q, e)[j] = q[j]
  OBVIOUS

\* The last entry is popped: the others keep their index.
LEMMA PopKeeps ==
    ASSUME NEW q \in Seq(Entries), q # <<>>
    PROVE  \A j \in 1..Len(q) :
              q[j] # Pop(q).entry =>
                 j \in 1..Len(Pop(q).rest) /\ Pop(q).rest[j] = q[j]
<1>1. Len(q) \in Nat \ {0} /\ DOMAIN q = 1..Len(q)
  OBVIOUS
<1>2. Pop(q).rest = Front(q) /\ Pop(q).entry = q[Len(q)]
  BY DEF Pop, Last
<1>3. /\ Front(q) \in Seq(Entries) /\ Len(Front(q)) = Len(q) - 1
      /\ \A j \in 1..Len(q) - 1 : Front(q)[j] = q[j]
  BY <1>1 DEF Front
<1>4. QED
  BY <1>1, <1>2, <1>3

\* What the dump appends.
LEMMA WrittenAppend ==
    ASSUME NEW f \in Seq(AnyLine), NEW l \in AnyLine
    PROVE  Range(Append(f, l)) = Range(f) \cup {l}
<1> DEFINE a == Append(f, l)
<1>1. /\ DOMAIN f = 1..Len(f) /\ DOMAIN a = 1..Len(f) + 1
      /\ \A i \in 1..Len(f) : a[i] = f[i]
      /\ a[Len(f) + 1] = l /\ Len(f) \in Nat
  OBVIOUS
<1> HIDE DEF a
<1>2. QED
  BY <1>1 DEF Range, a

\* The dump begins: nothing has been visited.
LEMMA CoversOpen ==
    ASSUME TypeOK, NEW final \in BOOLEAN, OpenNew(final),
           UNCHANGED <<queue, in_progress>>
    PROVE  DumpCovers'
<1>1. /\ ck'.i = 1 /\ ck'.seen = {} /\ steady' = Range(queue) \cup in_progress
      /\ pc'[Mgr] = "ckqueue"
  BY DEF OpenNew, CkIdle, TypeOK, PcType, Procs
<1>2. \A e \in Range(queue) : \E j \in 1..Len(queue) : queue[j] = e
  BY DEF Range, TypeOK, SharedType
<1>3. QED
  BY <1>1, <1>2 DEF DumpCovers, InQueue, InProgress, Dumped

LEMMA CoversQueueNext ==
    ASSUME TypeOK, Shape, DumpCovers, DumpQueueNext PROVE DumpCovers'
<1> USE ThreadsAssumption DEF TypeOK, PcType, Procs
<1>1. /\ pc[Mgr] = "ckqueue"
      /\ UNCHANGED <<queue, in_progress, steady, qnew>>
  BY DEF DumpQueueNext, sharedVars, entries, disk, files, outside, history
<1>2. \A e : Written(e)' <=> Written(e)
  BY <1>1 DEF Written
<1>3. CASE ck.i <= Len(queue)
  <2>1. /\ ck' = [ck EXCEPT !.cur = queue[ck.i], !.i = @ + 1]
        /\ pc'[Mgr] = "ckqueuewrite"
    BY <1>3 DEF DumpQueueNext
  <2>2. ck'.i = ck.i + 1 /\ ck'.cur = queue[ck.i] /\ ck'.seen = ck.seen
        /\ ck.i \in Nat
    BY <2>1 DEF CkType
  <2>3. ASSUME NEW e \in steady, e \notin in_progress
        PROVE  \E j \in 1..Len(queue) :
                  /\ queue[j] = e
                  /\ j < ck.i + 1 => Written(e) \/ queue[ck.i] = e
    <3>1. PICK j \in 1..Len(queue) : queue[j] = e /\ (j < ck.i => Written(e))
      BY <1>1, <2>3 DEF DumpCovers, InQueue
    <3>2. j < ck.i + 1 => j < ck.i \/ j = ck.i
      BY <2>2, <3>1 DEF SharedType
    <3>3. QED
      BY <3>1, <3>2
  <2>4. ck'.seen = {}
    BY <1>1, <2>2 DEF DumpCovers, InQueue
  <2>5. QED
    BY <1>1, <1>2, <2>1, <2>2, <2>3, <2>4
       DEF DumpCovers, InQueue, InProgress, Dumped
<1>4. CASE ~(ck.i <= Len(queue))
  <2>1. /\ ck' = [ck EXCEPT !.todo = in_progress]
        /\ pc'[Mgr] = "ckprogress"
    BY <1>4 DEF DumpQueueNext
  <2>2. ck'.todo = in_progress /\ ck'.seen = {} /\ ck.i \in Nat
    BY <1>1, <2>1 DEF CkType, DumpCovers, InQueue
  <2>3. ASSUME NEW e \in steady, e \notin in_progress PROVE Written(e)
    <3>1. PICK j \in 1..Len(queue) : queue[j] = e /\ (j < ck.i => Written(e))
      BY <1>1, <2>3 DEF DumpCovers, InQueue
    <3>2. j < ck.i
      BY <1>4, <2>2, <3>1 DEF SharedType
    <3>3. QED
      BY <3>1, <3>2
  <2>4. QED
    BY <1>1, <1>2, <2>1, <2>2, <2>3
       DEF DumpCovers, InQueue, InProgress, Dumped
<1>5. QED
  BY <1>3, <1>4

LEMMA CoversProgressNext ==
    ASSUME TypeOK, Shape, DumpCovers, DumpProgressNext PROVE DumpCovers'
<1> USE ThreadsAssumption DEF TypeOK, PcType, Procs
<1>1. /\ pc[Mgr] = "ckprogress"
      /\ UNCHANGED <<queue, in_progress, steady, qnew>>
  BY DEF DumpProgressNext, sharedVars, entries, disk, files, outside, history
<1>2. \A e : Written(e)' <=> Written(e)
  BY <1>1 DEF Written
<1>3. \A e \in steady : \/ Written(e) \/ Missed(e)
                        \/ e \in in_progress /\ e \notin ck.seen
  BY <1>1 DEF DumpCovers, InProgress
<1>4. ASSUME NEW x \in in_progress \cup Astray,
             ck' = [ck EXCEPT !.cur = x, !.seen = @ \cup {x}],
             pc' = [pc EXCEPT ![Mgr] = "ckprogresswrite"]
      PROVE  DumpCovers'
  <2>1. /\ ck'.cur = x /\ ck'.seen = ck.seen \cup {x} /\ ck'.stale = ck.stale
        /\ pc'[Mgr] = "ckprogresswrite"
    BY <1>4 DEF CkType
  <2>2. QED
    BY <1>1, <1>2, <1>3, <2>1
       DEF DumpCovers, Missed, InQueue, InProgress, Dumped
<1>5. ASSUME ck.stale \/ MetAll, UNCHANGED ck,
             pc' = [pc EXCEPT ![Mgr] = "ckremove"]
      PROVE  DumpCovers'
  BY <1>1, <1>2, <1>3, <1>5
     DEF DumpCovers, MetAll, Missed, InQueue, InProgress, Dumped
<1>6. QED
  BY <1>4, <1>5 DEF DumpProgressNext

\* The line of an entry that is still there is written, not what the memory
\* of a freed one holds.
LEMMA CoversWrite ==
    ASSUME TypeOK, Shape, EntryShape, ExitedStill, DumpCovers, DumpWrite
    PROVE  DumpCovers'
<1> USE ThreadsAssumption DEF TypeOK, PcType, Procs
<1>1. /\ pc[Mgr] \in {"ckqueuewrite", "ckprogresswrite"}
      /\ UNCHANGED <<queue, in_progress, steady>>
      /\ ck' = [ck EXCEPT !.cur = None]
      /\ pc'[Mgr] = IF pc[Mgr] = "ckqueuewrite" THEN "ckqueue" ELSE "ckprogress"
  BY DEF DumpWrite, sharedVars, entries, disk, files, outside, history
<1>2. status = "up"
  BY <1>1 DEF ExitedStill, OutsideType
<1>3. qnew \in Seq(AnyLine) /\ ck.cur \in Entries
  BY <1>1 DEF DiskType, File, Shape, DumpShape, CkType
<1>4. PICK l \in AnyLine :
         /\ qnew' = Append(qnew, l)
         /\ ck.cur \in LiveEntries => l = ck.cur.line
  BY <1>3 DEF DumpWrite, Entries, AnyLine
<1>5. Range(qnew') = Range(qnew) \cup {l}
  BY <1>3, <1>4, WrittenAppend
<1>6. \A e : Written(e) => Written(e)'
  BY <1>5 DEF Written
<1>7. \A e \in in_progress : e \in LiveEntries
  BY <1>2, LinesAssumption
     DEF EntryShape, ProgressExact, Registered, LiveEntries
<1>8. \A j \in 1..Len(queue) : queue[j] \in LiveEntries
  BY DEF LiveEntries, Range, SharedType
<1>9. \A e \in LiveEntries : e = ck.cur => Written(e)'
  BY <1>1, <1>4, <1>5 DEF Written
<1>10. ck'.i = ck.i /\ ck'.seen = ck.seen /\ ck'.stale = ck.stale
  BY <1>1 DEF CkType
<1>11. CASE pc[Mgr] = "ckqueuewrite"
  <2>1. pc'[Mgr] = "ckqueue" /\ ck'.seen = {}
    BY <1>1, <1>10, <1>11 DEF DumpCovers, InQueue
  <2>2. ASSUME NEW e \in steady, e \notin in_progress
        PROVE  \E j \in 1..Len(queue) :
                  queue[j] = e /\ (j < ck.i => Written(e)')
    <3>1. PICK j \in 1..Len(queue) :
             queue[j] = e /\ (j < ck.i => Written(e) \/ ck.cur = e)
      BY <1>11, <2>2 DEF DumpCovers, InQueue
    <3>2. QED
      BY <1>6, <1>8, <1>9, <3>1
  <2>3. QED
    BY <1>1, <1>10, <2>1, <2>2 DEF DumpCovers, InQueue, InProgress, Dumped
<1>12. CASE pc[Mgr] = "ckprogresswrite"
  <2>1. pc'[Mgr] = "ckprogress"
    BY <1>1, <1>12
  <2>2. ASSUME NEW e \in steady
        PROVE  Written(e)' \/ Missed(e) \/ (e \in in_progress
                                           /\ e \notin ck.seen)
    BY <1>6, <1>7, <1>9, <1>12, <2>2 DEF DumpCovers, InProgress
  <2>3. QED
    BY <1>1, <1>10, <2>1, <2>2
       DEF DumpCovers, Missed, InQueue, InProgress, Dumped
<1>13. QED
  BY <1>1, <1>11, <1>12

LEMMA StartupKeepsCovers ==
    ASSUME TypeOK, Shape, EntryShape, ExitedStill, DumpCovers,
           Startup
    PROVE  DumpCovers'
<1> USE ThreadsAssumption
      DEF TypeOK, PcType, LocalType, SharedType, Shape, StartShape, flags,
          entries, workers, sharedVars, workerVars, localVars, files, disk,
          world, history, system, outside, Procs, Creators
<1>1. CASE LoadQueue
  BY <1>1, CoversNone DEF LoadQueue, HasNew, InQueue, InProgress, Dumped
<1>2. CASE AdoptOld
  BY <1>2, CoversNone DEF AdoptOld, HasNew, InQueue, InProgress, Dumped
<1>3. CASE StartThreads
  BY <1>3, CoversNone DEF StartThreads, HasNew, InQueue, InProgress, Dumped
<1>4. CASE StartFails
  BY <1>4, CoversNone DEF StartFails, HasNew, InQueue, InProgress, Dumped
<1>5. QED
  BY <1>1, <1>2, <1>3, <1>4 DEF Startup

LEMMA ReceiveKeepsCovers ==
    ASSUME TypeOK, Shape, EntryShape, ExitedStill, DumpCovers,
           receive_loop
    PROVE  DumpCovers'
<1> USE ThreadsAssumption
      DEF TypeOK, PcType, LocalType, SharedType, Shape, StartShape, flags,
          entries, workers, sharedVars, workerVars, localVars, files, disk,
          world, history, system, outside, Procs, Creators
<1>1. ASSUME NEW l \in Lines, Receive(l) PROVE DumpCovers'
  BY <1>1, CoversFrame DEF Receive
<1>2. CASE AddEntry
  <2>1. Entry(entry_counter, recv) \in Entries
    BY <1>2, LinesAssumption DEF AddEntry, Entry, Entries, AnyLine
  <2>2. \A j \in 1..Len(queue) : j \in 1..Len(queue') /\ queue'[j] = queue[j]
    BY <1>2, <2>1, AppendKeeps DEF AddEntry
  <2>3. QED
    BY <1>2, <2>2, CoversMove DEF AddEntry, DumpWaits
<1>3. CASE AddEntryWorker
  BY <1>3, CoversFrame DEF AddEntryWorker
<1>4. CASE EndOfInput
  BY <1>4, CoversFrame DEF EndOfInput
<1>5. CASE LeaveReceiveLoop
  BY <1>5, CoversFrame DEF LeaveReceiveLoop
<1>6. QED
  BY <1>1, <1>2, <1>3, <1>4, <1>5 DEF receive_loop

LEMMA CreateKeepsCovers ==
    ASSUME TypeOK, Shape, EntryShape, ExitedStill, DumpCovers,
           NEW c \in Creators, create_new_worker(c)
    PROVE  DumpCovers'
<1> USE ThreadsAssumption
      DEF TypeOK, PcType, LocalType, SharedType, Shape, StartShape, flags,
          entries, workers, sharedVars, workerVars, localVars, files, disk,
          world, history, system, outside, Procs, Creators
<1>1. CASE CreateNotNeeded(c)
  <2>1. CASE c = Main
    BY <1>1, <2>1, CoversFrame DEF CreateNotNeeded
  <2>2. CASE c = Mgr
    BY <1>1, <2>2, CoversNone DEF CreateNotNeeded, AfterCreate, HasNew, InQueue, InProgress,
       Dumped
  <2>3. QED
    BY <2>1, <2>2
<1>2. ASSUME NEW t \in Threads, NEW h \in Handles, CreateThread(c, t, h)
      PROVE  DumpCovers'
  <2>1. CASE c = Main
    BY <1>2, <2>1, CoversFrame DEF CreateThread
  <2>2. CASE c = Mgr
    BY <1>2, <2>2, CoversNone DEF CreateThread, AfterCreate, HasNew, InQueue, InProgress,
       Dumped
  <2>3. QED
    BY <2>1, <2>2
<1>3. CASE CountWorker(c)
  <2>1. CASE c = Main
    BY <1>3, <2>1, CoversFrame DEF CountWorker
  <2>2. CASE c = Mgr
    BY <1>3, <2>2, CoversNone DEF CountWorker, AfterCreate, HasNew, InQueue, InProgress,
       Dumped
  <2>3. QED
    BY <2>1, <2>2
<1>4. CASE CreateFails(c)
  <2>1. CASE c = Main
    BY <1>4, <2>1, CoversFrame DEF CreateFails
  <2>2. CASE c = Mgr
    BY <1>4, <2>2, CoversNone DEF CreateFails, AfterCreate, HasNew, InQueue, InProgress,
       Dumped
  <2>3. QED
    BY <2>1, <2>2
<1>5. QED
  BY <1>1, <1>2, <1>3, <1>4 DEF create_new_worker

LEMMA WorkerKeepsCovers ==
    ASSUME TypeOK, Shape, EntryShape, ExitedStill, DumpCovers,
           NEW t \in Threads, thread_worker(t)
    PROVE  DumpCovers'
<1> USE ThreadsAssumption
      DEF TypeOK, PcType, LocalType, SharedType, Shape, StartShape, flags,
          entries, workers, sharedVars, workerVars, localVars, files, disk,
          world, history, system, outside, Procs, Creators
<1>1. CASE WorkerLoop(t)
  BY <1>1, CoversFrame DEF WorkerLoop
<1>2. CASE FetchLock(t)
  BY <1>2, CoversMove, DisturbedType DEF FetchLock, Complete, Withdraw, DumpWaits
<1>3. CASE FetchPop(t)
  <2>1. \A j \in 1..Len(queue) : queue[j] # Pop(queue).entry =>
           j \in 1..Len(queue') /\ queue'[j] = queue[j]
    BY <1>3, PopKeeps DEF FetchPop
  <2>2. steady' = steady \ {Pop(queue).entry}
    BY <1>3 DEF FetchPop
  <2>3. QED
    BY <1>3, <2>1, <2>2, CoversMove DEF FetchPop, DumpWaits
<1>4. CASE FetchEmpty(t)
  BY <1>4, CoversFrame DEF FetchEmpty
<1>5. CASE FetchRegister(t)
  BY <1>5, CoversMove, DisturbedType DEF FetchRegister, DumpWaits
<1>6. CASE SkipInvalid(t)
  BY <1>6, CoversFrame DEF SkipInvalid
<1>7. CASE SkipMissing(t)
  BY <1>7, CoversFrame DEF SkipMissing
<1>8. CASE SendAccepted(t)
  BY <1>8, CoversFrame DEF SendAccepted
<1>9. CASE RemoveFile(t)
  BY <1>9, CoversFrame DEF RemoveFile
<1>10. CASE SendConflict(t)
  BY <1>10, CoversFrame DEF SendConflict
<1>11. CASE SendFailed(t)
  BY <1>11, CoversFrame DEF SendFailed
<1>12. CASE DownLock(t)
  BY <1>12, CoversMove, DisturbedType DEF DownLock, Complete, Withdraw, DumpWaits
<1>13. CASE Requeue(t)
  <2>1. \A j \in 1..Len(queue) : j \in 1..Len(queue') /\ queue'[j] = queue[j]
    <3>1. CASE held[t] # None
      BY <1>13, <3>1, AppendKeeps DEF Requeue, PutBack
    <3>2. CASE held[t] = None
      BY <1>13, <3>2 DEF Requeue, PutBack
    <3>3. QED
      BY <3>1, <3>2
  <2>2. QED
    BY <1>13, <2>1, CoversMove DEF Requeue, DumpWaits
<1>14. CASE Release(t)
  BY <1>14, CoversFrame DEF Release
<1>15. CASE ThreadExit(t)
  BY <1>15, CoversFrame DEF ThreadExit
<1>16. QED
  BY <1>1, <1>2, <1>3, <1>4, <1>5, <1>6, <1>7, <1>8, <1>9, <1>10, <1>11,
     <1>12, <1>13, <1>14, <1>15 DEF thread_worker

LEMMA ManagerKeepsCovers ==
    ASSUME TypeOK, Shape, EntryShape, ExitedStill, DumpCovers,
           thread_manager
    PROVE  DumpCovers'
<1> USE ThreadsAssumption
      DEF TypeOK, PcType, LocalType, SharedType, Shape, StartShape, flags,
          entries, workers, sharedVars, workerVars, localVars, files, disk,
          world, history, system, outside, Procs, Creators
<1>1. CASE ManagerRound
  BY <1>1, CoversNone DEF ManagerRound, HasNew, InQueue, InProgress, Dumped
<1>2. CASE ManagerLock
  BY <1>2, CoversNone DEF ManagerLock, HasNew, InQueue, InProgress, Dumped
<1>3. CASE SkipCheckpoint
  BY <1>3, CoversNone DEF SkipCheckpoint, HasNew, InQueue, InProgress, Dumped
<1>4. CASE StartCheckpoint
  BY <1>4, CoversOpen DEF StartCheckpoint
<1>5. CASE Drain
  BY <1>5, CoversNone DEF Drain, HasNew, InQueue, InProgress, Dumped
<1>6. CASE FinalCheckpoint
  <2>1. CASE OpenNew(TRUE)
    BY <1>6, <2>1, CoversOpen DEF FinalCheckpoint
  <2>2. CASE pc' = [pc EXCEPT ![Mgr] = "leave"]
    BY <2>2, CoversNone DEF HasNew, InQueue, InProgress, Dumped
  <2>3. QED
    BY <1>6, <2>1, <2>2 DEF FinalCheckpoint
<1>7. CASE ManagerExit
  BY <1>7, CoversNone DEF ManagerExit, HasNew, InQueue, InProgress, Dumped
<1>8. CASE DumpQueueNext
  BY <1>8, CoversQueueNext
<1>9. CASE DumpProgressNext
  BY <1>9, CoversProgressNext
<1>10. CASE DumpWrite
  BY <1>10, CoversWrite
<1>11. CASE RemoveOld
  <2>1. pc[Mgr] \in Dumped /\ pc'[Mgr] \in Dumped
    BY <1>11 DEF RemoveOld, Dumped
  <2>2. UNCHANGED <<steady, qnew, ck, in_progress>>
    BY <1>11 DEF RemoveOld
  <2>3. QED
    BY <2>1, <2>2 DEF DumpCovers, Written, Missed, InQueue, InProgress, Dumped
<1>12. CASE RenameQueueToOld
  <2>1. pc[Mgr] \in Dumped /\ pc'[Mgr] \in Dumped
    BY <1>12 DEF RenameQueueToOld, Dumped
  <2>2. UNCHANGED <<steady, qnew, ck, in_progress>>
    BY <1>12 DEF RenameQueueToOld
  <2>3. QED
    BY <2>1, <2>2 DEF DumpCovers, Written, Missed, InQueue, InProgress, Dumped
<1>13. CASE RenameNewToQueue
  BY <1>13, CoversNone DEF RenameNewToQueue, HasNew, InQueue, InProgress,
     Dumped
<1>14. CASE RemoveBackup
  BY <1>14, CoversNone DEF RemoveBackup, HasNew, InQueue, InProgress, Dumped
<1>15. CASE TruncateLog
  BY <1>15, CoversNone DEF TruncateLog, HasNew, InQueue, InProgress, Dumped
<1>16. QED
  BY <1>1, <1>2, <1>3, <1>4, <1>5, <1>6, <1>7, <1>8, <1>9, <1>10, <1>11,
     <1>12, <1>13, <1>14, <1>15 DEF thread_manager, transaction_checkpoint

LEMMA ProcessKeepsCovers ==
    ASSUME TypeOK, Shape, EntryShape, ExitedStill, DumpCovers,
           \/ Signal \/ \E p \in {Main, Mgr, Sig} : logc_shutdown(p)
           \/ Timeout \/ Restart
    PROVE  DumpCovers'
<1> USE ThreadsAssumption
      DEF TypeOK, PcType, LocalType, SharedType, Shape, StartShape, flags,
          entries, workers, sharedVars, workerVars, localVars, files, disk,
          world, history, system, outside, Procs, Creators
<1>1. CASE Signal
  BY <1>1, CoversFrame DEF Signal
<1>2. ASSUME NEW p \in {Main, Mgr, Sig}, Shutdown(p) PROVE DumpCovers'
  <2>1. CASE p = Mgr
    BY <1>2, <2>1, CoversNone DEF Shutdown, HasNew, InQueue, InProgress, Dumped
  <2>2. CASE p # Mgr
    BY <1>2, <2>2, CoversFrame DEF Shutdown
  <2>3. QED
    BY <2>1, <2>2
<1>3. ASSUME NEW p \in {Main, Mgr, Sig}, ExitProcess(p) PROVE DumpCovers'
  BY <1>3, CoversNone DEF ExitProcess, HasNew, InQueue, InProgress, Dumped
<1>4. CASE Timeout
  BY <1>4, CoversFrame DEF Timeout
<1>5. CASE Restart
  BY <1>5, CoversNone DEF Restart, HasNew, InQueue, InProgress, Dumped
<1>6. QED
  BY <1>1, <1>2, <1>3, <1>4, <1>5 DEF logc_shutdown
LEMMA CoversInit == Init => DumpCovers
  BY ThreadsAssumption DEF Init, DumpCovers, InQueue, InProgress, Dumped, Procs

LEMMA CoversStep ==
    TypeInv /\ EntryShape /\ ExitedStill /\ DumpCovers /\ [Next]_vars => DumpCovers'
<1> SUFFICES ASSUME TypeOK, Shape, EntryShape, ExitedStill, DumpCovers,
                    [Next]_vars
             PROVE  DumpCovers'
  BY DEF TypeInv
<1>1. CASE UNCHANGED vars
  BY <1>1, CoversFrame DEF vars, sharedVars, entries, localVars, disk, files,
     outside, history
<1>2. CASE Next
  BY <1>2, StartupKeepsCovers, ReceiveKeepsCovers, CreateKeepsCovers,
     WorkerKeepsCovers, ManagerKeepsCovers, ProcessKeepsCovers DEF Next
<1>3. QED
  BY <1>1, <1>2

\* transaction_checkpoint runs without the thread mutex, yet the new queue
\* file has the line of every entry that stayed where it was while the dump
\* ran, however the main thread and the workers push, pop and free others,
\* except one that stayed in in_progress while the iteration over it was
\* disturbed.
THEOREM SteadyEntriesDumpedCorrect == Spec => []SteadyEntriesDumped
<1>1. DumpCovers => SteadyEntriesDumped
  BY DEF DumpCovers, SteadyEntriesDumped, Written, Missed, Dumped
<1>2. QED
  BY <1>1, CoversInit, CoversStep, ExitedInit, ExitedStep, EntryInit,
     EntryStep, TypeInvCorrect, PTL DEF Spec
-----------------------------------------------------------------------------
(* Flags and program points on the way to an exit.                         *)

LEMMA StartupKeepsOrder ==
    ASSUME TypeOK, Shape, CloseOrder,
           Startup
    PROVE  CloseOrder'
<1> USE LinesAssumption, ThreadsAssumption, OptionsAssumption
      DEF TypeOK, PcType, MainLabels, MgrLabels, DumpLabels, SigLabels,
          FlagsType, LocalType, OutsideType, Shape, StartShape, CloseOrder,
          Started, Closing, HasNew, InQueue, InProgress, Dumped, flags,
          entries, workers, sharedVars, workerVars, localVars, files, disk,
          world, history, system, outside, Procs, Creators
<1>1. CASE LoadQueue
  BY <1>1 DEF LoadQueue
<1>2. CASE AdoptOld
  BY <1>2 DEF AdoptOld
<1>3. CASE StartThreads
  BY <1>3 DEF StartThreads
<1>4. CASE StartFails
  BY <1>4 DEF StartFails
<1>5. QED
  BY <1>1, <1>2, <1>3, <1>4 DEF Startup

LEMMA ReceiveKeepsOrder ==
    ASSUME TypeOK, Shape, CloseOrder,
           receive_loop
    PROVE  CloseOrder'
<1> USE LinesAssumption, ThreadsAssumption, OptionsAssumption
      DEF TypeOK, PcType, MainLabels, MgrLabels, DumpLabels, SigLabels,
          FlagsType, LocalType, OutsideType, Shape, StartShape, CloseOrder,
          Started, Closing, HasNew, InQueue, InProgress, Dumped, flags,
          entries, workers, sharedVars, workerVars, localVars, files, disk,
          world, history, system, outside, Procs, Creators
<1>1. ASSUME NEW l \in Lines, Receive(l) PROVE CloseOrder'
  BY <1>1 DEF Receive
<1>2. CASE AddEntry
  BY <1>2 DEF AddEntry, Lock
<1>3. CASE AddEntryWorker
  BY <1>3 DEF AddEntryWorker, Unlock
<1>4. CASE EndOfInput
  BY <1>4 DEF EndOfInput
<1>5. CASE LeaveReceiveLoop
  BY <1>5 DEF LeaveReceiveLoop
<1>6. QED
  BY <1>1, <1>2, <1>3, <1>4, <1>5 DEF receive_loop

LEMMA CreateKeepsOrder ==
    ASSUME TypeOK, Shape, CloseOrder,
           NEW c \in Creators, create_new_worker(c)
    PROVE  CloseOrder'
<1> USE LinesAssumption, ThreadsAssumption, OptionsAssumption
      DEF TypeOK, PcType, MainLabels, MgrLabels, DumpLabels, SigLabels,
          FlagsType, LocalType, OutsideType, Shape, StartShape, CloseOrder,
          Started, Closing, HasNew, InQueue, InProgress, Dumped, flags,
          entries, workers, sharedVars, workerVars, localVars, files, disk,
          world, history, system, outside, Procs, Creators
<1>1. CASE CreateNotNeeded(c)
  BY <1>1 DEF CreateNotNeeded, AfterCreate, Unlock
<1>2. ASSUME NEW t \in Threads, NEW h \in Handles, CreateThread(c, t, h)
      PROVE  CloseOrder'
  BY <1>2 DEF CreateThread
<1>3. CASE CountWorker(c)
  BY <1>3 DEF CountWorker, AfterCreate, Unlock
<1>4. CASE CreateFails(c)
  BY <1>4 DEF CreateFails
<1>5. QED
  BY <1>1, <1>2, <1>3, <1>4 DEF create_new_worker

LEMMA WorkerKeepsOrder ==
    ASSUME TypeOK, Shape, CloseOrder,
           NEW t \in Threads, thread_worker(t)
    PROVE  CloseOrder'
<1> USE LinesAssumption, ThreadsAssumption, OptionsAssumption
      DEF TypeOK, PcType, MainLabels, MgrLabels, DumpLabels, SigLabels,
          FlagsType, LocalType, OutsideType, Shape, StartShape, CloseOrder,
          Started, Closing, HasNew, InQueue, InProgress, Dumped, flags,
          entries, workers, sharedVars, workerVars, localVars, files, disk,
          world, history, system, outside, Procs, Creators
<1>1. CASE WorkerLoop(t)
  BY <1>1 DEF WorkerLoop
<1>2. CASE FetchLock(t)
  BY <1>2, DisturbedType DEF FetchLock, Lock, Complete
<1>3. CASE FetchPop(t)
  BY <1>3 DEF FetchPop
<1>4. CASE FetchEmpty(t)
  BY <1>4 DEF FetchEmpty, Unlock
<1>5. CASE FetchRegister(t)
  BY <1>5, DisturbedType DEF FetchRegister, Unlock
<1>6. CASE SkipInvalid(t)
  BY <1>6 DEF SkipInvalid
<1>7. CASE SkipMissing(t)
  BY <1>7 DEF SkipMissing, AfterRequest
<1>8. CASE SendAccepted(t)
  BY <1>8 DEF SendAccepted
<1>9. CASE RemoveFile(t)
  BY <1>9 DEF RemoveFile, AfterRequest
<1>10. CASE SendConflict(t)
  BY <1>10 DEF SendConflict, AfterRequest
<1>11. CASE SendFailed(t)
  BY <1>11 DEF SendFailed, AfterRequest
<1>12. CASE DownLock(t)
  BY <1>12, DisturbedType DEF DownLock, Lock, Complete
<1>13. CASE Requeue(t)
  BY <1>13 DEF Requeue
<1>14. CASE Release(t)
  BY <1>14 DEF Release, Unlock
<1>15. CASE ThreadExit(t)
  BY <1>15 DEF ThreadExit
<1>16. QED
  BY <1>1, <1>2, <1>3, <1>4, <1>5, <1>6, <1>7, <1>8, <1>9, <1>10, <1>11,
     <1>12, <1>13, <1>14, <1>15 DEF thread_worker

LEMMA ManagerKeepsOrder ==
    ASSUME TypeOK, Shape, CloseOrder,
           thread_manager
    PROVE  CloseOrder'
<1> USE LinesAssumption, ThreadsAssumption, OptionsAssumption
      DEF TypeOK, PcType, MainLabels, MgrLabels, DumpLabels, SigLabels,
          FlagsType, LocalType, OutsideType, Shape, StartShape, CloseOrder,
          Started, Closing, HasNew, InQueue, InProgress, Dumped, flags,
          entries, workers, sharedVars, workerVars, localVars, files, disk,
          world, history, system, outside, Procs, Creators
<1>1. CASE ManagerRound
  BY <1>1 DEF ManagerRound
<1>2. CASE ManagerLock
  BY <1>2 DEF ManagerLock, Lock
<1>3. CASE SkipCheckpoint
  BY <1>3 DEF SkipCheckpoint
<1>4. CASE StartCheckpoint
  BY <1>4 DEF StartCheckpoint, OpenNew, CkIdle
<1>5. CASE Drain
  BY <1>5 DEF Drain
<1>6. CASE FinalCheckpoint
  BY <1>6 DEF FinalCheckpoint, OpenNew, CkIdle
<1>7. CASE ManagerExit
  BY <1>7 DEF ManagerExit
<1>8. CASE DumpQueueNext
  <2>1. ck'.final = ck.final
    BY <1>8 DEF DumpQueueNext, CkType
  <2>2. /\ pc[Mgr] \in HasNew /\ pc'[Mgr] \in {"ckqueuewrite", "ckprogress"}
        /\ pc'[Main] = pc[Main] /\ pc'[Sig] = pc[Sig]
    BY <1>8 DEF DumpQueueNext
  <2>3. UNCHANGED <<recv, stdin, flags, status, restarts>>
    BY <1>8 DEF DumpQueueNext
  <2>4. QED
    BY <2>1, <2>2, <2>3
<1>9. CASE DumpProgressNext
  <2>1. ck'.final = ck.final
    BY <1>9 DEF DumpProgressNext, CkType
  <2>2. /\ pc[Mgr] \in HasNew /\ pc'[Mgr] \in {"ckprogresswrite", "ckremove"}
        /\ pc'[Main] = pc[Main] /\ pc'[Sig] = pc[Sig]
    BY <1>9 DEF DumpProgressNext
  <2>3. UNCHANGED <<recv, stdin, flags, status, restarts>>
    BY <1>9 DEF DumpProgressNext
  <2>4. QED
    BY <2>1, <2>2, <2>3
<1>10. CASE DumpWrite
  BY <1>10 DEF DumpWrite
<1>11. CASE RemoveOld
  BY <1>11 DEF RemoveOld
<1>12. CASE RenameQueueToOld
  BY <1>12 DEF RenameQueueToOld
<1>13. CASE RenameNewToQueue
  BY <1>13 DEF RenameNewToQueue
<1>14. CASE RemoveBackup
  BY <1>14 DEF RemoveBackup
<1>15. CASE TruncateLog
  BY <1>15 DEF TruncateLog
<1>16. QED
  BY <1>1, <1>2, <1>3, <1>4, <1>5, <1>6, <1>7, <1>8, <1>9, <1>10, <1>11,
     <1>12, <1>13, <1>14, <1>15 DEF thread_manager, transaction_checkpoint

LEMMA ProcessKeepsOrder ==
    ASSUME TypeOK, Shape, CloseOrder,
           \/ Signal \/ \E p \in {Main, Mgr, Sig} : logc_shutdown(p)
           \/ Timeout \/ Restart
    PROVE  CloseOrder'
<1> USE LinesAssumption, ThreadsAssumption, OptionsAssumption
      DEF TypeOK, PcType, MainLabels, MgrLabels, DumpLabels, SigLabels,
          FlagsType, LocalType, OutsideType, Shape, StartShape, CloseOrder,
          Started, Closing, HasNew, InQueue, InProgress, Dumped, flags,
          entries, workers, sharedVars, workerVars, localVars, files, disk,
          world, history, system, outside, Procs, Creators
<1>1. CASE Signal
  BY <1>1 DEF Signal
<1>2. ASSUME NEW p \in {Main, Mgr, Sig}, Shutdown(p) PROVE CloseOrder'
  BY <1>2 DEF Shutdown
<1>3. ASSUME NEW p \in {Main, Mgr, Sig}, ExitProcess(p) PROVE CloseOrder'
  BY <1>3 DEF ExitProcess
<1>4. CASE Timeout
  BY <1>4 DEF Timeout
<1>5. CASE Restart
  BY <1>5 DEF Restart
<1>6. QED
  BY <1>1, <1>2, <1>3, <1>4, <1>5 DEF logc_shutdown
LEMMA OrderInit == Init => CloseOrder
  BY ThreadsAssumption DEF Init, CloseOrder, Started, Closing, Procs

LEMMA OrderStep == TypeInv /\ CloseOrder /\ [Next]_vars => CloseOrder'
<1> SUFFICES ASSUME TypeOK, Shape, CloseOrder, [Next]_vars PROVE CloseOrder'
  BY DEF TypeInv
<1>1. CASE UNCHANGED vars
  BY <1>1 DEF vars, flags, sharedVars, localVars, disk, files, world, system,
     outside, CloseOrder, Started, Closing
<1>2. CASE Next
  BY <1>2, StartupKeepsOrder, ReceiveKeepsOrder, CreateKeepsOrder,
     WorkerKeepsOrder, ManagerKeepsOrder, ProcessKeepsOrder DEF Next
<1>3. QED
  BY <1>1, <1>2

-----------------------------------------------------------------------------
(* No accepted line is dropped while the process lives.                    *)

\* A step that drops no entry, unless its line is through.
LEMMA ForgottenFrame ==
    ASSUME NothingForgotten, UNCHANGED <<recv, stdin, status, restarts>>,
           done \subseteq done',
           \A e \in LiveEntries : e \in LiveEntries' \/ e.line \in done'
    PROVE  NothingForgotten'
  BY DEF NothingForgotten

LEMMA ForgottenSame ==
    ASSUME NothingForgotten,
           UNCHANGED <<recv, stdin, status, restarts, done, queue, held>>
    PROVE  NothingForgotten'
  BY DEF NothingForgotten, LiveEntries

\* apr_array_pop loses no entry.
LEMMA PopSplit ==
    ASSUME NEW q \in Seq(Entries), q # <<>>
    PROVE  \A e \in Range(q) : e \in Range(Pop(q).rest) \/ e = Pop(q).entry
<1>1. Len(q) \in Nat \ {0} /\ DOMAIN q = 1..Len(q)
  OBVIOUS
<1>2. Pop(q).rest = Front(q) /\ Pop(q).entry = q[Len(q)]
  BY DEF Pop, Last
<1>3. /\ DOMAIN Front(q) = 1..Len(q) - 1
      /\ \A j \in 1..Len(q) - 1 : Front(q)[j] = q[j]
  BY <1>1 DEF Front
<1>4. QED
  BY <1>1, <1>2, <1>3 DEF Range

LEMMA StartupKeepsPending ==
    ASSUME TypeOK, Shape, EntryShape, CloseOrder, NothingForgotten,
           Startup
    PROVE  NothingForgotten'
<1> USE LinesAssumption, ThreadsAssumption, OptionsAssumption
      DEF TypeOK, PcType, LocalType, SharedType, OutsideType, Shape,
          StartShape, flags, entries, workers, sharedVars, workerVars,
          localVars, files, disk, world, history, system, outside, Procs,
          Creators
<1>1. CASE LoadQueue
  BY <1>1 DEF LoadQueue, NothingForgotten, CloseOrder, Started
<1>2. CASE AdoptOld
  BY <1>2, ForgottenSame DEF AdoptOld
<1>3. CASE StartThreads
  BY <1>3, ForgottenSame DEF StartThreads
<1>4. CASE StartFails
  BY <1>4 DEF StartFails, NothingForgotten
<1>5. QED
  BY <1>1, <1>2, <1>3, <1>4 DEF Startup

LEMMA ReceiveKeepsPending ==
    ASSUME TypeOK, Shape, EntryShape, CloseOrder, NothingForgotten,
           receive_loop
    PROVE  NothingForgotten'
<1> USE LinesAssumption, ThreadsAssumption, OptionsAssumption
      DEF TypeOK, PcType, LocalType, SharedType, OutsideType, Shape,
          StartShape, flags, entries, workers, sharedVars, workerVars,
          localVars, files, disk, world, history, system, outside, Procs,
          Creators
<1>1. ASSUME NEW l \in Lines, Receive(l) PROVE NothingForgotten'
  <2>1. LiveEntries' = LiveEntries
    BY <1>1 DEF Receive, LiveEntries
  <2>2. /\ recv' = l /\ stdin' = stdin \ {l}
        /\ UNCHANGED <<done, status, restarts>>
    BY <1>1 DEF Receive
  <2>3. status = "up" => recv = None
    BY <1>1 DEF Receive, CloseOrder
  <2>4. ASSUME status = "up", restarts = 0, NEW k \in Lines \ stdin, k # l
        PROVE  k \in done \/ \E e \in LiveEntries : e.line = k
    BY <2>3, <2>4 DEF NothingForgotten
  <2>5. QED
    BY <2>1, <2>2, <2>4 DEF NothingForgotten
<1>2. CASE AddEntry
  <2> DEFINE e == Entry(entry_counter, recv)
  <2>1. e \in Entries /\ e.line = recv
    BY <1>2 DEF AddEntry, Entry, Entries, AnyLine
  <2>2. queue' = Append(queue, e) /\ held' = held
    BY <1>2 DEF AddEntry
  <2>3. Range(queue') = Range(queue) \cup {e}
    BY <2>1, <2>2, AppendRange
  <2>4. e \in LiveEntries' /\ LiveEntries \subseteq LiveEntries'
    BY <2>2, <2>3 DEF LiveEntries
  <2>5. UNCHANGED <<stdin, status, restarts, done>>
    BY <1>2 DEF AddEntry
  <2> HIDE DEF e
  <2>6. QED
    BY <2>1, <2>4, <2>5 DEF NothingForgotten
<1>3. CASE AddEntryWorker
  BY <1>3, ForgottenSame DEF AddEntryWorker
<1>4. CASE EndOfInput
  BY <1>4, ForgottenSame DEF EndOfInput
<1>5. CASE LeaveReceiveLoop
  BY <1>5, ForgottenSame DEF LeaveReceiveLoop
<1>6. QED
  BY <1>1, <1>2, <1>3, <1>4, <1>5 DEF receive_loop

LEMMA CreateKeepsPending ==
    ASSUME TypeOK, Shape, EntryShape, CloseOrder, NothingForgotten,
           NEW c \in Creators, create_new_worker(c)
    PROVE  NothingForgotten'
<1> USE LinesAssumption, ThreadsAssumption, OptionsAssumption
      DEF TypeOK, PcType, LocalType, SharedType, OutsideType, Shape,
          StartShape, flags, entries, workers, sharedVars, workerVars,
          localVars, files, disk, world, history, system, outside, Procs,
          Creators
<1>1. CASE CreateNotNeeded(c)
  BY <1>1, ForgottenSame DEF CreateNotNeeded
<1>2. ASSUME NEW t \in Threads, NEW h \in Handles, CreateThread(c, t, h)
      PROVE  NothingForgotten'
  <2>1. status = "up" => held[t] = None
    BY <1>2 DEF CreateThread, EntryShape, HeldApart
  <2>2. status = "up" => held' = held
    BY <1>2, <2>1 DEF CreateThread
  <2>3. UNCHANGED <<recv, stdin, status, restarts, done, queue>>
    BY <1>2 DEF CreateThread
  <2>4. QED
    BY <2>2, <2>3, ForgottenSame DEF NothingForgotten
<1>3. CASE CountWorker(c)
  BY <1>3, ForgottenSame DEF CountWorker
<1>4. CASE CreateFails(c)
  BY <1>4, ForgottenSame DEF CreateFails
<1>5. QED
  BY <1>1, <1>2, <1>3, <1>4 DEF create_new_worker

LEMMA WorkerKeepsPending ==
    ASSUME TypeOK, Shape, EntryShape, CloseOrder, NothingForgotten,
           NEW t \in Threads, thread_worker(t)
    PROVE  NothingForgotten'
<1> USE LinesAssumption, ThreadsAssumption, OptionsAssumption
      DEF TypeOK, PcType, LocalType, SharedType, OutsideType, Shape,
          StartShape, flags, entries, workers, sharedVars, workerVars,
          localVars, files, disk, world, history, system, outside, Procs,
          Creators
<1>1. CASE WorkerLoop(t)
  BY <1>1, ForgottenSame DEF WorkerLoop
<1>2. CASE FetchLock(t)
  BY <1>2, ForgottenFrame DEF FetchLock, Complete, LiveEntries
<1>3. CASE FetchPop(t)
  <2> DEFINE x == Pop(queue).entry
  <2>1. /\ held' = [held EXCEPT ![t] = x] /\ queue' = Pop(queue).rest
        /\ queue # <<>> /\ UNCHANGED <<recv, stdin, status, restarts, done>>
    BY <1>3 DEF FetchPop
  <2>2. x \in Entries /\ x # None
    BY <2>1, PopType
  <2>3. \A e \in Range(queue) : e \in Range(queue') \/ e = x
    BY <2>1, PopSplit
  <2>4. status = "up" => held[t] = None
    BY <1>3 DEF FetchPop, EntryShape, HeldApart
  <2> HIDE DEF x
  <2>5. held'[t] = x /\ \A u \in Threads \ {t} : held'[u] = held[u]
    BY <2>1
  <2>6. status = "up" => LiveEntries \subseteq LiveEntries'
    <3>1. ASSUME NEW e \in Range(queue) PROVE e \in LiveEntries'
      BY <2>2, <2>3, <2>5 DEF LiveEntries
    <3>2. ASSUME status = "up", NEW u \in Threads, held[u] # None
          PROVE  held[u] \in LiveEntries'
      BY <2>4, <2>5, <3>2 DEF LiveEntries
    <3>3. ASSUME status = "up", NEW e \in LiveEntries PROVE e \in LiveEntries'
      <4>1. e \in Range(queue) \/ \E u \in Threads : held[u] # None /\ e = held[u]
        BY <3>3 DEF LiveEntries
      <4>2. CASE e \in Range(queue)
        BY <3>1, <4>2
      <4>3. CASE \E u \in Threads : held[u] # None /\ e = held[u]
        BY <3>2, <3>3, <4>3
      <4>4. QED
        BY <4>1, <4>2, <4>3
    <3>4. QED
      BY <3>3
  <2>7. QED
    BY <2>1, <2>6, ForgottenFrame DEF NothingForgotten
<1>4. CASE FetchEmpty(t)
  BY <1>4, ForgottenSame DEF FetchEmpty
<1>5. CASE FetchRegister(t)
  BY <1>5, ForgottenSame DEF FetchRegister
<1>6. CASE SkipInvalid(t)
  BY <1>6, ForgottenSame DEF SkipInvalid
<1>7. CASE SkipMissing(t)
  BY <1>7, ForgottenSame DEF SkipMissing
<1>8. CASE SendAccepted(t)
  BY <1>8, ForgottenSame DEF SendAccepted
<1>9. CASE RemoveFile(t)
  BY <1>9, ForgottenSame DEF RemoveFile
<1>10. CASE SendConflict(t)
  BY <1>10, ForgottenSame DEF SendConflict
<1>11. CASE SendFailed(t)
  BY <1>11, ForgottenSame DEF SendFailed
<1>12. CASE DownLock(t)
  BY <1>12, ForgottenFrame DEF DownLock, Complete, LiveEntries
<1>13. CASE Requeue(t)
  <2>1. CASE held[t] = None
    <3>1. held' = held /\ queue' = queue
      BY <1>13, <2>1 DEF Requeue, PutBack
    <3>2. QED
      BY <1>13, <3>1, ForgottenSame DEF Requeue
  <2>2. CASE held[t] # None
    <3>1. queue' = Append(queue, held[t]) /\ held[t] \in Entries
      BY <1>13, <2>2 DEF Requeue, PutBack
    <3>2. Range(queue') = Range(queue) \cup {held[t]}
      BY <3>1, AppendRange
    <3>3. \A u \in Threads \ {t} : held'[u] = held[u]
      BY <1>13 DEF Requeue
    <3>4. LiveEntries \subseteq LiveEntries'
      <4>1. Range(queue') \subseteq LiveEntries'
        BY DEF LiveEntries
      <4>2. ASSUME NEW u \in Threads, held[u] # None
            PROVE  held[u] \in LiveEntries'
        BY <3>2, <3>3, <4>1, <4>2 DEF LiveEntries
      <4>3. \A e \in LiveEntries : \/ e \in Range(queue)
                                   \/ \E u \in Threads : e = held[u] /\ e # None
        BY DEF LiveEntries
      <4>4. QED
        BY <3>2, <4>1, <4>2, <4>3
    <3>5. QED
      BY <1>13, <3>4, ForgottenFrame DEF Requeue
  <2>3. QED
    BY <2>1, <2>2
<1>14. CASE Release(t)
  BY <1>14, ForgottenSame DEF Release
<1>15. CASE ThreadExit(t)
  BY <1>15, ForgottenSame DEF ThreadExit
<1>16. QED
  BY <1>1, <1>2, <1>3, <1>4, <1>5, <1>6, <1>7, <1>8, <1>9, <1>10, <1>11,
     <1>12, <1>13, <1>14, <1>15 DEF thread_worker

LEMMA ManagerKeepsPending ==
    ASSUME TypeOK, Shape, EntryShape, CloseOrder, NothingForgotten,
           thread_manager
    PROVE  NothingForgotten'
<1> USE LinesAssumption, ThreadsAssumption, OptionsAssumption
      DEF TypeOK, PcType, LocalType, SharedType, OutsideType, Shape,
          StartShape, flags, entries, workers, sharedVars, workerVars,
          localVars, files, disk, world, history, system, outside, Procs,
          Creators
<1>1. CASE ManagerRound
  BY <1>1, ForgottenSame DEF ManagerRound
<1>2. CASE ManagerLock
  BY <1>2, ForgottenSame DEF ManagerLock
<1>3. CASE SkipCheckpoint
  BY <1>3, ForgottenSame DEF SkipCheckpoint
<1>4. CASE StartCheckpoint
  BY <1>4, ForgottenSame DEF StartCheckpoint
<1>5. CASE Drain
  BY <1>5, ForgottenSame DEF Drain
<1>6. CASE FinalCheckpoint
  BY <1>6, ForgottenSame DEF FinalCheckpoint
<1>7. CASE ManagerExit
  BY <1>7, ForgottenSame DEF ManagerExit
<1>8. CASE DumpQueueNext
  BY <1>8, ForgottenSame DEF DumpQueueNext
<1>9. CASE DumpProgressNext
  BY <1>9, ForgottenSame DEF DumpProgressNext
<1>10. CASE DumpWrite
  BY <1>10, ForgottenSame DEF DumpWrite
<1>11. CASE RemoveOld
  BY <1>11, ForgottenSame DEF RemoveOld
<1>12. CASE RenameQueueToOld
  BY <1>12, ForgottenSame DEF RenameQueueToOld
<1>13. CASE RenameNewToQueue
  BY <1>13, ForgottenSame DEF RenameNewToQueue
<1>14. CASE RemoveBackup
  BY <1>14, ForgottenSame DEF RemoveBackup
<1>15. CASE TruncateLog
  BY <1>15, ForgottenSame DEF TruncateLog
<1>16. QED
  BY <1>1, <1>2, <1>3, <1>4, <1>5, <1>6, <1>7, <1>8, <1>9, <1>10, <1>11,
     <1>12, <1>13, <1>14, <1>15 DEF thread_manager, transaction_checkpoint

LEMMA ProcessKeepsPending ==
    ASSUME TypeOK, Shape, EntryShape, CloseOrder, NothingForgotten,
           \/ Signal \/ \E p \in {Main, Mgr, Sig} : logc_shutdown(p)
           \/ Timeout \/ Restart
    PROVE  NothingForgotten'
<1> USE LinesAssumption, ThreadsAssumption, OptionsAssumption
      DEF TypeOK, PcType, LocalType, SharedType, OutsideType, Shape,
          StartShape, flags, entries, workers, sharedVars, workerVars,
          localVars, files, disk, world, history, system, outside, Procs,
          Creators
<1>1. CASE Signal
  BY <1>1, ForgottenSame DEF Signal
<1>2. ASSUME NEW p \in {Main, Mgr, Sig}, Shutdown(p) PROVE NothingForgotten'
  BY <1>2, ForgottenSame DEF Shutdown
<1>3. ASSUME NEW p \in {Main, Mgr, Sig}, ExitProcess(p) PROVE NothingForgotten'
  BY <1>3 DEF ExitProcess, NothingForgotten
<1>4. CASE Timeout
  BY <1>4, ForgottenSame DEF Timeout
<1>5. CASE Restart
  BY <1>5 DEF Restart, NothingForgotten
<1>6. QED
  BY <1>1, <1>2, <1>3, <1>4, <1>5 DEF logc_shutdown
LEMMA PendingInit == Init => NothingForgotten
  BY DEF Init, NothingForgotten

LEMMA PendingStep ==
    TypeInv /\ EntryShape /\ CloseOrder /\ NothingForgotten /\ [Next]_vars
       => NothingForgotten'
<1> SUFFICES ASSUME TypeOK, Shape, EntryShape, CloseOrder, NothingForgotten,
                    [Next]_vars
             PROVE  NothingForgotten'
  BY DEF TypeInv
<1>1. CASE UNCHANGED vars
  BY <1>1, ForgottenSame DEF vars, sharedVars, entries, localVars, workerVars,
     outside, world, history, system
<1>2. CASE Next
  BY <1>2, StartupKeepsPending, ReceiveKeepsPending, CreateKeepsPending,
     WorkerKeepsPending, ManagerKeepsPending, ProcessKeepsPending DEF Next
<1>3. QED
  BY <1>1, <1>2
-----------------------------------------------------------------------------
(* The final checkpoint and the exit.                                      *)

\* While the process closes because its input ended, the main thread waits in
\* logc_shutdown.
LEMMA ClosingMain ==
    ASSUME CloseOrder, status = "up", ~Signals, Started, Closing
    PROVE  pc[Main] = "shutwait" /\ recv = None
  BY DEF CloseOrder, Closing, DumpLabels

\* A step of another thread: if the process is closed, it changes nothing.
LEMMA FinalFrame ==
    ASSUME FinalDump, pc'[Mgr] = pc[Mgr], ck'.final = ck.final,
           UNCHANGED <<status, restarts>>, Started' => Started,
           status = "up" /\ ~Signals /\ Started /\ Closed =>
              /\ Alive' = Alive
              /\ UNCHANGED <<queue, steady, stdin, done, qfile>>
    PROVE  FinalDump'
<1> SUFFICES ASSUME (status = "up" /\ ~Signals /\ Started /\ Closed)'
             PROVE  /\ Alive' = {}
                    /\ pc'[Mgr] \in HasNew => Range(queue') \subseteq steady'
                    /\ restarts' = 0 /\ pc'[Mgr] \notin HasNew => Stored'
  BY DEF FinalDump, HasNew, InQueue, InProgress, Dumped
<1>1. status = "up" /\ ~Signals /\ Started /\ Closed
  BY DEF Closed, Closing, DumpLabels
<1>2. Alive' = Alive /\ UNCHANGED <<queue, steady, stdin, done, qfile>>
  BY <1>1
<1>3. QED
  BY <1>1, <1>2 DEF FinalDump, Stored

\* The process is not closed after the step.
LEMMA FinalOpen ==
    ASSUME ~Started' \/ ~Closed' \/ status' # "up" PROVE FinalDump'
  BY DEF FinalDump

\* The dump goes on.
LEMMA FinalMove ==
    ASSUME FinalDump, pc[Mgr] \in HasNew, pc'[Mgr] \in HasNew,
           ck'.final = ck.final, pc'[Main] = pc[Main], Alive' = Alive,
           UNCHANGED <<queue, steady, status>>
    PROVE  FinalDump'
<1>1. Closed' => Closed
  BY DEF Closed, Closing, DumpLabels, HasNew, InQueue, InProgress, Dumped
<1>2. Started' => Started
  BY DEF Started
<1>3. pc'[Mgr] \in HasNew'
  BY DEF HasNew, InQueue, InProgress, Dumped
<1>4. QED
  BY <1>1, <1>2, <1>3 DEF FinalDump

\* No worker is counted and none is being created, so there is none.
LEMMA DrainedAlive ==
    ASSUME TypeOK, CloseOrder, HandleAccounting, status = "up", ~Signals,
           Started, pc[Mgr] = "drain", Drained
    PROVE  Alive = {}
<1>1. pc[Main] = "shutwait"
  BY ClosingMain DEF Closing
<1>2. Uncounted = {}
  BY <1>1 DEF Uncounted, Creators
<1>3. Cardinality(Alive) = 0
  BY <1>2, FS_EmptySet DEF HandleAccounting, Uncounted, Drained
<1>4. QED
  BY <1>3, AliveFinite, FS_EmptySet

LEMMA RangeNone ==
    ASSUME TypeOK PROVE None \notin Range(queue)
  BY LinesAssumption DEF TypeOK, SharedType, Range

\* The final dump replaces the queue file: all that is pending is in it.
LEMMA FinalInstall ==
    ASSUME TypeOK, Shape, EntryShape, DumpCovers, CloseOrder, NothingForgotten,
           FinalDump, RenameNewToQueue, status = "up", ~Signals, Started,
           ck.final, restarts = 0
    PROVE  Stored'
<1>1. pc[Mgr] = "ckinstall" /\ qfile' = qnew /\ UNCHANGED <<stdin, done>>
  BY DEF RenameNewToQueue, outside, world, history
<1>2. Closing /\ Closed
  BY <1>1 DEF Closing, Closed, DumpLabels
<1>3. Alive = {} /\ Range(queue) \subseteq steady
  BY <1>1, <1>2 DEF FinalDump, HasNew, Dumped
<1>4. recv = None
  BY <1>2, ClosingMain
<1>5. \A t \in Threads : held[t] = None
  <2>1. \A t \in Threads : pc[t] \in {"none", "exit"}
    BY <1>3 DEF Alive
  <2>2. QED
    BY <2>1 DEF EntryShape, HeldApart
<1>6. LiveEntries = Range(queue)
  BY <1>5, RangeNone DEF LiveEntries
<1>7. \A e \in Range(queue) : e.line \in Range(qnew)
  <2>1. in_progress = {}
    BY <1>5 DEF EntryShape, ProgressExact, Registered
  <2>2. QED
    BY <1>1, <1>3, <2>1 DEF DumpCovers, Dumped, Written, Missed
<1>8. qnew # NoFile
  BY <1>1 DEF Shape, DumpShape
<1>9. ASSUME NEW l \in Lines \ stdin PROVE l \in done \/ l \in Range(qnew)
  <2>1. l \in done \/ recv = l \/ \E e \in Range(queue) : e.line = l
    BY <1>6, <1>9 DEF NothingForgotten
  <2>2. QED
    BY <1>4, <1>7, <2>1, LinesAssumption
<1>10. QED
  BY <1>1, <1>8, <1>9 DEF Stored

\* What the proof that FinalDump is kept rests on.
FinalHyps ==
    /\ TypeOK /\ Shape /\ EntryShape /\ HandleAccounting /\ DumpCovers
    /\ CloseOrder /\ NothingForgotten /\ FinalDump

LEMMA StartupKeepsFinal ==
    ASSUME FinalHyps,
           Startup
    PROVE  FinalDump'
<1> USE ThreadsAssumption
      DEF FinalHyps, TypeOK, PcType, LocalType, SharedType, Shape, StartShape,
          flags, entries, workers, sharedVars, workerVars, localVars, files,
          disk, world, history, system, outside, Procs, Creators
<1>1. CASE LoadQueue
  BY <1>1, FinalOpen DEF LoadQueue, Started
<1>2. CASE AdoptOld
  BY <1>2, FinalOpen DEF AdoptOld, Started
<1>3. CASE StartThreads
  BY <1>3, FinalOpen DEF StartThreads, Closed, Closing, DumpLabels
<1>4. CASE StartFails
  BY <1>4, FinalOpen DEF StartFails, Closed, Closing, DumpLabels
<1>5. QED
  BY <1>1, <1>2, <1>3, <1>4 DEF Startup

LEMMA ReceiveKeepsFinal ==
    ASSUME FinalHyps,
           receive_loop
    PROVE  FinalDump'
<1> USE ThreadsAssumption
      DEF FinalHyps, TypeOK, PcType, LocalType, SharedType, Shape, StartShape,
          flags, entries, workers, sharedVars, workerVars, localVars, files,
          disk, world, history, system, outside, Procs, Creators
<1>1. ASSUME NEW l \in Lines, Receive(l) PROVE FinalDump'
  BY <1>1, FinalFrame, ClosingMain DEF Receive, Closed, Started
<1>2. CASE AddEntry
  BY <1>2, FinalFrame, ClosingMain DEF AddEntry, Closed, Started
<1>3. CASE AddEntryWorker
  BY <1>3, FinalFrame, ClosingMain DEF AddEntryWorker, Closed, Started
<1>4. CASE EndOfInput
  BY <1>4, FinalFrame, ClosingMain DEF EndOfInput, Closed, Started
<1>5. CASE LeaveReceiveLoop
  BY <1>5, FinalFrame, ClosingMain DEF LeaveReceiveLoop, Closed, Started
<1>6. QED
  BY <1>1, <1>2, <1>3, <1>4, <1>5 DEF receive_loop

LEMMA CreateKeepsFinal ==
    ASSUME FinalHyps,
           NEW c \in Creators, create_new_worker(c)
    PROVE  FinalDump'
<1> USE ThreadsAssumption
      DEF FinalHyps, TypeOK, PcType, LocalType, SharedType, Shape, StartShape,
          flags, entries, workers, sharedVars, workerVars, localVars, files,
          disk, world, history, system, outside, Procs, Creators
<1>1. CASE CreateNotNeeded(c)
  <2>1. CASE c = Main
    BY <1>1, <2>1, FinalFrame, ClosingMain DEF CreateNotNeeded, Closed, Started, AfterCreate
  <2>2. CASE c = Mgr
    BY <1>1, <2>2, FinalOpen DEF CreateNotNeeded, AfterCreate, Closed, Closing, DumpLabels
  <2>3. QED
    BY <2>1, <2>2
<1>2. ASSUME NEW t \in Threads, NEW h \in Handles, CreateThread(c, t, h)
      PROVE  FinalDump'
  <2>1. CASE c = Main
    BY <1>2, <2>1, FinalFrame, ClosingMain DEF CreateThread, Closed, Started, AfterCreate
  <2>2. CASE c = Mgr
    BY <1>2, <2>2, FinalOpen DEF CreateThread, AfterCreate, Closed, Closing, DumpLabels
  <2>3. QED
    BY <2>1, <2>2
<1>3. CASE CountWorker(c)
  <2>1. CASE c = Main
    BY <1>3, <2>1, FinalFrame, ClosingMain DEF CountWorker, Closed, Started, AfterCreate
  <2>2. CASE c = Mgr
    BY <1>3, <2>2, FinalOpen DEF CountWorker, AfterCreate, Closed, Closing, DumpLabels
  <2>3. QED
    BY <2>1, <2>2
<1>4. CASE CreateFails(c)
  <2>1. CASE c = Main
    BY <1>4, <2>1, FinalFrame, ClosingMain DEF CreateFails, Closed, Started, AfterCreate
  <2>2. CASE c = Mgr
    BY <1>4, <2>2, FinalOpen DEF CreateFails, AfterCreate, Closed, Closing, DumpLabels
  <2>3. QED
    BY <2>1, <2>2
<1>5. QED
  BY <1>1, <1>2, <1>3, <1>4 DEF create_new_worker

LEMMA WorkerKeepsFinal ==
    ASSUME FinalHyps,
           NEW t \in Threads, thread_worker(t)
    PROVE  FinalDump'
<1> USE ThreadsAssumption
      DEF FinalHyps, TypeOK, PcType, LocalType, SharedType, Shape, StartShape,
          flags, entries, workers, sharedVars, workerVars, localVars, files,
          disk, world, history, system, outside, Procs, Creators
<1>1. CASE WorkerLoop(t)
  <2>1. t \in Alive
    BY <1>1 DEF WorkerLoop, Alive
  <2>2. QED
    BY <1>1, <2>1, FinalFrame DEF WorkerLoop, FinalDump, Started
<1>2. CASE FetchLock(t)
  <2>1. t \in Alive
    BY <1>2 DEF FetchLock, Alive
  <2>2. /\ ck'.final = ck.final /\ pc'[Mgr] = pc[Mgr]
        /\ (Started' => Started) /\ UNCHANGED <<status, restarts>>
    BY <1>2, DisturbedType DEF FetchLock, Complete, Started
  <2>3. QED
    BY <2>1, <2>2, FinalFrame DEF FinalDump
<1>3. CASE FetchPop(t)
  <2>1. t \in Alive
    BY <1>3 DEF FetchPop, Alive
  <2>2. QED
    BY <1>3, <2>1, FinalFrame DEF FetchPop, FinalDump, Started
<1>4. CASE FetchEmpty(t)
  <2>1. t \in Alive
    BY <1>4 DEF FetchEmpty, Alive
  <2>2. QED
    BY <1>4, <2>1, FinalFrame DEF FetchEmpty, FinalDump, Started
<1>5. CASE FetchRegister(t)
  <2>1. t \in Alive
    BY <1>5 DEF FetchRegister, Alive
  <2>2. QED
    BY <1>5, <2>1, DisturbedType, FinalFrame DEF FetchRegister, FinalDump, Started
<1>6. CASE SkipInvalid(t)
  <2>1. t \in Alive
    BY <1>6 DEF SkipInvalid, Alive
  <2>2. QED
    BY <1>6, <2>1, FinalFrame DEF SkipInvalid, FinalDump, Started
<1>7. CASE SkipMissing(t)
  <2>1. t \in Alive
    BY <1>7 DEF SkipMissing, Alive
  <2>2. QED
    BY <1>7, <2>1, FinalFrame DEF SkipMissing, FinalDump, Started
<1>8. CASE SendAccepted(t)
  <2>1. t \in Alive
    BY <1>8 DEF SendAccepted, Alive
  <2>2. QED
    BY <1>8, <2>1, FinalFrame DEF SendAccepted, FinalDump, Started
<1>9. CASE RemoveFile(t)
  <2>1. t \in Alive
    BY <1>9 DEF RemoveFile, Alive
  <2>2. QED
    BY <1>9, <2>1, FinalFrame DEF RemoveFile, FinalDump, Started
<1>10. CASE SendConflict(t)
  <2>1. t \in Alive
    BY <1>10 DEF SendConflict, Alive
  <2>2. QED
    BY <1>10, <2>1, FinalFrame DEF SendConflict, FinalDump, Started
<1>11. CASE SendFailed(t)
  <2>1. t \in Alive
    BY <1>11 DEF SendFailed, Alive
  <2>2. QED
    BY <1>11, <2>1, FinalFrame DEF SendFailed, FinalDump, Started
<1>12. CASE DownLock(t)
  <2>1. t \in Alive
    BY <1>12 DEF DownLock, Alive
  <2>2. /\ ck'.final = ck.final /\ pc'[Mgr] = pc[Mgr]
        /\ (Started' => Started) /\ UNCHANGED <<status, restarts>>
    BY <1>12, DisturbedType DEF DownLock, Complete, Started
  <2>3. QED
    BY <2>1, <2>2, FinalFrame DEF FinalDump
<1>13. CASE Requeue(t)
  <2>1. t \in Alive
    BY <1>13 DEF Requeue, Alive
  <2>2. QED
    BY <1>13, <2>1, FinalFrame DEF Requeue, FinalDump, Started
<1>14. CASE Release(t)
  <2>1. t \in Alive
    BY <1>14 DEF Release, Alive
  <2>2. QED
    BY <1>14, <2>1, FinalFrame DEF Release, FinalDump, Started
<1>15. CASE ThreadExit(t)
  <2>1. Alive' = Alive
    BY <1>15 DEF ThreadExit, Alive
  <2>2. QED
    BY <1>15, <2>1, FinalFrame DEF ThreadExit, Started
<1>16. QED
  BY <1>1, <1>2, <1>3, <1>4, <1>5, <1>6, <1>7, <1>8, <1>9, <1>10, <1>11,
     <1>12, <1>13, <1>14, <1>15 DEF thread_worker

LEMMA ManagerKeepsFinal ==
    ASSUME FinalHyps,
           thread_manager
    PROVE  FinalDump'
<1> USE ThreadsAssumption
      DEF FinalHyps, TypeOK, PcType, LocalType, SharedType, Shape, StartShape,
          flags, entries, workers, sharedVars, workerVars, localVars, files,
          disk, world, history, system, outside, Procs, Creators
<1>1. CASE ManagerRound
  BY <1>1, FinalOpen DEF ManagerRound, Closed, Closing, DumpLabels
<1>2. CASE ManagerLock
  BY <1>2, FinalOpen DEF ManagerLock, Closed, Closing, DumpLabels
<1>3. CASE SkipCheckpoint
  BY <1>3, FinalOpen DEF SkipCheckpoint, Closed, Closing, DumpLabels
<1>4. CASE StartCheckpoint
  <2>1. ck'.final = FALSE /\ pc'[Mgr] = "ckqueue"
    BY <1>4 DEF StartCheckpoint, OpenNew, CkIdle
  <2>2. QED
    BY <2>1, FinalOpen DEF Closed, Closing
<1>5. CASE Drain
  BY <1>5, FinalOpen DEF Drain, Closed, Closing, DumpLabels
<1>6. CASE FinalCheckpoint
  <2>1. /\ pc[Mgr] = "drain" /\ Drained /\ Alive' = Alive
        /\ pc'[Main] = pc[Main]
        /\ UNCHANGED <<queue, status, restarts, stdin, done, have_read_data>>
    BY <1>6 DEF FinalCheckpoint, OpenNew, Alive
  <2> SUFFICES ASSUME status = "up", ~Signals, Started
               PROVE  FinalDump'
    BY <2>1 DEF FinalDump, Started
  <2>2. Alive' = {}
    BY <2>1, DrainedAlive
  <2>3. CASE OpenNew(TRUE)
    <3>1. pc'[Mgr] = "ckqueue" /\ Range(queue') \subseteq steady'
      BY <2>1, <2>3 DEF OpenNew
    <3>2. QED
      BY <2>2, <3>1 DEF FinalDump, HasNew, InQueue
  <2>4. CASE /\ ~(have_read_data /\ qnew = NoFile)
             /\ pc' = [pc EXCEPT ![Mgr] = "leave"]
    <3>1. qnew = NoFile
      BY <2>1 DEF CloseOrder, Started, HasNew, InQueue, InProgress, Dumped
    <3>2. restarts = 0 => stdin' = Lines
      BY <2>1, <2>4, <3>1 DEF CloseOrder
    <3>3. restarts = 0 => Stored'
      BY <3>2 DEF Stored
    <3>4. pc'[Mgr] = "leave"
      BY <2>4
    <3>5. QED
      BY <2>1, <2>2, <3>3, <3>4
         DEF FinalDump, HasNew, InQueue, InProgress, Dumped
  <2>5. QED
    BY <1>6, <2>3, <2>4 DEF FinalCheckpoint
<1>7. CASE ManagerExit
  <2>1. /\ pc[Mgr] = "leave" /\ pc'[Mgr] = "none" /\ pc'[Main] = pc[Main]
        /\ Alive' = Alive
        /\ UNCHANGED <<queue, status, restarts, stdin, done, qfile>>
    BY <1>7 DEF ManagerExit, Alive
  <2>2. Closed
    BY <2>1 DEF Closed, Closing
  <2>3. pc[Mgr] \notin HasNew /\ pc'[Mgr] \notin HasNew'
    BY <2>1 DEF HasNew, InQueue, InProgress, Dumped
  <2>4. QED
    BY <2>1, <2>2, <2>3 DEF FinalDump, Started, Stored
<1>8. CASE DumpQueueNext
  <2>1. /\ pc[Mgr] \in HasNew /\ pc'[Mgr] \in HasNew /\ pc'[Main] = pc[Main]
        /\ Alive' = Alive
    BY <1>8 DEF DumpQueueNext, Alive, HasNew, InQueue, InProgress, Dumped
  <2>2. UNCHANGED <<queue, steady, status>>
    BY <1>8 DEF DumpQueueNext
  <2>3. ck'.final = ck.final
    BY <1>8 DEF DumpQueueNext, CkType
  <2>4. QED
    BY <2>1, <2>2, <2>3, FinalMove
<1>9. CASE DumpProgressNext
  <2>1. /\ pc[Mgr] \in HasNew /\ pc'[Mgr] \in HasNew /\ pc'[Main] = pc[Main]
        /\ Alive' = Alive
    BY <1>9 DEF DumpProgressNext, Alive, HasNew, InQueue, InProgress, Dumped
  <2>2. UNCHANGED <<queue, steady, status>> /\ ck'.final = ck.final
    BY <1>9 DEF DumpProgressNext, CkType
  <2>3. QED
    BY <2>1, <2>2, FinalMove
<1>10. CASE DumpWrite
  <2>1. /\ pc[Mgr] \in HasNew /\ pc'[Mgr] \in HasNew /\ pc'[Main] = pc[Main]
        /\ Alive' = Alive
    BY <1>10 DEF DumpWrite, Alive, HasNew, InQueue, InProgress, Dumped
  <2>2. UNCHANGED <<queue, steady, status>> /\ ck'.final = ck.final
    BY <1>10 DEF DumpWrite, CkType
  <2>3. QED
    BY <2>1, <2>2, FinalMove
<1>11. CASE RemoveOld
  <2>1. /\ pc[Mgr] \in HasNew /\ pc'[Mgr] \in HasNew /\ pc'[Main] = pc[Main]
        /\ Alive' = Alive
    BY <1>11 DEF RemoveOld, Alive, HasNew, InQueue, InProgress, Dumped
  <2>2. UNCHANGED <<queue, steady, status>> /\ ck'.final = ck.final
    BY <1>11 DEF RemoveOld, CkType
  <2>3. QED
    BY <2>1, <2>2, FinalMove
<1>12. CASE RenameQueueToOld
  <2>1. /\ pc[Mgr] \in HasNew /\ pc'[Mgr] \in HasNew /\ pc'[Main] = pc[Main]
        /\ Alive' = Alive
    BY <1>12 DEF RenameQueueToOld, Alive, HasNew, InQueue, InProgress, Dumped
  <2>2. UNCHANGED <<queue, steady, status>> /\ ck'.final = ck.final
    BY <1>12 DEF RenameQueueToOld, CkType
  <2>3. QED
    BY <2>1, <2>2, FinalMove
<1>13. CASE RenameNewToQueue
  <2>1. /\ pc[Mgr] = "ckinstall" /\ pc'[Mgr] = "ckclean"
        /\ pc'[Main] = pc[Main] /\ Alive' = Alive
        /\ UNCHANGED <<ck, queue, status, restarts>>
    BY <1>13 DEF RenameNewToQueue, Alive
  <2> SUFFICES ASSUME status = "up", ~Signals, Started, ck.final
               PROVE  FinalDump'
    BY <2>1 DEF FinalDump, Started, Closed, Closing
  <2>2. Closed
    BY <2>1 DEF Closed, Closing, DumpLabels
  <2>3. Alive' = {}
    BY <2>1, <2>2 DEF FinalDump
  <2>4. restarts = 0 => Stored'
    BY <1>13, FinalInstall
  <2>5. QED
    BY <2>1, <2>3, <2>4 DEF FinalDump, HasNew, InQueue, InProgress, Dumped
<1>14. CASE RemoveBackup
  <2>1. /\ pc[Mgr] = "ckclean" /\ pc'[Mgr] = "cktruncate"
        /\ pc'[Main] = pc[Main] /\ Alive' = Alive
        /\ UNCHANGED <<ck, queue, status, restarts, stdin, done, qfile>>
    BY <1>14 DEF RemoveBackup, Alive
  <2>2. Closed' => Closed
    BY <2>1 DEF Closed, Closing, DumpLabels
  <2>3. pc[Mgr] \notin HasNew /\ pc'[Mgr] \notin HasNew'
    BY <2>1 DEF HasNew, InQueue, InProgress, Dumped
  <2>4. QED
    BY <2>1, <2>2, <2>3 DEF FinalDump, Started, Stored
<1>15. CASE TruncateLog
  <2>1. /\ pc[Mgr] = "cktruncate" /\ pc'[Mgr] = IF ck.final THEN "leave" ELSE "top"
        /\ pc'[Main] = pc[Main] /\ Alive' = Alive
        /\ UNCHANGED <<queue, status, restarts, stdin, done, qfile>>
    BY <1>15 DEF TruncateLog, Alive
  <2>2. Closed' => Closed
    BY <2>1 DEF Closed, Closing, DumpLabels
  <2>3. pc[Mgr] \notin HasNew /\ pc'[Mgr] \notin HasNew'
    BY <2>1 DEF HasNew, InQueue, InProgress, Dumped
  <2>4. QED
    BY <2>1, <2>2, <2>3 DEF FinalDump, Started, Stored
<1>16. QED
  BY <1>1, <1>2, <1>3, <1>4, <1>5, <1>6, <1>7, <1>8, <1>9, <1>10, <1>11,
     <1>12, <1>13, <1>14, <1>15 DEF thread_manager, transaction_checkpoint

LEMMA ProcessKeepsFinal ==
    ASSUME FinalHyps,
           \/ Signal \/ \E p \in {Main, Mgr, Sig} : logc_shutdown(p)
           \/ Timeout \/ Restart
    PROVE  FinalDump'
<1> USE ThreadsAssumption
      DEF FinalHyps, TypeOK, PcType, LocalType, SharedType, Shape, StartShape,
          flags, entries, workers, sharedVars, workerVars, localVars, files,
          disk, world, history, system, outside, Procs, Creators
<1>1. CASE Signal
  BY <1>1 DEF Signal, FinalDump
<1>2. ASSUME NEW p \in {Main, Mgr, Sig}, Shutdown(p) PROVE FinalDump'
  <2>1. CASE p = Mgr
    BY <1>2, <2>1, FinalOpen DEF Shutdown, Closed, Closing, DumpLabels
  <2>2. CASE p = Main
    BY <1>2, <2>2, FinalFrame, ClosingMain DEF Shutdown, Closed, Started
  <2>3. CASE p = Sig
    BY <1>2, <2>3, FinalFrame DEF Shutdown, Alive, Started
  <2>4. QED
    BY <2>1, <2>2, <2>3
<1>3. ASSUME NEW p \in {Main, Mgr, Sig}, ExitProcess(p) PROVE FinalDump'
  BY <1>3, FinalOpen DEF ExitProcess
<1>4. CASE Timeout
  BY <1>4, FinalFrame DEF Timeout, Alive, Started
<1>5. CASE Restart
  BY <1>5, FinalOpen DEF Restart, Started
<1>6. QED
  BY <1>1, <1>2, <1>3, <1>4, <1>5 DEF logc_shutdown
LEMMA FinalInit == Init => FinalDump
  BY ThreadsAssumption DEF Init, FinalDump, Started, Procs

LEMMA FinalStep == FinalHyps /\ [Next]_vars => FinalDump'
<1> SUFFICES ASSUME FinalHyps, [Next]_vars PROVE FinalDump'
  OBVIOUS
<1>1. CASE UNCHANGED vars
  BY <1>1, FinalFrame DEF FinalHyps, vars, sharedVars, entries, localVars, disk,
     files, outside, world, history, system, Alive, Started
<1>2. CASE Next
  BY <1>2, StartupKeepsFinal, ReceiveKeepsFinal, CreateKeepsFinal,
     WorkerKeepsFinal, ManagerKeepsFinal, ProcessKeepsFinal DEF Next
<1>3. QED
  BY <1>1, <1>2

\* A process that exits by itself has stored what was pending.
LEMMA ExitStored ==
    ASSUME FinalHyps, status = "up", restarts = 0, ~Signals,
           NEW p \in {Main, Mgr, Sig}, ExitProcess(p)
    PROVE  Stored
<1> USE ThreadsAssumption DEF FinalHyps
<1>1. pc[p] = "shutwait" /\ ~management_thread_active
  BY DEF ExitProcess
<1>2. p # Sig
  BY <1>1 DEF CloseOrder
<1>3. Started
  BY <1>1, <1>2 DEF Started, Shape, StartShape
<1>4. pc[Mgr] = "none"
  BY <1>1, <1>3 DEF CloseOrder
<1>5. Closed /\ pc[Mgr] \notin HasNew
  BY <1>4 DEF Closed, Closing, HasNew, InQueue, InProgress, Dumped
<1>6. QED
  BY <1>3, <1>5 DEF FinalDump

LEMMA CleanExitStep ==
    ASSUME FinalHyps, ExitedStill, CleanExitKeepsPending, [Next]_vars
    PROVE  CleanExitKeepsPending'
<1> SUFFICES ASSUME status' = "exited", restarts' = 0, ~Signals PROVE Stored'
  BY DEF CleanExitKeepsPending, Stored
<1>1. CASE UNCHANGED vars
  BY <1>1 DEF vars, disk, files, outside, world, history, system,
     CleanExitKeepsPending, Stored
<1>2. CASE Next
  <2>1. ~Restart
    BY DEF Restart
  <2>2. status = "up"
    BY <1>2, <2>1, AwakeStep DEF FinalHyps
  <2>3. CASE StartFails
    <3>1. ~Started
      BY <2>3 DEF StartFails, Started
    <3>2. UNCHANGED <<stdin, restarts>>
      BY <2>3 DEF StartFails, world
    <3>3. stdin' = Lines
      BY <2>2, <3>1, <3>2 DEF FinalHyps, CloseOrder
    <3>4. QED
      BY <3>3 DEF Stored
  <2>4. ASSUME NEW p \in {Main, Mgr, Sig}, ExitProcess(p) PROVE Stored'
    <3>1. UNCHANGED <<stdin, done, qfile, restarts>>
      BY <2>4 DEF ExitProcess, disk, files, world, history
    <3>2. Stored
      BY <2>2, <2>4, <3>1, ExitStored
    <3>3. QED
      BY <3>1, <3>2 DEF Stored
  <2>5. QED
    BY <1>2, <2>1, <2>2, <2>3, <2>4, StatusStep
<1>3. QED
  BY <1>1, <1>2

\* No accepted line is dropped while the process lives, and when it exits at
\* the end of its input (or because it could not start a worker) every line
\* that is not through is in the queue file, with any number of lines,
\* workers and checkpoints.
THEOREM PendingKeptCorrect == Spec => []PendingKept
<1>1. Init => CleanExitKeepsPending
  BY DEF Init, CleanExitKeepsPending
<1>2. FinalHyps /\ ExitedStill /\ CleanExitKeepsPending /\ [Next]_vars
         => CleanExitKeepsPending'
  BY CleanExitStep
<1>3. TypeInv => TypeOK /\ Shape
  BY DEF TypeInv
<1>4. TypeOK /\ Shape /\ EntryShape /\ HandleAccounting /\ DumpCovers
         /\ CloseOrder /\ NothingForgotten /\ FinalDump => FinalHyps
  BY DEF FinalHyps
<1>5. NothingForgotten /\ CleanExitKeepsPending => PendingKept
  BY DEF PendingKept
<1>6. QED
  BY <1>1, <1>2, <1>3, <1>4, <1>5, TypeInvCorrect, EntryInit, EntryStep,
     HandlesInit, HandlesStep, ExitedInit, ExitedStep, CoversInit, CoversStep,
     OrderInit, OrderStep, PendingInit, PendingStep, FinalInit, FinalStep, PTL
     DEF Spec
-----------------------------------------------------------------------------
(* Refinement.  The files of transaction_checkpoint and                    *)
(* transaction_log_init implement AtomicQueueFile, and the collector as a  *)
(* whole implements Collector, for any number of lines, workers,           *)
(* checkpoints and crashes.                                                *)

\* Which of the files exist while they are switched.
FileShape ==
    /\ pc[Main] = "start" => qfile # NoFile \/ qold = NoFile
    /\ pc[Mgr] \notin {"none", "ckinstall", "ckclean"} => qold = NoFile
    /\ pc[Mgr] = "ckinstall" => qfile = NoFile
    /\ pc[Mgr] = "ckclean" => qfile # NoFile

-----------------------------------------------------------------------------
(* The queue file.                                                         *)

LEMMA StartupKeepsFiles ==
    ASSUME TypeOK, Shape, FileShape, Startup PROVE FileShape'
<1> USE ThreadsAssumption DEF TypeOK, PcType, Shape, StartShape, DumpShape,
      FileShape, flags, entries, workers, sharedVars, workerVars, localVars,
      files, disk, world, history, system, outside, Procs, Creators
<1>1. CASE LoadQueue
  BY <1>1 DEF LoadQueue
<1>2. CASE AdoptOld
  BY <1>2 DEF AdoptOld
<1>3. CASE StartThreads
  BY <1>3 DEF StartThreads
<1>4. CASE StartFails
  BY <1>4 DEF StartFails
<1>5. QED
  BY <1>1, <1>2, <1>3, <1>4 DEF Startup

LEMMA ReceiveKeepsFiles ==
    ASSUME TypeOK, Shape, FileShape, receive_loop PROVE FileShape'
<1> USE ThreadsAssumption DEF TypeOK, PcType, Shape, StartShape, DumpShape,
      FileShape, flags, entries, workers, sharedVars, workerVars, localVars,
      files, disk, world, history, system, outside, Procs, Creators
<1>1. ASSUME NEW l \in Lines, Receive(l) PROVE FileShape'
  BY <1>1 DEF Receive
<1>2. CASE AddEntry
  BY <1>2 DEF AddEntry, Lock
<1>3. CASE AddEntryWorker
  BY <1>3 DEF AddEntryWorker, Unlock
<1>4. CASE EndOfInput
  BY <1>4 DEF EndOfInput
<1>5. CASE LeaveReceiveLoop
  BY <1>5 DEF LeaveReceiveLoop
<1>6. QED
  BY <1>1, <1>2, <1>3, <1>4, <1>5 DEF receive_loop

LEMMA CreateKeepsFiles ==
    ASSUME TypeOK, Shape, FileShape, NEW c \in Creators, create_new_worker(c) PROVE FileShape'
<1> USE ThreadsAssumption DEF TypeOK, PcType, Shape, StartShape, DumpShape,
      FileShape, flags, entries, workers, sharedVars, workerVars, localVars,
      files, disk, world, history, system, outside, Procs, Creators
<1>1. CASE CreateNotNeeded(c)
  BY <1>1 DEF CreateNotNeeded, AfterCreate, Unlock
<1>2. ASSUME NEW t \in Threads, NEW h \in Handles, CreateThread(c, t, h)
      PROVE  FileShape'
  BY <1>2 DEF CreateThread
<1>3. CASE CountWorker(c)
  BY <1>3 DEF CountWorker, AfterCreate, Unlock
<1>4. CASE CreateFails(c)
  BY <1>4 DEF CreateFails
<1>5. QED
  BY <1>1, <1>2, <1>3, <1>4 DEF create_new_worker

LEMMA WorkerKeepsFiles ==
    ASSUME TypeOK, Shape, FileShape, NEW t \in Threads, thread_worker(t) PROVE FileShape'
<1> USE ThreadsAssumption DEF TypeOK, PcType, Shape, StartShape, DumpShape,
      FileShape, flags, entries, workers, sharedVars, workerVars, localVars,
      files, disk, world, history, system, outside, Procs, Creators
<1>1. CASE WorkerLoop(t)
  BY <1>1 DEF WorkerLoop
<1>2. CASE FetchLock(t)
  BY <1>2 DEF FetchLock, Lock, Complete
<1>3. CASE FetchPop(t)
  BY <1>3 DEF FetchPop
<1>4. CASE FetchEmpty(t)
  BY <1>4 DEF FetchEmpty, Unlock
<1>5. CASE FetchRegister(t)
  BY <1>5 DEF FetchRegister, Unlock
<1>6. CASE SkipInvalid(t)
  BY <1>6 DEF SkipInvalid
<1>7. CASE SkipMissing(t)
  BY <1>7 DEF SkipMissing, AfterRequest
<1>8. CASE SendAccepted(t)
  BY <1>8 DEF SendAccepted, Sendable
<1>9. CASE RemoveFile(t)
  BY <1>9 DEF RemoveFile, AfterRequest
<1>10. CASE SendConflict(t)
  BY <1>10 DEF SendConflict, AfterRequest
<1>11. CASE SendFailed(t)
  BY <1>11 DEF SendFailed, AfterRequest
<1>12. CASE DownLock(t)
  BY <1>12 DEF DownLock, Lock, Complete
<1>13. CASE Requeue(t)
  BY <1>13 DEF Requeue
<1>14. CASE Release(t)
  BY <1>14 DEF Release, Unlock
<1>15. CASE ThreadExit(t)
  BY <1>15 DEF ThreadExit
<1>16. QED
  BY <1>1, <1>2, <1>3, <1>4, <1>5, <1>6, <1>7, <1>8, <1>9, <1>10, <1>11,
     <1>12, <1>13, <1>14, <1>15 DEF thread_worker

LEMMA ManagerKeepsFiles ==
    ASSUME TypeOK, Shape, FileShape, thread_manager PROVE FileShape'
<1> USE ThreadsAssumption DEF TypeOK, PcType, Shape, StartShape, DumpShape,
      FileShape, flags, entries, workers, sharedVars, workerVars, localVars,
      files, disk, world, history, system, outside, Procs, Creators
<1>1. CASE ManagerRound
  BY <1>1 DEF ManagerRound
<1>2. CASE ManagerLock
  BY <1>2 DEF ManagerLock, Lock
<1>3. CASE SkipCheckpoint
  BY <1>3 DEF SkipCheckpoint
<1>4. CASE StartCheckpoint
  BY <1>4 DEF StartCheckpoint, OpenNew
<1>5. CASE Drain
  BY <1>5 DEF Drain
<1>6. CASE FinalCheckpoint
  BY <1>6 DEF FinalCheckpoint, OpenNew
<1>7. CASE ManagerExit
  BY <1>7 DEF ManagerExit
<1>8. CASE DumpQueueNext
  BY <1>8 DEF DumpQueueNext
<1>9. CASE DumpProgressNext
  BY <1>9 DEF DumpProgressNext
<1>10. CASE DumpWrite
  BY <1>10 DEF DumpWrite
<1>11. CASE RemoveOld
  BY <1>11 DEF RemoveOld
<1>12. CASE RenameQueueToOld
  BY <1>12 DEF RenameQueueToOld, Backup
<1>13. CASE RenameNewToQueue
  BY <1>13 DEF RenameNewToQueue
<1>14. CASE RemoveBackup
  BY <1>14 DEF RemoveBackup
<1>15. CASE TruncateLog
  BY <1>15 DEF TruncateLog
<1>16. QED
  BY <1>1, <1>2, <1>3, <1>4, <1>5, <1>6, <1>7, <1>8, <1>9, <1>10, <1>11,
     <1>12, <1>13, <1>14, <1>15 DEF thread_manager, transaction_checkpoint

LEMMA ProcessKeepsFiles ==
    ASSUME TypeOK, Shape, FileShape,
           \/ Signal \/ \E p \in {Main, Mgr, Sig} : logc_shutdown(p)
           \/ Timeout \/ Restart
    PROVE  FileShape'
<1> USE ThreadsAssumption DEF TypeOK, PcType, Shape, StartShape, DumpShape,
      FileShape, flags, entries, workers, sharedVars, workerVars, localVars,
      files, disk, world, history, system, outside, Procs, Creators
<1>1. CASE Signal
  BY <1>1 DEF Signal
<1>2. ASSUME NEW p \in {Main, Mgr, Sig}, Shutdown(p) PROVE FileShape'
  BY <1>2 DEF Shutdown
<1>3. ASSUME NEW p \in {Main, Mgr, Sig}, ExitProcess(p) PROVE FileShape'
  BY <1>3 DEF ExitProcess
<1>4. CASE Timeout
  BY <1>4 DEF Timeout
<1>5. CASE Restart
  BY <1>5 DEF Restart
<1>6. QED
  BY <1>1, <1>2, <1>3, <1>4, <1>5 DEF logc_shutdown

LEMMA FileInit == Init => FileShape
  BY LinesAssumption, ThreadsAssumption DEF Init, FileShape, Procs

LEMMA FileStep == TypeInv /\ FileShape /\ [Next]_vars => FileShape'
<1> SUFFICES ASSUME TypeOK, Shape, FileShape, [Next]_vars PROVE FileShape'
  BY DEF TypeInv
<1>1. CASE UNCHANGED vars
  BY <1>1 DEF vars, FileShape, flags, entries, workers, sharedVars,
     workerVars,
     localVars, files, disk, world, history, system, outside
<1>2. CASE Next
  BY <1>2, StartupKeepsFiles, ReceiveKeepsFiles, CreateKeepsFiles,
     WorkerKeepsFiles, ManagerKeepsFiles, ProcessKeepsFiles DEF Next
<1>3. QED
  BY <1>1, <1>2

-----------------------------------------------------------------------------
(* The refinement.                                                         *)

\* Every step is a step of AtomicQueueFile or leaves its variables alone.
LEMMA QueueFileStep ==
    ASSUME TypeOK, Shape, FileShape, [Next]_vars
    PROVE  [QueueFile!Next]_<<Loadable, qnew>>
<1> USE ThreadsAssumption DEF QueueFile!Next, Loadable
<1>1. CASE UNCHANGED files
  BY <1>1 DEF files
<1>2. CASE LoadQueue
  BY <1>2 DEF LoadQueue, QueueFile!Abandon
<1>3. CASE AdoptOld
  BY <1>3 DEF AdoptOld
<1>4. CASE StartThreads
  BY <1>4 DEF StartThreads, FileShape
<1>5. CASE StartFails
  BY <1>5 DEF StartFails, FileShape, QueueFile!Abandon
<1>6. CASE StartCheckpoint
  BY <1>6 DEF StartCheckpoint, OpenNew, QueueFile!Begin
<1>7. CASE FinalCheckpoint
  BY <1>7 DEF FinalCheckpoint, OpenNew, QueueFile!Begin
<1>8. CASE DumpWrite
  <2>1. ck.cur \in Entries /\ qnew # NoFile
    BY <1>8 DEF DumpWrite, TypeOK, CkType, Shape, DumpShape
  <2>2. \E l \in AnyLine : qnew' = Append(qnew, l)
    BY <1>8, <2>1 DEF DumpWrite, Entries, AnyLine
  <2>3. QED
    BY <1>8, <2>1, <2>2 DEF DumpWrite, QueueFile!Write
<1>9. CASE RemoveOld
  BY <1>9 DEF RemoveOld, FileShape
<1>10. CASE RenameQueueToOld
  BY <1>10 DEF RenameQueueToOld, Backup, FileShape
<1>11. CASE RenameNewToQueue
  BY <1>11 DEF RenameNewToQueue, QueueFile!Install, Shape, DumpShape
<1>12. CASE RemoveBackup
  BY <1>12 DEF RemoveBackup, FileShape
<1>13. QED
  <2>1. CASE UNCHANGED vars
    BY <1>1, <2>1 DEF vars, disk, files
  <2>2. CASE receive_loop
    BY <1>1, <2>2 DEF receive_loop, Receive, AddEntry, AddEntryWorker,
       EndOfInput, LeaveReceiveLoop, disk, files
  <2>3. ASSUME NEW c \in Creators, create_new_worker(c) PROVE UNCHANGED files
    BY <2>3 DEF create_new_worker, CreateNotNeeded, CreateThread, CountWorker,
       CreateFails, disk, files
  <2>4. ASSUME NEW t \in Threads, thread_worker(t) PROVE UNCHANGED files
    BY <2>4 DEF thread_worker, WorkerLoop, FetchLock, FetchPop, FetchEmpty,
       FetchRegister, SkipInvalid, SkipMissing, SendAccepted, RemoveFile,
       SendConflict, SendFailed, DownLock, Requeue, Release, ThreadExit,
       disk, files
  <2>5. CASE \/ ManagerRound \/ ManagerLock \/ SkipCheckpoint \/ Drain
             \/ ManagerExit \/ DumpQueueNext \/ DumpProgressNext \/ TruncateLog
    BY <1>1, <2>5 DEF ManagerRound, ManagerLock, SkipCheckpoint, Drain,
       ManagerExit, DumpQueueNext, DumpProgressNext, TruncateLog, disk, files
  <2>6. CASE \/ Signal \/ \E p \in {Main, Mgr, Sig} : logc_shutdown(p)
             \/ Timeout \/ Restart
    BY <1>1, <2>6 DEF Signal, logc_shutdown, Shutdown, ExitProcess, Timeout,
       Restart, disk, files
  <2>7. QED
    BY <1>1, <1>2, <1>3, <1>4, <1>5, <1>6, <1>7, <1>8, <1>9, <1>10, <1>11,
       <1>12, <2>1, <2>2, <2>3, <2>4, <2>5, <2>6
       DEF Next, Startup, thread_manager, transaction_checkpoint

\* Wherever the process dies, the next one finds the last complete dump: the
\* removals and renames replace the queue file as one step would.
THEOREM QueueFileRefinement == Spec => QueueFileAtomic
<1>1. Init => QueueFile!Init
  BY DEF Init, QueueFile!Init, Loadable
<1>2. TypeInv /\ FileShape /\ [Next]_vars => [QueueFile!Next]_<<Loadable, qnew>>
  BY QueueFileStep DEF TypeInv
<1>3. QED
  BY <1>1, <1>2, FileInit, FileStep, TypeInvCorrect, PTL
     DEF Spec, QueueFileAtomic, QueueFile!Spec
-----------------------------------------------------------------------------
(* The allocated entries, step by step.                                    *)

LEMMA LiveSame ==
    ASSUME UNCHANGED <<queue, held>> PROVE LiveEntries' = LiveEntries
  BY DEF LiveEntries

LEMMA LiveMembers ==
    /\ \A e \in LiveEntries :
          e \in Range(queue) \/ \E t \in Threads : e = held[t] /\ e # None
    /\ Range(queue) \subseteq LiveEntries
    /\ \A t \in Threads : held[t] # None => held[t] \in LiveEntries
  BY DEF LiveEntries

\* add_entry allocates one.
LEMMA AddLive ==
    ASSUME TypeOK, Shape, AddEntry
    PROVE  LiveEntries' = LiveEntries \cup {Entry(entry_counter, recv)}
<1> DEFINE e == Entry(entry_counter, recv)
<1>1. e \in Entries
  BY ThreadsAssumption
     DEF AddEntry, TypeOK, SharedType, LocalType, Shape, StartShape, Entry,
         Entries, AnyLine
<1>2. queue' = Append(queue, e) /\ held' = held
  BY DEF AddEntry, workerVars
<1>3. Range(queue') = Range(queue) \cup {e}
  BY <1>1, <1>2, AppendRange DEF TypeOK, SharedType
<1> HIDE DEF e
<1>4. LiveEntries' = LiveEntries \cup {e}
  BY <1>1, <1>2, <1>3, LinesAssumption DEF LiveEntries
<1>5. QED
  BY <1>4 DEF e

\* A new worker holds none.
LEMMA CreateLive ==
    ASSUME TypeOK, EntryShape, status = "up", NEW c \in Creators,
           NEW t \in Threads, NEW h \in Handles, CreateThread(c, t, h)
    PROVE  LiveEntries' = LiveEntries
<1>1. held[t] = None
  BY DEF CreateThread, EntryShape, HeldApart
<1>2. held' = held /\ queue' = queue
  BY <1>1 DEF CreateThread, TypeOK, LocalType, entries
<1>3. QED
  BY <1>2, LiveSame

\* apr_array_pop moves one from the queue to the worker.
LEMMA PopLive ==
    ASSUME TypeOK, EntryShape, status = "up", NEW t \in Threads, FetchPop(t)
    PROVE  LiveEntries' = LiveEntries
<1> DEFINE x == Pop(queue).entry
<1>1. /\ held' = [held EXCEPT ![t] = x] /\ queue' = Pop(queue).rest
      /\ queue # <<>> /\ held[t] = None
  BY DEF FetchPop, EntryShape, HeldApart
<1>2. x \in Entries /\ x # None
  BY <1>1, PopType, LinesAssumption DEF TypeOK, SharedType
<1>3. Range(queue) = Range(queue') \cup {x}
  BY <1>1, PopSplit, PopRange DEF TypeOK, SharedType
<1> HIDE DEF x
<1>4. held'[t] = x /\ \A u \in Threads \ {t} : held'[u] = held[u]
  BY <1>1 DEF TypeOK, LocalType
<1>5. ASSUME NEW e \in LiveEntries PROVE e \in LiveEntries'
  BY <1>1, <1>2, <1>3, <1>4, <1>5 DEF LiveEntries
<1>6. ASSUME NEW e \in LiveEntries' PROVE e \in LiveEntries
  BY <1>1, <1>2, <1>3, <1>4, <1>6 DEF LiveEntries
<1>7. QED
  BY <1>5, <1>6

\* A worker that leaves pushes its entry back.
LEMMA RequeueLive ==
    ASSUME TypeOK, NEW t \in Threads, Requeue(t)
    PROVE  LiveEntries' = LiveEntries
<1>1. held'[t] = None /\ \A u \in Threads \ {t} : held'[u] = held[u]
  BY DEF Requeue, TypeOK, LocalType
<1>2. CASE held[t] = None
  <2>1. held' = held /\ queue' = queue
    BY <1>2 DEF Requeue, PutBack, TypeOK, LocalType
  <2>2. QED
    BY <2>1, LiveSame
<1>3. CASE held[t] # None
  <2>1. queue' = Append(queue, held[t]) /\ held[t] \in Entries
    BY <1>3 DEF Requeue, PutBack, TypeOK, LocalType
  <2>2. Range(queue') = Range(queue) \cup {held[t]}
    BY <2>1, AppendRange DEF TypeOK, SharedType
  <2>3. ASSUME NEW e \in LiveEntries PROVE e \in LiveEntries'
    BY <1>1, <2>2, <2>3 DEF LiveEntries
  <2>4. ASSUME NEW e \in LiveEntries' PROVE e \in LiveEntries
    BY <1>1, <1>3, <2>2, <2>4 DEF LiveEntries
  <2>5. QED
    BY <2>3, <2>4
<1>4. QED
  BY <1>2, <1>3

\* Completing one frees that one.
LEMMA CompleteLive ==
    ASSUME TypeOK, NEW t \in Threads, held[t] # None,
           held' = [held EXCEPT ![t] = None], queue' = queue
    PROVE  LiveEntries' \subseteq LiveEntries
           /\ LiveEntries \subseteq LiveEntries' \cup {held[t]}
<1>1. held'[t] = None /\ \A u \in Threads \ {t} : held'[u] = held[u]
  BY DEF TypeOK, LocalType
<1>2. ASSUME NEW e \in LiveEntries' PROVE e \in LiveEntries
  BY <1>1, <1>2 DEF LiveEntries
<1>3. ASSUME NEW e \in LiveEntries PROVE e \in LiveEntries' \cup {held[t]}
  BY <1>1, <1>3 DEF LiveEntries
<1>4. QED
  BY <1>2, <1>3

\* What is in progress is allocated.
LEMMA ProgressLive ==
    ASSUME EntryShape, status = "up" PROVE in_progress \subseteq LiveEntries
  BY LiveMembers DEF EntryShape, ProgressExact, Registered

-----------------------------------------------------------------------------
(* What the process and its files hold was accepted.                       *)

\* The lines of a file were accepted.
FileAccepted(f) == f # NoFile => Range(f) \cap stdin = {}

\* No line that is still unread is anywhere.
Accepted ==
    /\ recv \notin stdin
    /\ \A e \in LiveEntries : e.line \notin stdin
    /\ ck.cur # None => ck.cur.line \notin stdin
    /\ \A e \in ck.todo : e.line \notin stdin
    /\ FileAccepted(qfile) /\ FileAccepted(qold) /\ FileAccepted(qnew)

LEMMA AcceptedFrame ==
    ASSUME Accepted, UNCHANGED <<recv, stdin, files>>, ck'.cur = ck.cur,
           ck'.todo = ck.todo, LiveEntries' \subseteq LiveEntries
    PROVE  Accepted'
  BY DEF Accepted, FileAccepted, files

\* The lines of what read_queue_entries loads, and those it leaves out.
LEMMA LoadedLines ==
    ASSUME DiskType, NEW at \in InOrder(Source)
    PROVE  /\ \A e \in Range(Loaded(Source, at)) : \E i \in EntryAt(Source) :
                 e.line = IF Source[i] \in LongLines THEN Garbage ELSE Source[i]
           /\ \A i \in EntryAt(Source) : \E e \in Range(Loaded(Source, at)) :
                 e.line = IF Source[i] \in LongLines THEN Garbage ELSE Source[i]
           /\ EntryAt(Source) \subseteq DOMAIN Source
<1> DEFINE q == Loaded(Source, at)
<1>1. {at[n] : n \in DOMAIN at} = EntryAt(Source)
  BY DEF InOrder
<1>2. DOMAIN q = DOMAIN at
      /\ \A n \in DOMAIN at :
            q[n].line = IF Source[at[n]] \in LongLines
                        THEN Garbage ELSE Source[at[n]]
  BY DEF Loaded, Entry
<1>3. Range(q) = {q[n] : n \in DOMAIN at}
  BY <1>2 DEF Range
<1> HIDE DEF q
<1>4. \A e \in Range(q) : \E i \in EntryAt(Source) :
         e.line = IF Source[i] \in LongLines THEN Garbage ELSE Source[i]
  BY <1>1, <1>2, <1>3
<1>5. \A i \in EntryAt(Source) : \E e \in Range(q) :
         e.line = IF Source[i] \in LongLines THEN Garbage ELSE Source[i]
  <2>1. ASSUME NEW i \in EntryAt(Source)
        PROVE  \E n \in DOMAIN at : at[n] = i
    BY <1>1
  <2>2. QED
    BY <1>2, <1>3, <2>1
<1>6. EntryAt(Source) \subseteq DOMAIN Source
  BY DEF EntryAt
<1>7. QED
  BY <1>4, <1>5, <1>6 DEF q

LEMMA EmptyRange == Range(<< >>) = {}
  BY DEF Range

LEMMA StartupKeepsAccepted ==
    ASSUME TypeOK, Shape, EntryShape, ExitedStill, Accepted,
           Startup
    PROVE  Accepted'
<1> USE LinesAssumption, ThreadsAssumption
      DEF TypeOK, PcType, LocalType, SharedType, OutsideType, Shape,
          StartShape, flags, entries, workers, sharedVars, workerVars,
          localVars, files, disk, world, history, system, outside, Procs,
          Creators
<1>1. CASE LoadQueue
  <2>1. /\ qnew' = NoFile
        /\ UNCHANGED <<recv, held, ck, stdin, qfile, qold>>
    BY <1>1 DEF LoadQueue
  <2>2. \A e \in Range(queue') : e.line \notin stdin
    <3>1. Range(Source) \cap stdin = {}
      BY DEF Accepted, FileAccepted, Source, Range
    <3>2. PICK at \in InOrder(Source) : queue' = Loaded(Source, at)
      BY <1>1 DEF LoadQueue
    <3>3. ASSUME NEW e \in Range(queue') PROVE e.line \notin stdin
      <4>1. PICK i \in DOMAIN Source :
               e.line = IF Source[i] \in LongLines THEN Garbage ELSE Source[i]
        BY <3>2, <3>3, LoadedLines
      <4>2. QED
        BY <3>1, <4>1 DEF Range
    <3>4. QED
      BY <3>3
  <2>3. \A e \in LiveEntries' : e.line \notin stdin
    BY <2>1, <2>2 DEF Accepted, LiveEntries
  <2>4. QED
    BY <2>1, <2>3 DEF Accepted, FileAccepted
<1>2. CASE AdoptOld
  BY <1>2, LiveSame DEF AdoptOld, Accepted, FileAccepted
<1>3. CASE StartThreads
  BY <1>3, LiveSame DEF StartThreads, Accepted, FileAccepted
<1>4. CASE StartFails
  BY <1>4, LiveSame DEF StartFails, Accepted, FileAccepted
<1>5. QED
  BY <1>1, <1>2, <1>3, <1>4 DEF Startup

LEMMA ReceiveKeepsAccepted ==
    ASSUME TypeOK, Shape, EntryShape, ExitedStill, Accepted,
           receive_loop
    PROVE  Accepted'
<1> USE LinesAssumption, ThreadsAssumption
      DEF TypeOK, PcType, LocalType, SharedType, OutsideType, Shape,
          StartShape, flags, entries, workers, sharedVars, workerVars,
          localVars, files, disk, world, history, system, outside, Procs,
          Creators
<1>1. ASSUME NEW l \in Lines, Receive(l) PROVE Accepted'
  BY <1>1, LiveSame DEF Receive, Accepted, FileAccepted
<1>2. CASE AddEntry
  <2>1. LiveEntries' = LiveEntries \cup {Entry(entry_counter, recv)}
    BY <1>2, AddLive
  <2>2. recv' = None /\ UNCHANGED <<stdin, ck, files>>
    BY <1>2 DEF AddEntry
  <2>3. Entry(entry_counter, recv).line = recv
    BY DEF Entry
  <2>4. QED
    BY <2>1, <2>2, <2>3 DEF Accepted, FileAccepted
<1>3. CASE AddEntryWorker
  BY <1>3, LiveSame, AcceptedFrame DEF AddEntryWorker
<1>4. CASE EndOfInput
  BY <1>4, LiveSame, AcceptedFrame DEF EndOfInput
<1>5. CASE LeaveReceiveLoop
  BY <1>5, LiveSame, AcceptedFrame DEF LeaveReceiveLoop
<1>6. QED
  BY <1>1, <1>2, <1>3, <1>4, <1>5 DEF receive_loop

LEMMA CreateKeepsAccepted ==
    ASSUME TypeOK, Shape, EntryShape, ExitedStill, Accepted,
           NEW c \in Creators, create_new_worker(c)
    PROVE  Accepted'
<1> USE LinesAssumption, ThreadsAssumption
      DEF TypeOK, PcType, LocalType, SharedType, OutsideType, Shape,
          StartShape, flags, entries, workers, sharedVars, workerVars,
          localVars, files, disk, world, history, system, outside, Procs,
          Creators
<1>1. CASE CreateNotNeeded(c)
  BY <1>1, LiveSame, AcceptedFrame DEF CreateNotNeeded
<1>2. ASSUME NEW t \in Threads, NEW h \in Handles, CreateThread(c, t, h)
      PROVE  Accepted'
  <2>0. status = "up"
    BY <1>2 DEF CreateThread, ExitedStill
  <2>1. LiveEntries' = LiveEntries
    BY <1>2, <2>0, CreateLive
  <2>2. QED
    BY <1>2, <2>1, AcceptedFrame DEF CreateThread
<1>3. CASE CountWorker(c)
  BY <1>3, LiveSame, AcceptedFrame DEF CountWorker
<1>4. CASE CreateFails(c)
  BY <1>4, LiveSame, AcceptedFrame DEF CreateFails
<1>5. QED
  BY <1>1, <1>2, <1>3, <1>4 DEF create_new_worker

LEMMA WorkerKeepsAccepted ==
    ASSUME TypeOK, Shape, EntryShape, ExitedStill, Accepted,
           NEW t \in Threads, thread_worker(t)
    PROVE  Accepted'
<1> USE LinesAssumption, ThreadsAssumption
      DEF TypeOK, PcType, LocalType, SharedType, OutsideType, Shape,
          StartShape, flags, entries, workers, sharedVars, workerVars,
          localVars, files, disk, world, history, system, outside, Procs,
          Creators
<1>1. CASE WorkerLoop(t)
  BY <1>1, LiveSame, AcceptedFrame DEF WorkerLoop
<1>2. CASE FetchLock(t)
  <2>1. LiveEntries' \subseteq LiveEntries
    BY <1>2, CompleteLive, LiveSame DEF FetchLock, Complete
  <2>2. QED
    BY <1>2, <2>1, AcceptedFrame, DisturbedType DEF FetchLock, Complete
<1>3. CASE FetchPop(t)
  <2>1. status = "up"
    BY <1>3 DEF FetchPop, ExitedStill
  <2>2. QED
    BY <1>3, <2>1, PopLive, AcceptedFrame DEF FetchPop
<1>4. CASE FetchEmpty(t)
  BY <1>4, LiveSame, AcceptedFrame DEF FetchEmpty
<1>5. CASE FetchRegister(t)
  BY <1>5, LiveSame, AcceptedFrame, DisturbedType DEF FetchRegister
<1>6. CASE SkipInvalid(t)
  BY <1>6, LiveSame, AcceptedFrame DEF SkipInvalid
<1>7. CASE SkipMissing(t)
  BY <1>7, LiveSame, AcceptedFrame DEF SkipMissing
<1>8. CASE SendAccepted(t)
  BY <1>8, LiveSame, AcceptedFrame DEF SendAccepted
<1>9. CASE RemoveFile(t)
  BY <1>9, LiveSame, AcceptedFrame DEF RemoveFile
<1>10. CASE SendConflict(t)
  BY <1>10, LiveSame, AcceptedFrame DEF SendConflict
<1>11. CASE SendFailed(t)
  BY <1>11, LiveSame, AcceptedFrame DEF SendFailed
<1>12. CASE DownLock(t)
  <2>1. LiveEntries' \subseteq LiveEntries
    BY <1>12, CompleteLive, LiveSame DEF DownLock, Complete
  <2>2. QED
    BY <1>12, <2>1, AcceptedFrame, DisturbedType DEF DownLock, Complete
<1>13. CASE Requeue(t)
  BY <1>13, RequeueLive, AcceptedFrame DEF Requeue
<1>14. CASE Release(t)
  BY <1>14, LiveSame, AcceptedFrame DEF Release
<1>15. CASE ThreadExit(t)
  BY <1>15, LiveSame, AcceptedFrame DEF ThreadExit
<1>16. QED
  BY <1>1, <1>2, <1>3, <1>4, <1>5, <1>6, <1>7, <1>8, <1>9, <1>10, <1>11,
     <1>12, <1>13, <1>14, <1>15 DEF thread_worker

LEMMA ManagerKeepsAccepted ==
    ASSUME TypeOK, Shape, EntryShape, ExitedStill, Accepted,
           thread_manager
    PROVE  Accepted'
<1> USE LinesAssumption, ThreadsAssumption
      DEF TypeOK, PcType, LocalType, SharedType, OutsideType, Shape,
          StartShape, flags, entries, workers, sharedVars, workerVars,
          localVars, files, disk, world, history, system, outside, Procs,
          Creators
<1>1. CASE ManagerRound
  BY <1>1, LiveSame, AcceptedFrame DEF ManagerRound
<1>2. CASE ManagerLock
  BY <1>2, LiveSame, AcceptedFrame DEF ManagerLock
<1>3. CASE SkipCheckpoint
  BY <1>3, LiveSame, AcceptedFrame DEF SkipCheckpoint
<1>4. CASE StartCheckpoint
  <2>1. /\ qnew' = <<>> /\ ck'.cur = None /\ ck'.todo = {}
        /\ UNCHANGED <<recv, stdin, qfile, qold, queue, held>>
    BY <1>4 DEF StartCheckpoint, OpenNew, CkIdle
  <2>2. QED
    BY <2>1, LiveSame, EmptyRange DEF Accepted, FileAccepted
<1>5. CASE Drain
  BY <1>5, LiveSame, AcceptedFrame DEF Drain
<1>6. CASE FinalCheckpoint
  <2>1. UNCHANGED <<recv, stdin, qfile, qold, queue, held>>
    BY <1>6 DEF FinalCheckpoint
  <2>2. CASE OpenNew(TRUE)
    <3>1. qnew' = <<>> /\ ck'.cur = None /\ ck'.todo = {}
      BY <2>2 DEF OpenNew, CkIdle
    <3>2. QED
      BY <2>1, <3>1, LiveSame, EmptyRange DEF Accepted, FileAccepted
  <2>3. CASE UNCHANGED <<ck, qnew>>
    BY <2>1, <2>3, LiveSame, AcceptedFrame
  <2>4. QED
    BY <1>6, <2>2, <2>3 DEF FinalCheckpoint
<1>7. CASE ManagerExit
  BY <1>7, LiveSame, AcceptedFrame DEF ManagerExit
<1>8. CASE DumpQueueNext
  <2>1. UNCHANGED <<recv, stdin, files, queue, held>>
    BY <1>8 DEF DumpQueueNext
  <2>2. CASE ck.i <= Len(queue)
    <3>1. ck.i \in 1..Len(queue)
      BY <1>8, <2>2 DEF DumpQueueNext, DumpShape, CkType
    <3>2. queue[ck.i] \in LiveEntries
      BY <3>1, LiveMembers DEF Range
    <3>3. ck'.cur = queue[ck.i] /\ ck'.todo = ck.todo
      BY <1>8, <2>2 DEF DumpQueueNext, CkType
    <3>4. QED
      BY <2>1, <3>2, <3>3, LiveSame DEF Accepted, FileAccepted
  <2>3. CASE ~(ck.i <= Len(queue))
    <3>1. ck'.cur = ck.cur /\ ck'.todo = in_progress
      BY <1>8, <2>3 DEF DumpQueueNext, CkType
    <3>2. in_progress \subseteq LiveEntries
      BY <1>8, ProgressLive DEF DumpQueueNext, ExitedStill
    <3>3. QED
      BY <2>1, <3>1, <3>2, LiveSame DEF Accepted, FileAccepted
  <2>4. QED
    BY <2>2, <2>3
<1>9. CASE DumpProgressNext
  <2>1. UNCHANGED <<recv, stdin, files, queue, held>>
    BY <1>9 DEF DumpProgressNext
  <2>2. status = "up"
    BY <1>9 DEF DumpProgressNext, ExitedStill
  <2>3. ASSUME NEW e \in in_progress \cup Astray,
               ck' = [ck EXCEPT !.cur = e, !.seen = @ \cup {e}]
        PROVE  Accepted'
    <3>1. ck'.cur = e /\ ck'.todo = ck.todo
      BY <2>3 DEF CkType
    <3>2. CASE e \in in_progress
      BY <2>1, <2>2, <3>1, <3>2, LiveSame, ProgressLive
         DEF Accepted, FileAccepted
    <3>3. CASE e \in Astray
      <4>1. e.line \notin stdin
        BY <3>3 DEF Astray, Accepted, Entry
      <4>2. QED
        BY <2>1, <3>1, <4>1, LiveSame DEF Accepted, FileAccepted
    <3>4. QED
      BY <2>3, <3>2, <3>3
  <2>4. CASE ck' = ck
    BY <2>1, <2>4, LiveSame, AcceptedFrame
  <2>5. QED
    BY <1>9, <2>3, <2>4 DEF DumpProgressNext
<1>10. CASE DumpWrite
  <2>1. /\ ck'.cur = None /\ ck'.todo = ck.todo
        /\ UNCHANGED <<recv, stdin, qfile, qold, queue, held>>
    BY <1>10 DEF DumpWrite, CkType
  <2>2. qnew \in Seq(AnyLine) /\ qnew # NoFile /\ ck.cur \in Entries
        /\ ck.cur # None
    BY <1>10 DEF DumpWrite, DumpShape, DiskType, File, CkType
  <2>3. PICK l \in AnyLine :
           qnew' = Append(qnew, l) /\ (l = ck.cur.line \/ l = Garbage)
    BY <1>10, <2>2 DEF DumpWrite, Entries, AnyLine
  <2>4. l \notin stdin
    BY <2>2, <2>3 DEF Accepted
  <2>5. Range(qnew') = Range(qnew) \cup {l}
    BY <2>2, <2>3, WrittenAppend
  <2>6. QED
    BY <2>1, <2>2, <2>4, <2>5, LiveSame DEF Accepted, FileAccepted
<1>11. CASE RemoveOld
  BY <1>11, LiveSame DEF RemoveOld, Accepted, FileAccepted
<1>12. CASE RenameQueueToOld
  BY <1>12, LiveSame DEF RenameQueueToOld, Backup, Accepted, FileAccepted
<1>13. CASE RenameNewToQueue
  BY <1>13, LiveSame DEF RenameNewToQueue, Accepted, FileAccepted
<1>14. CASE RemoveBackup
  BY <1>14, LiveSame DEF RemoveBackup, Accepted, FileAccepted
<1>15. CASE TruncateLog
  BY <1>15, LiveSame DEF TruncateLog, CkIdle, Accepted, FileAccepted
<1>16. QED
  BY <1>1, <1>2, <1>3, <1>4, <1>5, <1>6, <1>7, <1>8, <1>9, <1>10, <1>11,
     <1>12, <1>13, <1>14, <1>15 DEF thread_manager, transaction_checkpoint

LEMMA ProcessKeepsAccepted ==
    ASSUME TypeOK, Shape, EntryShape, ExitedStill, Accepted,
           \/ Signal \/ \E p \in {Main, Mgr, Sig} : logc_shutdown(p)
           \/ Timeout \/ Restart
    PROVE  Accepted'
<1> USE LinesAssumption, ThreadsAssumption
      DEF TypeOK, PcType, LocalType, SharedType, OutsideType, Shape,
          StartShape, flags, entries, workers, sharedVars, workerVars,
          localVars, files, disk, world, history, system, outside, Procs,
          Creators
<1>1. CASE Signal
  BY <1>1, LiveSame, AcceptedFrame DEF Signal
<1>2. ASSUME NEW p \in {Main, Mgr, Sig}, Shutdown(p) PROVE Accepted'
  BY <1>2, LiveSame, AcceptedFrame DEF Shutdown
<1>3. ASSUME NEW p \in {Main, Mgr, Sig}, ExitProcess(p) PROVE Accepted'
  BY <1>3, LiveSame, AcceptedFrame DEF ExitProcess
<1>4. CASE Timeout
  BY <1>4, LiveSame, AcceptedFrame DEF Timeout
<1>5. CASE Restart
  <2>1. LiveEntries' = {}
    BY <1>5 DEF Restart, LiveEntries, Range
  <2>2. recv' = None /\ ck'.cur = None /\ ck'.todo = {}
        /\ UNCHANGED <<stdin, files>>
    BY <1>5 DEF Restart, CkIdle
  <2>3. QED
    BY <2>1, <2>2 DEF Accepted, FileAccepted
<1>6. QED
  BY <1>1, <1>2, <1>3, <1>4, <1>5 DEF logc_shutdown
LEMMA AcceptedInit == Init => Accepted
<1> SUFFICES ASSUME Init PROVE Accepted
  OBVIOUS
<1>1. LiveEntries = {}
  BY DEF Init, LiveEntries, Range
<1>2. QED
  BY <1>1, LinesAssumption DEF Init, Accepted, FileAccepted, CkIdle

LEMMA AcceptedStep ==
    TypeInv /\ EntryShape /\ ExitedStill /\ Accepted /\ [Next]_vars => Accepted'
<1> SUFFICES ASSUME TypeOK, Shape, EntryShape, ExitedStill, Accepted,
                    [Next]_vars
             PROVE  Accepted'
  BY DEF TypeInv
<1>1. CASE UNCHANGED vars
  BY <1>1, LiveSame, AcceptedFrame DEF vars, sharedVars, entries, localVars,
     workerVars, disk, outside, world
<1>2. CASE Next
  BY <1>2, StartupKeepsAccepted, ReceiveKeepsAccepted, CreateKeepsAccepted,
     WorkerKeepsAccepted, ManagerKeepsAccepted, ProcessKeepsAccepted DEF Next
<1>3. QED
  BY <1>1, <1>2
-----------------------------------------------------------------------------
(* The collector keeps its promise.                                        *)

\* The lines that the process is responsible for, and those in the queue file
\* that the next one starts with.
Pending == IF ~Serving THEN {}
           ELSE Lines \cap ({recv} \cup {e.line : e \in LiveEntries})
Saved == IF Loadable = NoFile THEN {}
         ELSE (Lines \ (LongLines \cup CommentLines)) \cap Range(Loadable)

LEMMA ServingBoolean ==
    /\ Serving \in BOOLEAN /\ Serving' \in BOOLEAN
    /\ (Serving <=> status = "up" /\ pc[Main] # "init")
    /\ (Serving <=> status = "up" /\ pc[Main] # "init")'
  BY DEF Serving

LEMMA PromiseAccept ==
    ASSUME Serving = TRUE, Serving' = TRUE, NEW l \in stdin,
           stdin' = stdin \ {l}, Pending' = Pending \cup {l}, Saved' = Saved
    PROVE  Promise!Next
  BY DEF Promise!Next, Promise!Accept, Pending, Saved

LEMMA PromiseFinish ==
    ASSUME Serving = TRUE, Serving' = TRUE, NEW l \in Pending,
           stdin' = stdin, Pending' = Pending \ {l}, Saved' = Saved
    PROVE  Promise!Next
  BY DEF Promise!Next, Promise!Finish, Pending, Saved

LEMMA PromiseSave ==
    ASSUME Serving = TRUE, Serving' = TRUE, Saved' \in SUBSET (Lines \ stdin),
           stdin' = stdin, Pending' = Pending
    PROVE  Promise!Next
  BY DEF Promise!Next, Promise!Save, Pending, Saved

LEMMA PromiseDie ==
    ASSUME Serving = TRUE, Serving' = FALSE, Pending' = {}, stdin' = stdin,
           Saved' = Saved
    PROVE  Promise!Next
  BY DEF Promise!Next, Promise!Die, Pending, Saved

LEMMA PromiseResume ==
    ASSUME Serving = FALSE, Serving' = TRUE, Pending' = Saved, stdin' = stdin,
           Saved' = Saved
    PROVE  Promise!Next
  BY DEF Promise!Next, Promise!Resume, Pending, Saved

\* A step that changes nothing the promise is about.
LEMMA PromiseStutter ==
    ASSUME status' = status, pc'[Main] = "init" <=> pc[Main] = "init",
           UNCHANGED <<recv, stdin>>, LiveEntries' = LiveEntries,
           Loadable' = Loadable
    PROVE  UNCHANGED <<Serving, stdin, Pending, Saved>>
<1>1. Serving' = Serving
  BY DEF Serving
<1>2. QED
  BY <1>1 DEF Pending, Saved

\* The lines of .new or the queue file were accepted.
LEMMA SavedAccepted ==
    ASSUME Accepted' PROVE Saved' \in SUBSET (Lines \ stdin')
  BY DEF Accepted, FileAccepted, Saved, Loadable

\* A new process resumes with what was saved: add_entry's numbers aside, the
\* entries that read_queue_entries makes are the lines of the file.
LEMMA ResumeStep ==
    ASSUME TypeOK, Shape, EntryShape, ExitedStill, CloseOrder, LoadQueue
    PROVE  Promise!Next
<1> USE ThreadsAssumption, LinesAssumption
      DEF TypeOK, PcType, OutsideType, Procs
<1>1. /\ pc[Main] = "init" /\ pc'[Main] = "adopt"
      /\ UNCHANGED <<recv, held, stdin, qfile, qold, status>>
  BY DEF LoadQueue, localVars, workerVars, outside, world, system
<1>0. PICK at \in InOrder(Source) : queue' = Loaded(Source, at)
  BY DEF LoadQueue
<1>2. status = "up"
  BY <1>1 DEF ExitedStill
<1>3. Serving = FALSE /\ Serving' = TRUE
  BY <1>1, <1>2 DEF Serving
<1>4. recv = None
  BY <1>1, <1>2 DEF CloseOrder
<1>5. \A t \in Threads : held[t] = None
  BY <1>1, <1>2 DEF EntryShape, NoWorkerYet, HeldApart
<1>6. \A e \in Range(queue') : e # None
  BY <1>0, LoadedType DEF Range
<1>7. LiveEntries' = Range(queue')
  BY <1>1, <1>5, <1>6 DEF LiveEntries
<1>8. Saved = (Lines \ (LongLines \cup CommentLines)) \cap Range(Source)
  <2>1. Range(<< >>) = {}
    BY EmptyRange
  <2>2. QED
    BY <2>1 DEF Saved, Loadable, Source
<1>10. ASSUME NEW l \in Lines
       PROVE  (\E e \in Range(queue') : e.line = l)
                 <=> l \notin LongLines \cup CommentLines /\ l \in Range(Source)
  <2>1. ASSUME NEW e \in Range(queue'), e.line = l
        PROVE  l \notin LongLines \cup CommentLines /\ l \in Range(Source)
    <3>1. PICK i \in EntryAt(Source) :
             e.line = IF Source[i] \in LongLines THEN Garbage ELSE Source[i]
      BY <1>0, LoadedLines
    <3>2. l = Source[i] /\ l \notin LongLines
      BY <2>1, <3>1
    <3>3. l \notin CommentLines /\ i \in DOMAIN Source
      BY <3>1, <3>2 DEF EntryAt
    <3>4. QED
      BY <3>2, <3>3 DEF Range
  <2>2. ASSUME l \notin LongLines \cup CommentLines, l \in Range(Source)
        PROVE  \E e \in Range(queue') : e.line = l
    <3>1. PICK i \in DOMAIN Source : l = Source[i]
      BY <2>2 DEF Range
    <3>2. i \in EntryAt(Source)
      BY <2>2, <3>1 DEF EntryAt
    <3>3. QED
      BY <1>0, <2>2, <3>1, <3>2, LoadedLines
  <2>3. QED
    BY <2>1, <2>2
<1>11. Pending' = Lines \cap ({recv'} \cup {e.line : e \in LiveEntries'})
  BY <1>3 DEF Pending
<1>12. Pending' = Saved
  BY <1>1, <1>4, <1>7, <1>8, <1>10, <1>11
<1>13. Saved' = Saved
  BY <1>1 DEF Saved, Loadable
<1>14. QED
  BY <1>1, <1>3, <1>12, <1>13, PromiseResume

LEMMA StartupPromise ==
    ASSUME TypeOK, Shape, EntryShape, ExitedStill, CloseOrder, FileShape,
           Startup
    PROVE  Promise!Next \/ UNCHANGED <<Serving, stdin, Pending, Saved>>
<1> USE ThreadsAssumption DEF TypeOK, PcType, Procs
<1>1. CASE LoadQueue
  BY <1>1, ResumeStep
<1>2. CASE AdoptOld
  <2>1. /\ pc[Main] = "adopt" /\ pc'[Main] = "start"
        /\ UNCHANGED <<queue, held, recv, stdin, status>>
    BY <1>2 DEF AdoptOld, sharedVars, entries, localVars, workerVars, outside,
       world, system
  <2>2. Loadable' = Loadable
    BY <1>2 DEF AdoptOld, Loadable
  <2>3. QED
    BY <2>1, <2>2, LiveSame, PromiseStutter
<1>3. CASE StartThreads
  <2>1. /\ pc[Main] = "start" /\ pc'[Main] = "recv"
        /\ UNCHANGED <<queue, held, recv, stdin, status>>
    BY <1>3 DEF StartThreads, entries, localVars, workerVars, outside, world,
       system
  <2>2. Loadable' = Loadable
    BY <1>3 DEF StartThreads, FileShape, Loadable
  <2>3. QED
    BY <2>1, <2>2, LiveSame, PromiseStutter
<1>4. CASE StartFails
  <2>1. /\ Serving' = FALSE /\ UNCHANGED stdin
        /\ pc[Main] \in {"init", "start"}
    BY <1>4 DEF StartFails, Serving, world
  <2>2. Saved' = Saved
    BY <1>4 DEF StartFails, FileShape, Loadable, Saved
  <2>3. Pending' = {}
    BY <2>1 DEF Pending
  <2>4. CASE Serving = TRUE
    BY <2>1, <2>2, <2>3, <2>4, PromiseDie
  <2>5. CASE Serving = FALSE
    BY <2>1, <2>2, <2>3, <2>5 DEF Pending
  <2>6. QED
    BY <2>4, <2>5, ServingBoolean
<1>5. QED
  BY <1>1, <1>2, <1>3, <1>4 DEF Startup

\* A line is accepted; add_entry only puts it into an entry.
LEMMA ReceivePromise ==
    ASSUME TypeOK, Shape, EntryShape, ExitedStill, CloseOrder, receive_loop
    PROVE  Promise!Next \/ UNCHANGED <<Serving, stdin, Pending, Saved>>
<1> USE ThreadsAssumption, LinesAssumption
      DEF TypeOK, PcType, OutsideType, Procs
<1>1. ASSUME NEW l \in Lines, Receive(l) PROVE Promise!Next
  <2>1. /\ pc[Main] = "recv" /\ pc'[Main] = "add" /\ l \in stdin
        /\ stdin' = stdin \ {l} /\ recv' = l
        /\ UNCHANGED <<queue, held, files, status>>
    BY <1>1 DEF Receive, entries, workerVars, system
  <2>2. status = "up"
    BY <2>1 DEF ExitedStill
  <2>3. Serving = TRUE /\ Serving' = TRUE
    BY <2>1, <2>2 DEF Serving
  <2>4. recv = None
    BY <2>1, <2>2 DEF CloseOrder
  <2>5. LiveEntries' = LiveEntries
    BY <2>1, LiveSame
  <2>6. Pending' = Pending \cup {l}
    BY <2>1, <2>3, <2>4, <2>5 DEF Pending
  <2>7. Saved' = Saved
    BY <2>1 DEF files, Saved, Loadable
  <2>8. QED
    BY <2>1, <2>3, <2>6, <2>7, PromiseAccept
<1>2. CASE AddEntry
  <2>1. /\ pc[Main] = "add" /\ pc'[Main] = "added" /\ recv' = None
        /\ UNCHANGED <<stdin, files, status>>
    BY <1>2 DEF AddEntry, disk, outside, world, system
  <2>2. LiveEntries' = LiveEntries \cup {Entry(entry_counter, recv)}
    BY <1>2, AddLive
  <2>3. status = "up"
    BY <2>1 DEF ExitedStill
  <2>4. Serving = TRUE /\ Serving' = TRUE
    BY <2>1, <2>3 DEF Serving
  <2>5. Entry(entry_counter, recv).line = recv
    BY DEF Entry
  <2>6. {e.line : e \in LiveEntries'} = {e.line : e \in LiveEntries} \cup {recv}
    BY <2>2, <2>5
  <2>7. /\ Pending = Lines \cap ({recv} \cup {e.line : e \in LiveEntries})
        /\ Pending' = Lines \cap ({recv'} \cup {e.line : e \in LiveEntries'})
    BY <2>4 DEF Pending
  <2>8. Pending' = Pending
    BY ONLY <2>1, <2>6, <2>7, LinesAssumption
  <2>9. Saved' = Saved
    BY <2>1 DEF files, Saved, Loadable
  <2>10. QED
    BY <2>1, <2>4, <2>8, <2>9
<1>3. CASE AddEntryWorker \/ EndOfInput \/ LeaveReceiveLoop
  <2>1. /\ pc[Main] # "init" /\ pc'[Main] # "init"
        /\ UNCHANGED <<queue, held, recv, stdin, files, status>>
    BY <1>3 DEF AddEntryWorker, EndOfInput, LeaveReceiveLoop, sharedVars,
       entries, localVars, workerVars, disk, outside, world, system
  <2>2. Loadable' = Loadable
    BY <2>1 DEF files, Loadable
  <2>3. QED
    BY <2>1, <2>2, LiveSame, PromiseStutter
<1>4. QED
  BY <1>1, <1>2, <1>3 DEF receive_loop

LEMMA CreatePromise ==
    ASSUME TypeOK, EntryShape, ExitedStill, NEW c \in Creators,
           create_new_worker(c)
    PROVE  UNCHANGED <<Serving, stdin, Pending, Saved>>
<1> USE ThreadsAssumption DEF TypeOK, PcType, OutsideType, Procs, Creators
<1>1. /\ pc[Main] = "init" <=> pc'[Main] = "init"
      /\ UNCHANGED <<recv, stdin, files, status>>
  BY DEF create_new_worker, CreateNotNeeded, CreateThread, CountWorker,
     CreateFails, AfterCreate, localVars, disk, outside, world, system
<1>2. LiveEntries' = LiveEntries
  <2>1. ASSUME NEW t \in Threads, NEW h \in Handles, CreateThread(c, t, h)
        PROVE  LiveEntries' = LiveEntries
    <3>1. status = "up"
      BY <2>1 DEF CreateThread, ExitedStill
    <3>2. QED
      BY <2>1, <3>1, CreateLive
  <2>2. CASE CreateNotNeeded(c) \/ CountWorker(c) \/ CreateFails(c)
    BY <2>2, LiveSame DEF CreateNotNeeded, CountWorker, CreateFails, entries,
       localVars, workerVars
  <2>3. QED
    BY <2>1, <2>2 DEF create_new_worker
<1>3. Loadable' = Loadable
  BY <1>1 DEF files, Loadable
<1>4. QED
  BY <1>1, <1>2, <1>3, PromiseStutter

\* A worker completes an entry, or moves it.
LEMMA WorkerPromise ==
    ASSUME TypeOK, EntryShape, ExitedStill, NEW t \in Threads,
           thread_worker(t)
    PROVE  Promise!Next \/ UNCHANGED <<Serving, stdin, Pending, Saved>>
<1> USE ThreadsAssumption DEF TypeOK, PcType, OutsideType, Procs
<1>1. /\ pc'[Main] = pc[Main]
      /\ UNCHANGED <<recv, stdin, files, status>>
  BY DEF thread_worker, WorkerLoop, FetchLock, FetchPop, FetchEmpty,
     FetchRegister, SkipInvalid, SkipMissing, SendAccepted, RemoveFile,
     SendConflict, SendFailed, DownLock, Requeue, Release, ThreadExit,
     localVars, disk, outside, world, system
<1>2. status = "up"
  BY DEF ExitedStill, thread_worker, WorkerLoop, FetchLock, FetchPop,
     FetchEmpty, FetchRegister, SkipInvalid, SkipMissing, SendAccepted,
     RemoveFile, SendConflict, SendFailed, DownLock, Requeue, Release,
     ThreadExit
<1>3. Loadable' = Loadable
  BY <1>1 DEF files, Loadable
<1>4. CASE LiveEntries' = LiveEntries
  BY <1>1, <1>3, <1>4, PromiseStutter
<1>5. ASSUME held[t] # None, held' = [held EXCEPT ![t] = None],
             queue' = queue
      PROVE  Promise!Next \/ UNCHANGED <<Serving, stdin, Pending, Saved>>
  <2>1. LiveEntries' \subseteq LiveEntries
        /\ LiveEntries \subseteq LiveEntries' \cup {held[t]}
    BY <1>5, CompleteLive
  <2>2. Serving' = Serving /\ Serving \in BOOLEAN
    BY <1>1 DEF Serving
  <2>3. CASE Serving = FALSE
    BY <1>1, <1>3, <2>2, <2>3 DEF Pending, Saved
  <2>4. CASE Serving = TRUE
    <3> DEFINE l == held[t].line
    <3>1. Pending' \subseteq Pending
      BY <1>1, <2>1, <2>2, <2>4 DEF Pending
    <3>2. Pending \subseteq Pending' \cup {l}
      BY <1>1, <2>1, <2>2, <2>4 DEF Pending
    <3> HIDE DEF l
    <3>3. CASE l \in Pending /\ l \notin Pending'
      <4>1. Pending' = Pending \ {l}
        BY <3>1, <3>2, <3>3
      <4>2. Saved' = Saved
        BY <1>3 DEF Saved
      <4>3. QED
        BY <1>1, <2>2, <2>4, <3>3, <4>1, <4>2, PromiseFinish
    <3>4. CASE ~(l \in Pending /\ l \notin Pending')
      <4>1. Pending' = Pending
        BY <3>1, <3>2, <3>4
      <4>2. QED
        BY <1>1, <1>3, <2>2, <4>1 DEF Saved
    <3>5. QED
      BY <3>3, <3>4
  <2>5. QED
    BY <2>2, <2>3, <2>4
<1>6. CASE FetchLock(t)
  <2>1. CASE held[t] # None
    BY <1>5, <1>6, <2>1 DEF FetchLock, Complete
  <2>2. CASE held[t] = None
    BY <1>4, <1>6, <2>2, LiveSame DEF FetchLock
  <2>3. QED
    BY <2>1, <2>2
<1>7. CASE DownLock(t)
  <2>1. CASE held[t] # None /\ take_new[t]
    BY <1>5, <1>7, <2>1 DEF DownLock, Complete
  <2>2. CASE ~(held[t] # None /\ take_new[t])
    BY <1>4, <1>7, <2>2, LiveSame DEF DownLock
  <2>3. QED
    BY <2>1, <2>2
<1>8. CASE FetchPop(t)
  BY <1>2, <1>4, <1>8, PopLive
<1>9. CASE Requeue(t)
  BY <1>4, <1>9, RequeueLive
<1>10. CASE \/ WorkerLoop(t) \/ FetchEmpty(t) \/ FetchRegister(t)
            \/ SkipInvalid(t) \/ SkipMissing(t) \/ SendAccepted(t)
            \/ RemoveFile(t) \/ SendConflict(t) \/ SendFailed(t)
            \/ Release(t) \/ ThreadExit(t)
  <2>1. UNCHANGED <<queue, held>>
    BY <1>10 DEF WorkerLoop, FetchEmpty, FetchRegister, SkipInvalid,
       SkipMissing, SendAccepted, RemoveFile, SendConflict, SendFailed,
       Release, ThreadExit, sharedVars, entries, localVars, workerVars
  <2>2. QED
    BY <1>4, <2>1, LiveSame
<1>11. QED
  BY <1>6, <1>7, <1>8, <1>9, <1>10 DEF thread_worker

\* The dump saves lines when .new becomes the queue file.
LEMMA ManagerPromise ==
    ASSUME TypeOK, Shape, ExitedStill, FileShape, Accepted, Accepted',
           thread_manager
    PROVE  Promise!Next \/ UNCHANGED <<Serving, stdin, Pending, Saved>>
<1> USE ThreadsAssumption DEF TypeOK, PcType, OutsideType, Procs
<1>1. /\ pc'[Main] = pc[Main]
      /\ UNCHANGED <<recv, stdin, status, queue, held>>
  BY DEF thread_manager, ManagerRound, ManagerLock, SkipCheckpoint,
     StartCheckpoint, Drain, FinalCheckpoint, ManagerExit, OpenNew,
     transaction_checkpoint, DumpQueueNext, DumpProgressNext, DumpWrite,
     RemoveOld, RenameQueueToOld, RenameNewToQueue, RemoveBackup, TruncateLog,
     sharedVars, entries, localVars, workerVars, outside, world, system
<1>2. LiveEntries' = LiveEntries
  BY <1>1, LiveSame
<1>3. CASE RenameNewToQueue
  <2>1. pc[Mgr] = "ckinstall"
    BY <1>3 DEF RenameNewToQueue
  <2>2. status = "up" /\ pc[Main] # "init"
    BY <2>1 DEF ExitedStill, Shape, StartShape
  <2>3. Serving = TRUE /\ Serving' = TRUE
    BY <1>1, <2>2 DEF Serving
  <2>4. Pending' = Pending
    BY <1>1, <1>2, <2>3 DEF Pending
  <2>5. Saved' \in SUBSET (Lines \ stdin)
    BY <1>1, SavedAccepted
  <2>6. QED
    BY <1>1, <2>3, <2>4, <2>5, PromiseSave
<1>4. CASE ~RenameNewToQueue
  <2>1. Loadable' = Loadable
    <3>1. CASE RemoveOld
      BY <3>1 DEF RemoveOld, FileShape, Loadable
    <3>2. CASE RenameQueueToOld
      BY <3>2 DEF RenameQueueToOld, Backup, FileShape, Loadable
    <3>3. CASE RemoveBackup
      BY <3>3 DEF RemoveBackup, FileShape, Loadable
    <3>4. CASE \/ ManagerRound \/ ManagerLock \/ SkipCheckpoint \/ Drain
               \/ ManagerExit \/ DumpQueueNext \/ DumpProgressNext
               \/ TruncateLog \/ StartCheckpoint \/ FinalCheckpoint \/ DumpWrite
      BY <3>4 DEF ManagerRound, ManagerLock, SkipCheckpoint, Drain,
         ManagerExit, DumpQueueNext, DumpProgressNext, TruncateLog,
         StartCheckpoint, FinalCheckpoint, DumpWrite, disk, files, Loadable
    <3>5. QED
      BY <1>4, <3>1, <3>2, <3>3, <3>4
         DEF thread_manager, transaction_checkpoint
  <2>2. QED
    BY <1>1, <1>2, <2>1, PromiseStutter
<1>5. QED
  BY <1>3, <1>4

\* The process ends, by itself or killed.
LEMMA ProcessPromise ==
    ASSUME TypeOK, Shape, ExitedStill,
           \/ Signal \/ \E p \in {Main, Mgr, Sig} : logc_shutdown(p)
           \/ Timeout \/ Restart
    PROVE  Promise!Next \/ UNCHANGED <<Serving, stdin, Pending, Saved>>
<1> USE ThreadsAssumption DEF TypeOK, PcType, OutsideType, Procs
<1>1. UNCHANGED <<stdin, files>>
  BY DEF Signal, logc_shutdown, Shutdown, ExitProcess, Timeout, Restart, disk,
     outside, world
<1>2. Loadable' = Loadable /\ Saved' = Saved
  BY <1>1 DEF files, Loadable, Saved
<1>3. ASSUME Serving' = FALSE
      PROVE  Promise!Next \/ UNCHANGED <<Serving, stdin, Pending, Saved>>
  <2>1. Pending' = {}
    BY <1>3 DEF Pending
  <2>2. CASE Serving = TRUE
    BY <1>1, <1>2, <1>3, <2>1, <2>2, PromiseDie
  <2>3. CASE Serving = FALSE
    BY <1>1, <1>2, <1>3, <2>1, <2>3 DEF Pending
  <2>4. QED
    BY <2>2, <2>3, ServingBoolean
<1>4. CASE Restart
  BY <1>3, <1>4 DEF Restart, Serving
<1>5. ASSUME NEW p \in {Main, Mgr, Sig}, ExitProcess(p)
      PROVE  Promise!Next \/ UNCHANGED <<Serving, stdin, Pending, Saved>>
  BY <1>3, <1>5 DEF ExitProcess, Serving
<1>6. CASE Signal \/ Timeout \/ \E p \in {Main, Mgr, Sig} : Shutdown(p)
  <2>1. /\ pc[Main] = "init" <=> pc'[Main] = "init"
        /\ UNCHANGED <<recv, queue, held, status>>
    BY <1>6 DEF Signal, Timeout, Shutdown, sharedVars, entries, localVars,
       workerVars, outside, system
  <2>2. QED
    BY <1>1, <1>2, <2>1, LiveSame, PromiseStutter
<1>7. QED
  BY <1>4, <1>5, <1>6 DEF logc_shutdown

\* Every step is a step of Collector or leaves its variables alone.
LEMMA PromiseStep ==
    ASSUME TypeOK, Shape, EntryShape, ExitedStill, CloseOrder, FileShape,
           Accepted, Accepted', [Next]_vars
    PROVE  [Promise!Next]_<<Serving, stdin, Pending, Saved>>
<1>1. CASE UNCHANGED vars
  <2>1. UNCHANGED <<pc, status, recv, stdin, queue, held, qfile, qold>>
    BY <1>1 DEF vars, sharedVars, entries, localVars, workerVars, disk, files,
       outside, world, system
  <2>2. QED
    BY <2>1, LiveSame, PromiseStutter DEF Loadable
<1>2. CASE Next
  BY <1>2, StartupPromise, ReceivePromise, CreatePromise, WorkerPromise,
     ManagerPromise, ProcessPromise DEF Next
<1>3. QED
  BY <1>1, <1>2

LEMMA PromiseInit == Init => Promise!Init
<1> SUFFICES ASSUME Init PROVE Promise!Init
  OBVIOUS
<1>1. /\ pc[Main] = "init" /\ qfile = NoFile /\ qold = NoFile /\ stdin = Lines
  BY ThreadsAssumption DEF Init, Procs
<1>2. Serving = FALSE /\ Loadable = NoFile
  BY <1>1 DEF Serving, Loadable
<1>3. QED
  BY <1>1, <1>2 DEF Promise!Init

\* A line that was accepted stays pending until a worker is through with it,
\* only accepted lines are saved, and a new process resumes with what
\* transaction_checkpoint saved last (but for lines that do not fit the buffer
\* of read_queue_entries and lines that begin with a #), for any number of
\* lines, workers, dumps and crashes.
THEOREM CollectorRefinement == Spec => CollectorPromise
<1>1. /\ TypeInv /\ EntryShape /\ ExitedStill /\ CloseOrder /\ FileShape
      /\ Accepted /\ Accepted' /\ [Next]_vars
      => [Promise!Next]_<<Serving, stdin, Pending, Saved>>
  BY PromiseStep DEF TypeInv
<1>2. QED
  BY <1>1, PromiseInit, TypeInvCorrect, EntryInit, EntryStep, ExitedInit,
     ExitedStep, OrderInit, OrderStep, FileInit, FileStep, AcceptedInit,
     AcceptedStep, PTL DEF Spec, CollectorPromise, Promise!Spec, Pending, Saved
=============================================================================
