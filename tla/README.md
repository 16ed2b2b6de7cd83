# ModSecurity: a verification development

The repository is a collection of administration scripts and third-party
packages around one large program, ModSecurity 2.9 in C
(`src/PowerShellCookbook/ModSecurity-master`). This project is about that
program. Paths below are relative to that directory; `apache2/` is left out of
file names where nothing else has the name.

## 1. The system

A web server loads ModSecurity as a module. For each request a transaction
(`modsec_rec`) goes through five phases. In each, the rule engine walks the
rules of the phase: a rule names variables, transforms their values, asks an
operator and runs actions, which may change variables, skip rules, switch
settings or intercept the request. Filters hold back the bodies of request and
response until they have been inspected. The logging phase stores persistent
collections and writes an audit log entry. Audit log lines go through a pipe to
`mlogc`, a process of its own that submits the entries to a console.

| Component | State | Operations | Hard behaviour |
|---|---|---|---|
| collector `mlogc/mlogc.c` | queue, `in_progress`, cURL handles, worker count, server error flag, queue file with `.old` and `.new`, transaction log | receive a line, fetch, send, retry, recycle workers, checkpoint, shut down, restart | threads that read shared state without the mutex; a checkpoint in several renames; crash at any step; retries and server errors; shutdown that waits for workers |
| receive buffer (`receive_loop`) | a buffer and three indexes | read, search, queue, shift, drop | the pipe cuts the stream anywhere; events larger than the buffer; unsigned index arithmetic |
| `keep_entries_hack` | modification time and lock of a shared file | mark, remove | two processes, check and act in separate steps, lock released before the removal |
| persistent collections `persist_dbm.c`, `re_actions.c`, `modsecurity.c` | a DBM file with a lock; per transaction a copy, original values, dirty flag | initcol, setsid, setuid, setrsc, setvar, expirevar, deprecatevar, store with merge, remove stale | read, modify and write of several processes; expiry; crash and errors between steps; deletions decided on old data |
| request body `msc_reqbody.c`, input filter `apache2_io.c` | chunks in memory, temporary file, limits, forwarding state | read, store, spill to disk, join, retrieve, forward, clear | limits at their boundary, a failing switch to disk, forwarding once, a processor that rules change between two steps |
| phases and hooks `mod_security2.c`, `modsecurity.c`, output filter `apache2_io.c` | phase number, interception, allow scope, filter status, kept brigade | run a phase, intercept, filter a brigade, send an error page, log | hooks called in an order that depends on errors, builds and redirects; brigades cut anywhere |
| rule engine `re.c`, `apache2_config.c` | rules of a phase; mode, skip counter, marker; cache of transformed values | add, mark, remove, update rules; walk them; expand targets, transform, call the operator | three ways to skip in one loop; values cached for other rules |
| transformations `re_tfns.c`, `msc_util.c` | none | decode, normalise, encode in place | pointers into one buffer; the flag "changed" the engine relies on |
| lookup structures `msc_tree.c`, `acmp.c` | radix tree, automaton | add, prepare, look up | the shape depends on the order of insertion |
| operators `re_operators.c` | captures in TX | init, execute | what an earlier rule has left; integers, encodings |
| variables `re_variables.c` | none (the transaction) | generate targets | cacheable or not; claimed lengths |
| actions `re_actions.c`, `re.c` | action sets | parse, merge with defaults, update, execute, expand macros | one fact kept in three places |

The components interact through the transaction record (engine), the DBM file
and its lock (processes of the server), the pipe (server and collector), the
audit files (server, collectors) and the queue file (one process of the
collector and the next).

What makes them correct:

- collector: an accepted line is not lost while the process lives and has one
  owner at a time; audit files are deleted only after the console has them; the
  next process finds the last complete dump; every line is handled; shutdown
  ends, as far as the console answers and threads can be created;
- receive buffer: whole events, in order, whatever the reads return;
- shared audit files: removed by the second submission, and not before;
- collections: increments of concurrent transactions add up; nothing expired is
  seen; the file is locked while it is changed and unlocked on every path;
  every record has an end;
- request body: the handler gets the body that was inspected, whole, once, in
  order, or nothing is silently missing; limits hold; no temporary file is left;
- transaction: phases once and in order; nothing of a response leaves before it
  was inspected; what leaves is the whole response; what is relevant is logged;
- rule engine: exactly the rules run that the directives call for; an operator
  sees the transformed value of its target, cached or not;
- functions: see the properties of run `functions`.

## 2. Modules

| Module | What it is | Code |
|---|---|---|
| `Mlogc` | the collector: main, management, signal and worker threads, files, crash and restart | `mlogc.c` |
| `AtomicQueueFile` | abstract: a list that is replaced as a whole | what the queue file is for |
| `Collector` | abstract: what happens to a line, across crashes | what the collector is for |
| `MCMlogc` | instance for TLC | |
| `MlogcSafety` | proofs about `Mlogc`: safety, then the refinements | |
| `MlogcReceive` | `receive_loop` byte by byte | `mlogc.c` 2044-2230 |
| `MlogcReceiveSafety` | proofs about `MlogcReceive` | |
| `MlogcKeep` | two collectors that share audit files | `keep_entries_hack` |
| `MlogcKeepSafety` | proofs about `MlogcKeep` | |
| `Collections`, `MCCollections` | processes that share a file of collections | `persist_dbm.c`, the collection actions of `re_actions.c`, `modsecurity_persist_data` |
| `CollectionsSafety` | proofs about `Collections` | |
| `RequestBody`, `MCRequestBody` | the body from the network to the handler | `msc_reqbody.c`, `read_request_body` and `input_filter` of `apache2_io.c`, `modsecurity_tx_init`, `hook_request_late` |
| `RequestBodySafety` | proofs about `RequestBody` | |
| `Transaction`, `MCTransaction` | one transaction: hooks, phases, interception, output filter, decision to log | `mod_security2.c`, `modsecurity.c`, `apache2_io.c`, `apache2_util.c` |
| `TransactionSafety` | proofs about `Transaction` | |
| `RuleEngine` | the rules of a phase: built by directives, walked by the loop | `add_rule`, `add_marker` of `apache2_config.c`; `msre_ruleset_process_phase` and removal in `re.c` |
| `RuleEngineSafety` | proofs about `RuleEngine` | |
| `RuleTargets`, `MCRuleTargets` | one rule after another on the same values | `msre_rule_process_normal`, `execute_operator` of `re.c` |
| `RuleTargetsSafety` | proofs about `RuleTargets` | |
| `Transformations` | functions on strings | `re_tfns.c`, decoders of `msc_util.c` |
| `Lookup` | radix tree, phrase automaton | `msc_tree.c`, `acmp.c`, address lists of `msc_util.c` |
| `Operators` | what an operator makes of parameter and value | `re_operators.c` |
| `Variables` | what a variable generates | `re_variables.c` |
| `Actions` | lists of targets and actions, merging, updates, execution, macros | `re_actions.c`, `re.c`, updates in `apache2_config.c` |
| `MCFunctions` | one question after the other to the five modules above | |

`Actions` extends `Variables`, which extends `Transformations`, as does
`Operators`; `MCFunctions` extends `Actions` and instantiates `Operators` and
`Lookup`. `Mlogc` instantiates its two abstract specifications.

### Mlogc

Variables keep the names of the globals of `mlogc.c`. A thread is a program
counter; local variables that survive a step (`held`, `take_new`, `curl`,
`num_requests`) are functions of the thread. The thread mutex is a variable. A
critical section is one step unless its intermediate states can be seen by code
that does not take the mutex: `transaction_checkpoint` and the tests of
`thread_manager` do not, so popping an entry and registering it, putting it
back, and creating and counting a worker are separate steps. The dump reads the
queue index by index and then the hash. APR's iteration over a hash has fetched
the node it visits next; once a worker has set or deleted an entry during it
(`Disturbed` sets `stale`) that node may be in the list of free nodes, so the
iteration may go on to nodes that have left the hash (`Astray`) and may end
before it has met all that are in it. Each rename, removal and truncation of
`transaction_checkpoint` is a step, as are the two parts of
`transaction_log_init`, which may fail (`StartFails`: the queue file cannot be
read to its end, the transaction log cannot be opened). `read_queue_entries`
makes entries of the lines that do not begin with a `#` (`EntryAt`, `Loaded`);
that `EntryAt` is about positions of the file, and not a selection by a
recursive operator, is for the sake of the proofs. `Restart` may happen between any two steps and stands
for a crash or kill followed by a new process. The console answers 200
(`SendAccepted`), 409 (`SendConflict`) or fails (`SendFailed`). A line is a
model value; that it does not match, has an empty audit file, begins with a `#`
or is longer than the buffer of `read_queue_entries` is given by sets of lines.
`num_requests` has no bound: it counts every entry, and the limit is tested only
after one that matched and could be opened. History: `sent`,
`done`, `steady`.

### MlogcReceive

A byte is the pair of its event and its place there, so that what is queued can
be compared with what was sent; the end of line has place 0. The web server is
external: it writes one event after the other (`Send`), and a read returns any
number of the bytes that are there. The buffer, its three indexes and the flags
are those of `receive_loop`; a turn of the outer loop is a read, any number of
turns of the search, and one of shift, drop or nothing. `Recycled` says whether
the buffer begins with old contents.

### Collections

`db` is the DBM file, `lock` its exclusive lock, taken by `collection_store`
from `apr_sdbm_lock` to `apr_sdbm_unlock`; every other access is one step that
needs the lock to be free. A collection is a record of values, expiry times
(`__expire_...`) and `LAST_UPDATE_TIME`. `KEY` and `UPDATE_COUNTER` are
variables like others. A transaction goes from `retrieve` (with `reopen` when
the collection has expired: the file is closed and opened again to delete it)
to `rules` (any sequence of the actions), `lock`, `reread`, `write`, `clean`
and, in one of a hundred transactions in the code and at any time here,
`stale` and `delete`. Opening, locking and writing may fail (`IoErrors`), the
process may die anywhere (`Crash`). `SameName` says whether the name under
which original values are recorded is the name of the file: it is for
`initcol`, not for `setsid`, `setuid` and `setrsc`. History: `net`.

Left out: values that are not numbers, `IS_NEW`, `CREATE_TIME`, `UPDATE_RATE`,
changing `TIMEOUT` or `__expire_KEY` by name, damaged records, a second
collection in one transaction, arithmetic beyond 32 bits. A record that is too
large for the file is a failing write. Locks of the file are locks of a
process; threads of one process, which such a lock does not keep apart, are not
modelled.

### RequestBody

A body is the sequence of its unit numbers, so loss, repetition and reordering
show in what the handler receives (`got`). The array of chunks is kept as one
sequence of units that is cut every `ChunkCapacity` units, or not at all once
the chunks are `joined`. `tx` is the record of the body fields
of `modsec_rec`; the functions of `msc_reqbody.c` are operators from such a
record to the set of their results (several where a file operation may fail).
The actions are the calls of the server and of the handler: a brigade arrives or
fails, a bucket is stored, the body ends, the handler reads `n` units, the
request is cleaned up. A state `crashed` stands for reading a NULL pointer.

### Transaction

`msr` holds the fields the hooks look at. The rules of a phase are any outcome
of `msre_ruleset_process_phase`; the response is a sequence of numbers cut into
brigades; what the server does after an error (an error page through the
filters, an internal redirect, a lost context) is external and chosen
nondeterministically. `cfg.early` tells the two builds apart (phase 1 at the
earliest hook or at fixups). Connection limits are the first hook. Not modelled:
a handler that fails after it began to write, `prepend` and `append` set in
phase 4. The loop that observes the buckets of a brigade
is given in closed form (`Observe`); that it equals the loop of the code was
evaluated for all small sizes, limits and brigades.

### RuleEngine and RuleTargets

`RuleEngine` first takes any sequence of directives (`AddRule`, `AddMarker`,
`RemoveRule`), which builds the array as the code does, and then walks it with
any outcome of every rule. `RunsAsWritten` compares the walk with `Expected`, a
definition over the directives as written, which knows nothing of modes and
counters.

`RuleTargets` looks into `msre_rule_process_normal`: one action is one turn of
one of its loops, over the rule's targets (`ExpandTarget`), the expanded ones
(`TakeTarget`, `PassGap`), the actions of the rule (`BuildList`) and the
transformations (`CallInLoop`, `Transform`). `pc` says which loop it is in. The
locals of a loop turn (`norm`, `path`, `last`, `k`, `value`, `changed`) are
variables that `Forget` sets back. A text is whatever the parameters `Text` and
`Tfn` make it, so two targets may have one text, and a transformation may leave
a text as it is. What a transformation returns is a parameter of its own,
`Reports`: it may say that it changed a text it did not change (`hexDecode`), or
say nothing of a change (section 6). `changed`, `tfnchanged` and the record in
the cache follow what it returns; `lastval` is `lastvarval`, the last value
stored with a reported change, which a record of "unchanged" repeats. The cache maps the first bytes of a text (`Prefix`) to a table
from paths to records; `StoreInCache` has the limit and the incremental mode.
History: `seen`, the calls of the operator, and `rule`, which stays until the
next rule starts so that the properties can speak of a rule that has ended.

### The functions

`Transformations`, `Operators`, `Variables`, `Lookup` and `Actions` have no
variables: the code they model keeps none between calls but for what it writes
to the transaction, which is an argument and part of the result. Strings are
sequences of bytes, followed by a NUL where the code relies on it. PCRE, DNS,
XML, ssdeep, libinjection and the hash engine are parameters. Beside the run,
`Transformations` was evaluated on the vectors of `tests/tfn/*.t` (all 260 that
are short enough) and `Operators` on 187 vectors of `tests/op/*.t`; it agrees
with all.

## 3. Runs

| Run | Bounds | Properties |
|---|---|---|
| `mlogc_workers` | 2 lines that are not submitted, 2 workers with 2 handles, failing thread creation, 1 periodic and the final dump, iterations that come to nodes freed earlier (`StrayReads`); symmetric lines, threads and handles; 3.0 million states | `TypeOK`, `MutexOwner`, `EntryOwnedOnce`, `HandleAccounting`, `SteadyEntriesDumped` |
| `mlogc_restart` | 2 lines, one that begins with a `#`; 1 worker, 1 periodic and the final dump, 1 restart; 2.5 million states | `PendingKept`, `AuditFileKept`; the refinements `QueueFileAtomic` and `CollectorPromise` |
| `mlogc_live` | 2 lines, one with an empty audit file; 1 worker, limit of 1 request per worker, signals, failing thread creation, `-f`; fairness, no symmetry; 103 000 states | `EveryLineHandled`, `ShutdownTerminates` |
| `receive` | 3 events of 0 to 7 bytes, buffer of 4, all ways to cut the stream | `EventsDelivered`, `LoopEnds` |
| `keep` | 2 collectors, 2 files, one of which each may submit twice | `RemovedAfterTwoSubmissions`, `FilesRemoved` |
| `collections` | 2 processes, 2 transactions, 1 key, 1 counter, 2 changes per transaction, 3 seconds, time limit 1 s; the file empty or with a record of the second before; errors and crashes | `TypeOK`, `LockHeldToStore`, `EveryCollectionExpires`, `NoExpiredValueSeen`, `EveryStoreCounted`, `IncrementsKept` |
| `reqbody` | bodies of 0 to 4 units, brigades and reads of up to 3, chunks of 2; limits below and above; engine modes, buffering, keeping, streams; failing files | `ForwardedWhole`, `NoHole`, `LimitsHold`, `TemporaryFileGone` |
| `transaction` | responses of up to 3 units in brigades of up to 2; all actions in both builds; all modes of the output filter; switched engines; ways to log; connection limits | `InspectedFirst`, `WholeResponse`, `AuditedWhenRelevant`, `PhasesInOrder` |
| `rules` | up to 4 directives, `skip` up to 2, any outcome of every rule | `RunsAsWritten` |
| `targets` | 3 rules of a phase; 4 variables, one that no transformation changes, two with one text, one that may not be cached; 3 transformations, one that always reports a change and one that is silent about one text; lists of up to 5 actions with `t:none` and `t:-x`; counting and negated targets, an exception, multiMatch; cache on, off, limited to 3 records, incremental; 538 500 states | `OperatorSeesTransformed`, `MultiMatchSeesEveryStep` |
| `functions` | strings of up to 5 bytes (paths: 7) over the bytes that mean something; lists of 3 addresses of 3 bits; 2 phrases of up to 4 letters; 2 rules after another; every variable; 2 actions in rule and update; a chain of 3 rules | `TransformsSound`, `LookupsExact`, `Utf8Exact`, `CapturesFresh`, `VariablesSound`, `InterceptAgrees`, `UpdatesConsistent`, `TextsReadBack` |
| `collections_atomic` (violated) | 2 transactions, 2 counters | `UpdatesAtomic`: a store reverts counters that its transaction has not touched, although `CHANGES:1214` says that updates of counters are atomic |

What the properties of the collector say:

- `MutexOwner`, `EntryOwnedOnce`, `HandleAccounting`: whoever is in a critical
  section owns the mutex, an entry has one place, a handle one owner.
- `SteadyEntriesDumped`: an entry that stays where it is from the beginning of a
  dump to its end is in the new file. For the queue this needs no lock, since
  entries come and go at its end only. For the hash it holds only while nobody
  changes the hash; an entry that stays there while others come and go can be
  missed, and the property says so (`ck.stale`).
- `PendingKept`: no accepted line is dropped while the process lives, and none
  at an exit at end of input. `AuditFileKept`: no audit file is removed that the
  console has not accepted.
- `QueueFileAtomic`, `CollectorPromise`: the queue file is replaced as a whole,
  and a new process resumes with what was dumped last. Two kinds of lines are
  dumped and not resumed, and the promise leaves them out: those too long for
  the buffer that reads the file, and those that begin with a `#`. A line of the
  second kind lies before or behind the other one in `mlogc_restart`.
- `EveryLineHandled`: a line is through some time unless the collector is told
  to stop. `ShutdownTerminates`: once `logc_shutdown` was called the process
  exits, or is in one of the deadlocks that follow a failed thread creation
  (`ShutdownStuck`), and in no other.

What the properties of the engine say:

- `ForwardedWhole`: a handler that sees the end of the body, when nothing failed
  and no rule rewrote it, has got exactly the body. `NoHole`: in blocking mode
  it has at any time a beginning of the body, even when files fail.
  `LimitsHold`: in blocking mode a handler gets no more than the limit;
  memory holds no more than its limit. `TemporaryFileGone`: after cleanup there
  is no file unless it is kept on purpose, and none is left open.
- `InspectedFirst`: no unit of a buffered response goes on before phase 4 has
  run and let it pass. `WholeResponse`: what the filter sends is the response,
  with what rules prepend and append around it. `AuditedWhenRelevant`: one entry
  when something asked for it, none otherwise. `PhasesInOrder`: the phases that
  ran are ascending, and after an interception only logging runs.
- `RunsAsWritten`: every chain, `skip`, `skipAfter`, marker and removal has the
  effect the directives ask for, whatever the rules find.
- `OperatorSeesTransformed`: without multiMatch the operator is called exactly
  once for every target that is left, in order, with what all transformations
  make of its value, whatever earlier rules left in the cache. Two kinds of
  cached targets are excepted from what is said of the value. One the cache can
  mistake (`Mistaken`: another variable's text begins alike but is not the same,
  or the rule has `t:-x`); section 7 shows why. And one that the list changes
  silently (`Silenced`: some transformation of it changes the text and returns
  0, as those of section 6 do for some texts), for the cached record may say
  "unchanged" and the operator then gets the text without the change.
  `MultiMatchSeesEveryStep`: with multiMatch and a list that is not empty, the
  operator sees no text that is not on the way, and every one that is, except
  those reached by a silent change, for which it is not called again. With
  `Reports` true to `Tfn` the exceptions for silent changes are empty.
- `TransformsSound`: decoders never write ahead of what they read; the flag
  "unchanged" is true (five functions excepted, section 6); a normal path stays
  the same; encoding is undone by decoding. `LookupsExact`: in a list with
  at most one length of netmask beside plain addresses, no two entries of which
  begin at the same address (`PlainList`), an address is found if and only if an
  entry covers it; a phrase is found only if it is there, and, as long as no
  phrase has more than three letters, always when it is there. Other lists and
  longer phrases can go wrong (section 6, and `Functions_phrases.cfg` in section
  7). `Utf8Exact`: exactly the shortest encodings pass. `CapturesFresh`: TX:0 to TX:9 are of the
  last capturing match. `VariablesSound`: what may be cached does not change
  under other rules; lengths are true. `InterceptAgrees`: number, record and
  table of actions agree after defaults, rule and update. `UpdatesConsistent`:
  an update of targets reaches whole chains, only them, and applied twice it
  changes nothing more. `TextsReadBack`: quoting and macros keep every byte.

Why these bounds: two workers are enough to compete for the mutex, the last
handle and an entry, and for one to change the hash while the entry of the other
stays in it; with one worker beside the dump every place of an entry
(queue, hand, hash) occurs during every step of the dump, and one restart gives
recovery from every state of the files. In a dump an iteration visits each entry
of the hash at most once: a second visit would only repeat a line. A buffer of four bytes with events of
up to seven has events that fit, just fit, just do not fit, and need two drops;
seven is the first length at which the end of a dropped event is also the end
of the full buffer.
Two transactions are enough to interfere between retrieving and storing, and
time 2 with limit 1 puts expiry before, at and after every step. Four units with
chunks of two and limits of two and three put every limit inside a brigade, at
its end and between two. Responses of three units with limits 1 and 3 do the
same for the output filter. Four directives hold a chain of two with a rule
before and after it, or a chain and a marker. Three rules are needed to fill,
extend and use the cache; a limit of 3 is reached inside a rule. The longest token of a transformation (`%uXXXX` and
the like) is cut at every place by strings of five bytes. For the theorems below
no bound matters.

Two larger mixtures are kept beside the runs, to be run by hand on `MCMlogc`
(each passes in less than a minute): `Mlogc_retries.cfg` has two workers that
submit, fail, put back and reach their limit of requests, with signals and
failing creation and no periodic dump (578 000 states, with symmetry), for
`TypeOK`, `MutexOwner`, `EntryOwnedOnce` and `HandleAccounting`;
`Mlogc_reload.cfg` has three lines, an ordinary one, one that begins with a `#`
and one that is too long, in every order in the queue file (640 000 states), for
`CollectorPromise`. The theorems of section 5 cover both.

Deadlock is not checked where the system may stop: the collector's process
exits, the files are gone, the transactions are done, the phase has ended.

## 4. Fairness

`mlogc_live`: threads that can run do (weak fairness of each thread), except
that a worker inside `curl_easy_perform` need not return: only connecting has a
timeout (`mlogc.c:1301`), none is set for the transfer. So both properties have
the hypothesis `SubmissionsReturn`, that no submission stays without an answer
for ever; it is a promise of the console and the network, not of this code, and
without it a worker stays counted and shutdown waits for ever. A thread
that waits for the mutex gets it some time (strong fairness of taking it: the
mutex is released again and again, and the system's mutexes do not starve a
waiter for ever); and time passes, so that the timeout of a server error ends.
`EveryLineHandled` has the further hypothesis that the console does not fail
every attempt for ever (`ConsoleAnswers`, strong fairness of an answer), without
which an entry would rightly be retried for ever. Thread creation may fail,
and a signal may arrive. `receive`: a read returns when there
is data or the pipe is closed, and the web server closes it some time. `keep`: a collector goes on, and submits every
file some time. The engine of one transaction is sequential code called by the
server; it has no liveness property of its own.

## 5. Proofs

For every value of the constants, under the assumptions that the modules name:
`Mlogc` and `Collections` (distinct identities, finite threads and handles,
types of options, positive delays and time limit); `RequestBody` (types of the
configurations, a chunk has room, NULL is no body); `Transaction` (types of the
configurations, marks are not units of a page); `MlogcKeep` (there are two
collectors); `MlogcReceive` (the buffer has room); `RuleTargets` (types of rules,
settings and variables; a transformation makes a text of a text and reports a
change or none, truly or not); `RuleEngine`
(a marker's name and NULL are not numbers of rules). The theorems about
`RuleEngine` have the hypothesis `SplitsChains = {}`, as the run has: the
directives contain no `skipAfter` that leads into a chain. `RuleEngine_split.cfg`
shows that they are false without it.

| Theorem | Statement |
|---|---|
| `MlogcSafety!TypeCorrect` | `Spec => []TypeOK` |
| `MlogcSafety!MutexOwnerCorrect` | `Spec => []MutexOwner` |
| `MlogcSafety!AuditFileKeptCorrect` | `Spec => []AuditFileKept` |
| `MlogcSafety!EntryOwnedOnceCorrect` | `Spec => []EntryOwnedOnce` |
| `MlogcSafety!HandleAccountingCorrect` | `Spec => []HandleAccounting` |
| `MlogcSafety!SteadyEntriesDumpedCorrect` | `Spec => []SteadyEntriesDumped` |
| `MlogcSafety!PendingKeptCorrect` | `Spec => []PendingKept` |
| `MlogcSafety!QueueFileRefinement` | `Spec => QueueFileAtomic` |
| `MlogcSafety!CollectorRefinement` | `Spec => CollectorPromise` |
| `MlogcReceiveSafety!EventsDeliveredCorrect` | `~Recycled => (Spec => []EventsDelivered)` |
| `MlogcKeepSafety!RemovedAfterTwoSubmissionsCorrect` | `Spec => []RemovedAfterTwoSubmissions` |
| `CollectionsSafety!TypesCorrect` | `Spec => []TypeOK` |
| `CollectionsSafety!LockCorrect` | `Spec => []LockHeldToStore` |
| `CollectionsSafety!ExpiryCorrect`, `NoExpiredCorrect` | `Spec => []EveryCollectionExpires`, `Spec => []NoExpiredValueSeen` |
| `CollectionsSafety!StoresCountedCorrect`, `IncrementsKeptCorrect` | `Spec => EveryStoreCounted`, `Spec => IncrementsKept` |
| `RequestBodySafety!TypeCorrect` | `Spec => []TypeOK` |
| `RequestBodySafety!ForwardedWholeCorrect`, `NoHoleCorrect` | `Spec => []ForwardedWhole`, `Spec => []NoHole` |
| `RequestBodySafety!LimitsHoldCorrect`, `TemporaryFileGoneCorrect` | `Spec => []LimitsHold`, `Spec => []TemporaryFileGone` |
| `TransactionSafety!TypeCorrect` | `Spec => []TypeOK` |
| `TransactionSafety!PhasesInOrderCorrect` | `Spec => PhasesInOrder` |
| `TransactionSafety!InspectedFirstCorrect`, `WholeResponseCorrect` | `Spec => []InspectedFirst`, `Spec => []WholeResponse` |
| `TransactionSafety!AuditedWhenRelevantCorrect` | `Spec => []AuditedWhenRelevant` |
| `RuleEngineSafety!RunsAsWrittenAlways` | `SplitsChains = {} => (Spec => RunsAsWritten)` |
| `RuleEngineSafety!ChainsFromTheStartAlways` | `SplitsChains = {} => (Spec => []ChainsFromTheStart)` |
| `RuleEngineSafety!WalkAlways` | `SplitsChains = {} => (Spec => []Inv)`, the invariant of both |
| `RuleTargetsSafety!TargetsTypeCorrect` | `Spec => []TypeOK` |
| `RuleTargetsSafety!OperatorSeesTransformedAlways` | `Spec => []OperatorSeesTransformed` |
| `RuleTargetsSafety!MultiMatchSeesEveryStepAlways` | `Spec => []MultiMatchSeesEveryStep` |

The arguments. Every inductive invariant was checked with TLC before it
was proved.

*Collector.* `TypeOK` is inductive only with `Shape`: a worker that sends holds
an entry and a handle, the dump has a file while it writes, nobody runs during
startup. `AuditFileKept` needs `AuditShape`: a worker about to delete a file
holds an entry that was accepted. `EntryOwnedOnce` needs `EntryShape`: entries
are numbered in ascending order, so a new one differs from all that live, and a
worker at certain places holds nothing. `HandleAccounting` is inductive with
these; its step is about cardinalities: the count is short by exactly the
creators between creating a worker and counting it (`Uncounted`).

*Checkpoint.* The dump runs without the mutex. `DumpCovers` says of an entry
that stays where it is during the dump that it is still to be visited, has just
been read, or is written, or that it is in the hash and the iteration was
disturbed; because entries are pushed and popped at the end only, what stays in
the queue keeps its index. At the final dump nothing is in the hash. `PendingKept` also needs the way to the exit:
`CloseOrder` relates the flags to the places of the threads, and `FinalDump` says
that at the final checkpoint no worker is alive, so the whole queue stays where
it is and is written, and that afterwards everything accepted is through or in
the queue file.

*Refinements.* The durable list of `AtomicQueueFile` is the queue file or else
`.old`; `FileShape` says which files exist between the renames, so that exactly
one step, the installation of `.new`, changes it. For `Collector` the lines
pending are those received, queued, held or in progress, and the saved ones are
those of the durable list that the next process reads back: what `InOrder` takes
from a file is exactly its lines at `EntryAt`. `Accepted` (no unread
line is held, queued or in a file) makes taking a line a step of the abstract
specification; then every action accepts, finishes, saves, dies, resumes or
changes nothing of the four.

*Receive buffer.* `Unread` is what lies in the buffer from the current event on,
followed by the pipe. `IsStream` says of it, byte by byte and so without
induction, that the event of every byte goes on to its end of line and the next
event follows. `BufferShape` keeps ends of lines out of the rest of the buffer,
where the code looks at one byte beyond the data: it needs the fresh buffer to
hold none, which is the hypothesis `~Recycled` (section 7 shows what happens
otherwise). `QueuedShape` says that what was queued are events before the
current one, and `MissingShape` that an event is dropped, or lies behind a
dropped one, only in a `Gap`: some event up to here was too large and nothing
was queued since. The first attempt at this proof refuted an earlier statement
of the property, by which an event is missing only right behind an oversized or
a missing one: an empty event may lie between them. The statement and the
bounds of the run were corrected.

*Shared audit files.* The lock plays no part, for it is released before the
removal. `FlagShape` says that the date of a file was set by a submission that
is over, so the collector that finds it set is in another one.

*Collections.* `LockHeldToStore` is inductive. `LimitShape` carries the time
limit of a copy from retrieval to the store. `CountShape` relates the copy's
`UPDATE_COUNTER` to the recorded original: equal while rules run, one more
while storing. `NetShape` says that the copy differs from the original by what
was added (`net`) as long as the transaction has only added. `StoredShape` says
that what was read again is what the file still holds when the copy is
written, which is where the lock is needed. The two action properties follow:
stored + (copy - original) = stored + what was added.

*Request body.* Units are numbered, so everything on the way is a run of
numbers. `BrigadeShape`: the brigade begins where the store ends and the
connection where the brigade ends. `StoredShape` and `StoreShape`: unless
something was lost, the store holds the units up to `bodyLen`, in memory or on
disk, within its limits. `ForwardShape`: the handler has the units up to the
cursor (chunk and offset, or place in the file), and the cursor is inside the
store. At the end of the body cursor, store and body end together.

*Transaction.* `OrderShape`: the phases that ran are ascending up to the current
one; with the guard of `modsecurity_process_phase` the action property follows.
`ContextShape`: a denied transaction is intercepted, an allow scope comes from a
phase that ran, relevance is counted exactly for what asked for an entry.
`HandlerShape`: while the filter observes, nothing was sent and what it keeps
and what is left make up the page; otherwise what was sent and what is left do.
`ErrorShape`: an error page replaces only a response of which nothing was sent.

*Rule engine.* The invariant has two parts. `ConfigInv` is about the array,
whatever directives and removals made it: chains are unbroken runs of directives
(`ChainShape`), a removal takes whole chains and none that is open (`GoneShape`),
an entry is a directive that is left or the place of a single rule
(`EntryShape`), entries are in the order of the directives with a place right
behind its rule (`OrderShape`), and nothing is missing: every directive that is
left has its entry and every rule that an earlier `skipAfter` names has its place
(`PlacedShape`). The last needs `awaited`: an id that is not written yet is still
waited for (`TargetShape`). `LoopShape` is about the walk. `Here` is the
directive passed last. In mode `NEXT_RULE` the rule expected is the first one
left behind `Here`, or, while `skip` counts, the one that many units further on
(`RunsNext`); a pending `skipAfter` (`skipped`) is exactly that of the chain the
loop is in. In `NEXT_CHAIN` it is the unit behind the end of the chain
(`LeavesChain`). In `SKIP_RULES` it is the unit behind the target, and no place of
the target was passed (`Skips`), so the first place reached is the least target,
and when the array ends there is none. `OneUnitLess` and `ChainedEnds` say how
units and ends of chains move with `Here`. The definition that `RunsAsWritten`
compares with is over directives and trace only, so the theorem is not about the
modes. `ChainsFromTheStart` follows: a unit begins with its first rule
(`UnitOrEnd`), so a rule inside a chain is expected only behind the one before
(`ChainRuns`).

*Rule targets.* `CacheShape` is about the cache between rules: a record stands
under its path, and if all variables that share its first bytes have one text,
it holds what the steps of that path make of the text, or says that they change
nothing, provided none of them changes it silently (`Holds`, `Quiet`). Both
conditions matter: without the first one variable's steps are taken for
another's, without the second a record lacks a change. `Deceived` is the
exception of the property in terms of a target, and `QuietAppend` and
`QuietStarts` carry quietness along the list. `ListShape` relates the list being built to the actions read so far
and, without `t:-x`, to the path that is looked up, and makes the record kept
(`last`) one for a beginning of the list. `LoopShape` says that the loop holds
the text after `k` steps, wherever it began, and that `changed` is right about
it, for only then may a record say "unchanged"; `LastShape` the same before the
last call. `MultiShape` says that with multiMatch every text up to the current
one was seen or was reached silently (`Met`), unless the call is just ahead. `SeenShape`, `SingleShape` and
`EveryShape` carry the two properties from target to target. The list of a rule,
the steps of a text and the removal of a name are recursive functions on an
interval. That such functions exist, and that they agree with their definitions
at every step, is proved in the module: induction over the natural numbers
(`Induct`) follows from the well-foundedness of proper inclusion of finite sets,
which the library states without an operator parameter, and `RecursionDefines`
from induction.

Only model-checked:

- liveness under fairness (`EveryLineHandled`, `ShutdownTerminates`, `LoopEnds`,
  `FilesRemoved`), which the prover does not do;
- the eight properties of `functions`: `Transformations`, `Lookup`, `Operators`,
  `Variables` and `Actions` declare RECURSIVE operators, about which the prover
  proves nothing.

## 6. Known limits of the code that the models show

Collector and collections:

- When `apr_thread_create` fails, `create_new_worker` calls `logc_shutdown`
  with the mutex locked or from the management thread: it then waits for
  itself, or the workers wait for the mutex and it for them. `ShutdownStuck`
  names these states, and `mlogc_live` shows that there are no others.
- A submission has no timeout once it is connected (1301): a console that stops
  answering keeps its worker, and shutdown waits for it.
- The dump iterates over `in_progress` without the mutex (646): an entry that
  stays in the hash can be missing from the new file if others were set or
  deleted meanwhile.
- After a signal the main thread goes on receiving; a line accepted after the
  final dump is lost. `PendingKept` is about exits at end of input.
- Lines of 4096 bytes and more, and lines that begin with a `#`, do not survive
  the queue file.
- Leaving workers use a pool that the creation of the next worker may destroy.
- After a crash one collector may submit a file twice and remove it on its own
  mark: `RemovedAfterTwoSubmissions` counts submissions, not consoles.
- Events that follow an oversized one may be dropped although they fit, until
  one is queued: the buffer is shifted only if an event was queued, and when a
  dropped event ends with the full buffer the next one is taken for its
  continuation.
- Collections of `setsid`, `setuid` and `setrsc` are never merged: original
  values are looked up under another name than they were recorded under.
- `deprecatevar` and unsetting have the same effect as an absolute set before
  a relative change: they are lost.

Bodies and phases:

- `modsecurity.c:352`: the choice of disk for a known long body is overwritten
  by memory, against the comment at 349.
- Read errors other than the limit and the timeout let the request through with
  what was read. `ForwardedWhole` excludes them (`lost`).
- Without blocking, the limit without files drops chunks, and a failed write to
  disk leaves a hole; the handler gets the rest. `NoHole` is about blocking mode.
- `apache2_io.c:88`: a rewritten stream is forwarded and then what remains of
  the original chunks.
- A kept PUT file is left open until the process ends.
- `mod_security2.c:1555`: `!conn_limits_filter_state == MODSEC_ENABLED` is never
  true; at 1457 every slot counts as the connection's own on Apache after 2.2.
- With the early build, an engine that is off for the server and on for the
  directory never runs phase 1.

Rules:

- The cache key is the first `sizeof(pointer)` bytes of the value (`re.c:2913`),
  not the pointer and not the value, against the comment at 2925.
- `t:-x` leaves the removed transformation in the path that is looked up.
- multiMatch with an empty list never calls the operator (3260), and calls it
  twice with one value when the last transformation does not change it.
- `skipAfter` with the id of a chain's first rule resumes inside the chain
  (`apache2_config.c:959`); removing that chain also removes the place to resume.
- `pause` sets the number of the interception without its record
  (`re_actions.c:607`); an update with `block` likewise (`re.c:713`); `skip` and
  `skipAfter` take the place of the disruptive action in the table only.
- An update of a chain's first rule that does not repeat `chain` cuts the chain
  (`re.c:1299`). Merging keeps the parent's flag for `block`.
- Removing actions of one kind changes the table while it is walked (`re.c:599`).
- The text generated for a rule does not escape quotes (`re.c:674`).

Functions:

- `compressWhitespace`, `normalizePath`, `utf8toUnicode` and `base64DecodeExt`
  can change a string and report that they have not. A cached target is then
  given to the operator without the change, and with multiMatch the operator is
  not called for it (`re.c:3126`, `3165`, `3260`): `Silenced` and `Silent` of
  `RuleTargets` except exactly such texts. `removeComments` copies
  the byte after a comment unseen; `normalizePathWin` leaves a backslash in runs
  of three separators; `cmdline` and `sqlHexDecode` stop at a NUL.
- Address lists: the same address with a second netmask is forgotten
  (`msc_tree.c:388`); the list of netmasks is reallocated without copying (267,
  417); only the first netmask of a node is applied (636); `/32`, `/128` and
  `/0` are refused (857).
- `acmp.c:417`: fail links go back one step only, so `@pm` can miss phrases;
  `pmFromFile` ignores phrases of one byte.
- Captures: more groups than the vector holds leave old captures; `verifyCC`,
  `verifyCPF` and `verifySSN` remove them without `capture`; operators that set
  TX:0 leave the others.
- `rsub` does not end on an empty match (`re_operators.c:551`). `gsbLookup`
  uses a buffer without an end (1823). UTF-8 up to 13FFFF passes (4296).
  A malformed answer of the httpBl service is a match (3764), and so is a missing
  file of `fuzzyHash` (3938).
- Variables: an error of a regular expression counts as a match
  (`re_variables.c:110`); `MATCHED_VARS`, `MATCHED_VARS_NAMES` and the streams
  are registered as cacheable although rules change them (3436, 3580), and
  `MATCHED_VARS` has a length that is not that of its value (2221);
  `FILES_TMP_CONTENT` is cut at NULs but has the length of the file (1176);
  `RESPONSE_HEADERS_NAMES` reads a missing table before phase 3 (2658);
  `FULL_REQUEST_LENGTH` leaves out the request line (2101).

## 7. Counterexamples kept beside the runs

These configurations state what a comment or document says of the program, and
TLC refutes it. They are run by hand, as `tlc -config <cfg> <module>`.

| Configuration, module | Property | What is said | What happens |
|---|---|---|---|
| `Mlogc_dumprace.cfg`, `MCMlogc` | `PendingEntriesDumped` | `mlogc-default.conf:29`: the queue file holds the pending entries, updated on every checkpoint | the dump runs between popping and registering an entry, or between withdrawing it and putting it back |
| `Mlogc_crash.cfg`, `MCMlogc` | `RecoveredFromLog` | `mlogc-default.conf:24`: the transaction log is used to recover data in case of a crash | nothing reads it |
| `MlogcReceive_recycled.cfg`, `MlogcReceive` | `WholeEventsInOrder` | `mlogc.c:2116`: the event up to the end of line is queued | the byte behind the data is compared with the end of line; in memory that is not zero a partial event is queued |
| `Collections_reset.cfg`, `MCCollections` | `StoredAsSet` | `re_actions.c:314`, `1618`: original values are recorded to calculate deltas | a counter that is set and then increased is stored as if it had not been set |
| `Collections_stale.cfg`, `MCCollections` | `OnlyStaleRemoved` | `modsecurity.c:239`: "Remove stale collections" | a collection that was renewed since it was found expired is deleted |
| `RequestBody_ctl.cfg`, `MCRequestBody` | `JoinedBodyInMemory` | `modsecurity.c:342`: URL-encoded bodies are always in memory | `ctl:requestBodyProcessor=URLENCODED` selects the processor for a body that went to disk; `msc_reqbody.c:511` reads NULL |
| `Transaction_partial.cfg`, `MCTransaction` | `CompleteAfterPhase4` | `mod_security2.c:1381`: the output filter is complete if phase 4 intercepts | with ProcessPartial it is still in progress (`apache2_io.c:906`) and the error page is filtered again |
| `RuleEngine_split.cfg`, `RuleEngine` | `ChainsFromTheStart` | a chain is evaluated from its first rule | `skipAfter` with the id of the first rule resumes in the chain; without such a target the property is a theorem (section 5) |
| `RuleTargets_prefix.cfg`, `MCRuleTargets` | `OperatorSeesOwnValue` | `re.c:2925`: the cache is keyed by the target | two values with the same first bytes share a record |
| `Functions_phrases.cfg`, `MCFunctions` | `EveryPhraseFound` | `CHANGES:1503`: `@pm` matches a set of phrases in parallel | phrases `1` and `2211`, text `221`: no match |

## 8. Not modelled, and the plan

Not modelled: the multipart parser, JSON and XML bodies, cookies and query
strings (`msc_parsers.c`), the text of audit and debug logs, the hash engine
(`msc_crypt.c`), Lua, the status engine, remote rules, geo and safe browsing
files, merging of directory contexts, the configuration of `mlogc`. They are
sequential parsing and formatting or input and output. libinjection is
third-party code. The nginx, IIS and standalone connectors are glue to servers
whose event loops are not in the repository. The rest of the repository is
scripts and packages without a program of their own. `PROJECT.json` lists each
with its reason.

Next:

1. Multipart parser: parts do not depend on how the body is cut into chunks.
2. Audit logging: an index line names a complete entry; serial log lines do not
   mix.
3. Liveness of collections: a transaction ends whatever others do.
