---------------------------- MODULE RequestBody ----------------------------
(***************************************************************************)
(* The request body of one transaction, from the brigades the server       *)
(* delivers to what the content handler reads: read_request_body and       *)
(* input_filter of apache2_io.c, the store of msc_reqbody.c, the set-up in *)
(* modsecurity_tx_init and the decisions of hook_request_late.             *)
(*                                                                         *)
(* A body is the sequence <<1, ..., n>> of its units, so that what the     *)
(* handler receives shows loss, repetition and reordering.  The handlers   *)
(* of the store are operators from the fields of the transaction (a        *)
(* record, as modsec_rec) to the set of their possible results.  Files can *)
(* fail to be created, written and removed; allocation never fails.        *)
(***************************************************************************)
EXTENDS Integers, Sequences, SequencesExt

CONSTANTS Configs,        \* the configurations (txcfg) under study
          MaxBody,        \* bound: units of a request body
          MaxBrigade,     \* HUGE_STRING_LEN: units of one brigade
          MaxRead,        \* bound: units the handler asks for in one call
          ChunkCapacity,  \* CHUNK_CAPACITY: units of one chunk in memory
          Null,           \* a NULL pointer
          Freed,          \* chunks whose data is partly freed
          Eos             \* the bucket that ends the body

ASSUME BodyBounds == /\ {MaxBody, MaxBrigade, MaxRead} \subseteq Nat
                     /\ ChunkCapacity \in Nat \ {0}

Processors == {"URLENCODED", "MULTIPART", "XML", "JSON"}

\* The directives refuse a limit that is not positive.
ASSUME ConfigsAssumption ==
    Configs \subseteq [enabled : {"On", "DetectionOnly"}, action : {"Reject", "Partial"},
                       bodyLimit : Nat, noFilesLimit : Nat, memLimit : Nat,
                       buffering : BOOLEAN, access : BOOLEAN, keepPut : BOOLEAN,
                       stream : BOOLEAN, ctl : SUBSET Processors]

ASSUME SentinelsAssumption == Null # Freed /\ {Null, Freed, Eos} \cap Seq(Nat) = {}

VARIABLES
    cfg,       \* txcfg, after the rules of phase 1
    tx,        \* the request body fields of modsec_rec
    net,       \* units the client has sent and nobody has read
    brigade,   \* bb_in: buckets read_request_body has not looked at
    pc,        \* where the transaction is
    status,    \* what hook_request_late answers: "DECLINED" lets through
    got,       \* units the content handler has received
    gotEos,    \* the content handler has seen the end of the body
    body,      \* the whole body (history)
    lost       \* a read or a store of body data has failed (history)

vars == <<cfg, tx, net, brigade, pc, status, got, gotEos, body, lost>>

Units(n) == [i \in 1..n |-> i]
First(n, s) == SubSeq(s, 1, IF n < Len(s) THEN n ELSE Len(s))
Rest(n, s) == SubSeq(s, n + 1, Len(s))
Minimum(a, b) == IF a < b THEN a ELSE b

Rejecting(c) == c.enabled = "On" /\ c.action = "Reject"
Result(t, rc) == [tx |-> t, rc |-> rc]
----------------------------------------------------------------------------
(* The store *)

\* The chunks are kept as the units in them, one after the other.  A chunk
\* is closed only when CHUNK_CAPACITY units are in it, so that all but the
\* last are full; end_raw joins them into one.
InChunks(t) == IF t.chunks = Null THEN <<>> ELSE t.chunks
ChunkSize(t) == IF t.joined THEN Len(t.chunks) ELSE ChunkCapacity
HasChunk(t, p) == IF t.joined THEN p = 1
                  ELSE (p - 1) * ChunkCapacity < Len(t.chunks)
Chunk(t, p) == SubSeq(t.chunks, (p - 1) * ChunkSize(t) + 1,
                      Minimum(p * ChunkSize(t), Len(t.chunks)))

\* modsecurity_tx_init: what the content type decides, with the processor a
\* rule of phase 1 may have set instead (ctl:requestBodyProcessor).  A
\* known Content-Length never selects the disk: line 361 undoes line 355.
TxInit(c, type, ctl, contentLength) ==
    [contentLength |-> contentLength,
     storage   |-> "memory",
     spill     |-> type # "form" /\ ~c.buffering,
     processor |-> IF ctl # "none" THEN ctl
                   ELSE CASE type = "form" -> "URLENCODED"
                          [] type = "multipart" -> "MULTIPART"
                          [] OTHER -> "none",
     error |-> FALSE, chunks |-> Null, joined |-> FALSE, length |-> 0, noFiles |-> 0,
     bodyLen |-> 0, file |-> Null, filename |-> FALSE, fd |-> FALSE,
     isRead |-> FALSE, seenEos |-> FALSE, ifStatus |-> "none",
     started |-> FALSE, position |-> 1, offset |-> 0, readAt |-> 0,
     stream |-> Null, streamChanged |-> FALSE, finished |-> FALSE,
     crashed |-> FALSE]

\* modsecurity_request_body_start_init: chunks in memory or a new file.
StartInit(t) ==
    IF t.storage = "memory"
    THEN {Result([t EXCEPT !.chunks = <<>>], 1)}
    ELSE {Result([t EXCEPT !.filename = TRUE, !.fd = TRUE, !.file = <<>>], 1),
          Result([t EXCEPT !.filename = TRUE], -1)}

\* modsecurity_request_body_start: a processor that cannot start is noted,
\* the body is stored all the same.
RequestBodyStart(t) ==
    LET fresh == [t EXCEPT !.length = 0]
        inits == {fresh} \cup
                 (IF t.processor \in {"MULTIPART", "XML", "JSON"}
                  THEN {[fresh EXCEPT !.error = TRUE]} ELSE {})
    IN  UNION {StartInit(s) : s \in inits}

\* Mutant: a short write is taken for a complete one.
StoreDiskShort(t, data) ==
    {Result([t EXCEPT !.file = IF t.fd THEN @ \o First(n, data) ELSE @], 1)
        : n \in 0..Len(data)}

\* modsecurity_request_body_store_disk: a failing write may have written
\* part of the data.
StoreDisk(t, data) ==
    (IF t.fd THEN {Result([t EXCEPT !.file = @ \o data], 1)} ELSE {})
    \cup {Result([t EXCEPT !.file = IF t.fd THEN @ \o First(n, data) ELSE @], -1)
             : n \in 0..(Len(data) - 1)}

\* The loop of the switch to disk: the chunks go to the file one by one and
\* are freed; the first failing write ends it, with the chunks written so
\* far freed.
SpillChunks(t) ==
    {IF r.rc > 0 THEN Result([r.tx EXCEPT !.chunks = Null], 1)
     ELSE Result([r.tx EXCEPT !.chunks =
                    IF Len(r.tx.file) >= ChunkCapacity THEN Freed ELSE @], -1)
        : r \in StoreDisk(t, InChunks(t))}

\* Mutant: the limit is compared before the new data is counted.
StoreMemoryLate(t, c, data) ==
    IF t.spill /\ ~c.buffering /\ t.length > c.memLimit
    THEN UNION {IF s.rc < 0 THEN {s}
                ELSE UNION {IF r.rc < 0 THEN {r} ELSE StoreDisk(r.tx, data)
                               : r \in SpillChunks(s.tx)}
                   : s \in StartInit([t EXCEPT !.storage = "disk"])}
    ELSE {Result([t EXCEPT !.chunks = InChunks(t) \o data,
                           !.length = @ + Len(data)], 1)}

\* modsecurity_request_body_store_memory.
StoreMemory(t, c, data) ==
    IF t.spill /\ ~c.buffering /\ t.length + Len(data) > c.memLimit
    THEN UNION {IF s.rc < 0 THEN {s}
                ELSE UNION {IF r.rc < 0 THEN {r} ELSE StoreDisk(r.tx, data)
                               : r \in SpillChunks(s.tx)}
                   : s \in StartInit([t EXCEPT !.storage = "disk"])}
    ELSE {Result([t EXCEPT !.chunks = InChunks(t) \o data,
                           !.length = @ + Len(data)], 1)}

\* The streaming processor sees the data first and may fail; the multipart
\* parser counts the part of it that is not in files.
Idle(t) == t.processor = "none" \/ t.error

NotInFiles(t, c, n) == IF Idle(t) THEN {IF c.buffering THEN n ELSE 0}
                       ELSE IF t.processor = "MULTIPART" THEN 0..n ELSE {n}

ProcessorErrors(t) == IF Idle(t) THEN {t.error}
                      ELSE IF t.processor = "URLENCODED" THEN {FALSE} ELSE BOOLEAN

Process(t, c, n) ==
    UNION {{[t EXCEPT !.noFiles = @ + k, !.error = e] : e \in ProcessorErrors(t)}
              : k \in NotInFiles(t, c, n)}

\* modsecurity_request_body_store.
RequestBodyStore(t, c, data) ==
    UNION {IF p.noFiles >= c.noFilesLimit /\ c.enabled = "On"
           THEN {Result(p, -5)}
           ELSE IF p.storage = "memory" THEN StoreMemory(p, c, data)
                                        ELSE StoreDisk(p, data)
              : p \in Process(t, c, Len(data))}

\* modsecurity_request_body_to_stream: the copy for the stream operators.
ToStream(t, c, data) ==
    [t EXCEPT !.stream = IF ~c.stream THEN @
                         ELSE IF @ = Null THEN data ELSE @ \o data]

\* modsecurity_request_body_end_raw: one chunk with the whole body.  It
\* copies the chunks, which are gone once the body went to disk.
EndRaw(t, c) ==
    IF t.chunks \in {Null, Freed} THEN [t EXCEPT !.crashed = TRUE]
    ELSE [t EXCEPT !.joined = TRUE,
                   !.length = IF c.bodyLimit > 0 THEN Minimum(@, c.bodyLimit)
                              ELSE @]

\* modsecurity_request_body_end; its return code is ignored.
RequestBodyEnd(t, c) ==
    LET closed == [t EXCEPT !.fd = IF t.storage = "disk" THEN FALSE ELSE @,
                            !.isRead = TRUE]
    IN  IF t.processor # "none" /\ ~t.error
        THEN CASE t.processor = "URLENCODED" -> {EndRaw(closed, c)}
               [] OTHER -> {[closed EXCEPT !.error = e] : e \in BOOLEAN}
        ELSE IF c.buffering THEN {EndRaw(closed, c)} ELSE {closed}

\* modsecurity_request_body_retrieve_start.
RetrieveStart(t) ==
    IF t.storage = "memory"
    THEN {Result([t EXCEPT !.started = TRUE, !.position = 1, !.offset = 0], 1)}
    ELSE (IF t.file # Null
          THEN {Result([t EXCEPT !.started = TRUE, !.fd = TRUE, !.readAt = 0], 1)}
          ELSE {})
         \cup {Result([t EXCEPT !.started = TRUE], -1)}

\* modsecurity_request_body_retrieve for at most n units: the data (Null if
\* there is no chunk), the transaction after the call, and 1 if there may
\* be more, 0 at the end, -1 on an error.
RetrieveMemoryKeepsOffset(t, n) ==      \* Mutant: the offset is not reset.
    IF ~HasChunk(t, t.position)
    THEN [data |-> Null, tx |-> t, rc |-> 0]
    ELSE LET left == Rest(t.offset, Chunk(t, t.position))
             all  == Len(left) <= n
             next == [t EXCEPT !.position = IF all THEN @ + 1 ELSE @,
                               !.offset = IF all THEN @ ELSE @ + n]
         IN  [data |-> First(n, left), tx |-> next,
              rc |-> IF HasChunk(t, next.position) THEN 1 ELSE 0]

RetrieveMemory(t, n) ==
    IF ~HasChunk(t, t.position)
    THEN [data |-> Null, tx |-> t, rc |-> 0]
    ELSE LET left == Rest(t.offset, Chunk(t, t.position))
             all  == Len(left) <= n
             next == [t EXCEPT !.position = IF all THEN @ + 1 ELSE @,
                               !.offset = IF all THEN 0 ELSE @ + n]
         IN  [data |-> First(n, left), tx |-> next,
              rc |-> IF HasChunk(t, next.position) THEN 1 ELSE 0]

RetrieveDisk(t, n) ==
    LET data == First(Minimum(n, ChunkCapacity), Rest(t.readAt, t.file))
    IN  [data |-> data, tx |-> [t EXCEPT !.readAt = @ + Len(data)],
         rc |-> IF data = <<>> THEN 0 ELSE 1]

Retrieve(t, n) ==
    CASE t.storage = "memory" -> {RetrieveMemory(t, n)}
      [] OTHER -> (IF t.fd THEN {RetrieveDisk(t, n)} ELSE {})
                  \cup {[data |-> Null, tx |-> t, rc |-> -1]}

\* Mutant: the file is removed but not closed first.
ClearLeavesOpen(t, c) ==
    LET freed == [t EXCEPT !.chunks = Null]
    IN  IF t.storage # "disk" \/ ~t.filename \/ c.keepPut THEN {freed}
        ELSE {[freed EXCEPT !.file = Null, !.filename = FALSE]}

\* modsecurity_request_body_clear: memory is released; the file is kept for
\* a PUT whose upload is kept, and removed otherwise.
RequestBodyClear(t, c) ==
    LET freed == [t EXCEPT !.chunks = Null]
    IN  IF t.storage # "disk" \/ ~t.filename THEN {freed}
        ELSE IF c.keepPut THEN {[freed EXCEPT !.filename = FALSE]}
        ELSE {[freed EXCEPT !.fd = FALSE, !.file = Null, !.filename = FALSE]}
             \cup {[freed EXCEPT !.fd = FALSE]}      \* the removal fails
----------------------------------------------------------------------------
(* Reading: read_request_body and hook_request_late *)

\* Phase 1 is over: the body is whatever the client sends, the processor
\* what its type or a rule says.
Init ==
    /\ cfg \in Configs
    /\ \E n \in 0..MaxBody, type \in {"form", "multipart", "other"},
          ctl \in {"none"} \cup cfg.ctl :
            /\ body = Units(n)
            /\ \E len \in {-1, n} : tx = TxInit(cfg, type, ctl, len)
    /\ net = body
    /\ brigade = <<>>
    /\ pc = "start"
    /\ status = "none"
    /\ got = <<>>
    /\ gotEos = FALSE
    /\ lost = FALSE

\* hook_request_late on the return code of read_request_body.
LateStatus(rc) ==
    CASE rc = -1 -> "500"
      [] rc = -4 -> "408"
      [] rc = -5 -> IF Rejecting(cfg) THEN "413" ELSE "phase2"
      [] rc \in {-6, -7} -> "400"
      [] OTHER -> "phase2"

\* read_request_body returns rc; any error is noted before phase 2 runs.
ReturnFromRead(t, rc) ==
    /\ tx' = [t EXCEPT !.error = @ \/ rc < 0]
    /\ pc' = IF rc < 0 /\ LateStatus(rc) # "phase2" THEN "cleanup" ELSE "phase2"
    /\ status' = IF rc < 0 /\ LateStatus(rc) # "phase2" THEN LateStatus(rc)
                 ELSE status
    /\ brigade' = <<>>

\* No access to the body: nothing is read and the filter does not run.
NoAccess ==
    /\ pc = "start"
    /\ ~cfg.access
    /\ ReturnFromRead(tx, 0)
    /\ UNCHANGED <<cfg, net, got, gotEos, body, lost>>

\* A Content-Length over the limit is refused before anything is read, but
\* only in blocking mode; -1 is an unknown length.
TooLong(t, c) == c.access /\ t.contentLength > c.bodyLimit /\ Rejecting(c)

RefuseLength ==
    /\ pc = "start"
    /\ TooLong(tx, cfg)
    /\ status' = "413"
    /\ pc' = "cleanup"
    /\ UNCHANGED <<cfg, tx, net, brigade, got, gotEos, body, lost>>

Start ==
    /\ pc = "start"
    /\ cfg.access
    /\ ~TooLong(tx, cfg)
    /\ \E r \in RequestBodyStart(tx) :
         IF r.rc < 0
         THEN ReturnFromRead(r.tx, -1)
         ELSE /\ tx' = r.tx
              /\ pc' = "reading"
              /\ UNCHANGED <<brigade, status>>
    /\ UNCHANGED <<cfg, net, got, gotEos, body, lost>>

\* ap_get_brigade delivers up to MaxBrigade units in one or two buckets; the
\* end of the body comes with the last units or alone.
GetBrigade ==
    /\ pc = "reading"
    /\ brigade = <<>>
    /\ ~tx.finished
    /\ \E n \in 0..Minimum(MaxBrigade, Len(net)), cut \in 0..MaxBrigade,
          eos \in BOOLEAN :
         /\ cut < n \/ cut = 0
         /\ eos => n = Len(net)
         /\ n > 0 \/ eos
         /\ net' = Rest(n, net)
         /\ brigade' = (IF cut > 0 THEN <<First(cut, net)>> ELSE <<>>)
                       \o (IF n > cut THEN <<Rest(cut, First(n, net))>> ELSE <<>>)
                       \o (IF eos THEN <<Eos>> ELSE <<>>)
    /\ UNCHANGED <<cfg, tx, pc, status, got, gotEos, body, lost>>

\* ap_get_brigade fails: incomplete, end of file, timeout, filter error,
\* general error.
GetBrigadeFails ==
    /\ pc = "reading"
    /\ brigade = <<>>
    /\ ~tx.finished
    /\ \E rc \in {-7, -6, -4, -3, -2, -1} : ReturnFromRead(tx, rc)
    /\ net' = <<>>                    \* the connection is of no more use
    /\ lost' = TRUE
    /\ UNCHANGED <<cfg, got, gotEos, body>>

\* One bucket with data: the limit, the copy for the stream operators, the
\* store, and what a failing store means in each mode.
ReadBucket ==
    /\ pc = "reading"
    /\ brigade # <<>>
    /\ Head(brigade) # Eos
    /\ LET data == Head(brigade)
           over == tx.bodyLen + Len(data) > cfg.bodyLimit
           seen == [ToStream(tx, cfg, data) EXCEPT !.bodyLen = @ + Len(data)]
       IN  IF over /\ Rejecting(cfg)
           THEN ReturnFromRead(tx, -5) /\ UNCHANGED lost
           ELSE \E r \in RequestBodyStore(seen, cfg, data) :
                  /\ lost' = (lost \/ r.rc < 0)
                  /\ IF r.rc < 0 /\ Rejecting(cfg)
                     THEN ReturnFromRead(r.tx, r.rc)
                     ELSE /\ tx' = [r.tx EXCEPT !.finished =
                                      @ \/ (over /\ cfg.action = "Partial")]
                          /\ brigade' = Tail(brigade)
                          /\ UNCHANGED <<pc, status>>
    /\ UNCHANGED <<cfg, net, got, gotEos, body>>

ReadEos ==
    /\ pc = "reading"
    /\ brigade # <<>>
    /\ Head(brigade) = Eos
    /\ tx' = [ToStream(tx, cfg, <<>>) EXCEPT !.finished = TRUE, !.seenEos = TRUE]
    /\ brigade' = Tail(brigade)
    /\ UNCHANGED <<cfg, net, pc, status, got, gotEos, body, lost>>

\* The brigade is done and reading is finished.  A NULL dereference ends
\* the process.
FinishReading ==
    /\ pc = "reading"
    /\ brigade = <<>>
    /\ tx.finished
    /\ \E t \in RequestBodyEnd(tx, cfg) :
         IF t.crashed
         THEN tx' = t /\ pc' = "crashed" /\ UNCHANGED <<status, brigade>>
         ELSE ReturnFromRead([t EXCEPT !.ifStatus = "wants"], 1)
    /\ UNCHANGED <<cfg, net, got, gotEos, body, lost>>

\* Phase 2: the rules may intercept (not in detection-only mode) and may
\* replace the copy of the body (@rsub on STREAM_INPUT_BODY).
Phase2 ==
    /\ pc = "phase2"
    /\ \/ /\ cfg.enabled = "On"
          /\ status' = "403"
          /\ pc' = "cleanup"
          /\ UNCHANGED tx
       \/ /\ status' = "DECLINED"
          /\ pc' = "handler"
          /\ \/ UNCHANGED tx
             \/ /\ tx.stream # Null
                /\ tx' = [tx EXCEPT !.stream = <<0>>, !.streamChanged = TRUE]
    /\ UNCHANGED <<cfg, net, brigade, got, gotEos, body, lost>>
----------------------------------------------------------------------------
(* Forwarding: input_filter *)

Reading == pc = "handler" /\ ~gotEos

\* The filter forwards nothing (any more): the handler reads the connection.
PassThrough ==
    /\ Reading
    /\ tx.ifStatus \in {"none", "complete"}
    /\ \E n \in 0..Minimum(MaxRead, Len(net)) :
         /\ n > 0 \/ net = <<>>
         /\ got' = got \o First(n, net)
         /\ net' = Rest(n, net)
         /\ gotEos' = (n = 0)
    /\ UNCHANGED <<cfg, tx, brigade, pc, status, body, lost>>

\* What one call puts into the brigade of the handler: the chunk, or the
\* stream copy if a rule has changed it or no chunk is left.
Delivered(t, data) ==
    IF data # Null /\ ~(cfg.stream /\ t.streamChanged) THEN data
    ELSE IF t.stream # Null THEN t.stream ELSE <<>>

AfterDelivery(t, data) ==
    IF data # Null /\ ~(cfg.stream /\ t.streamChanged) THEN t
    ELSE IF t.stream # Null THEN [t EXCEPT !.stream = Null,
                                           !.streamChanged = FALSE]
    ELSE t

InputFilter ==
    /\ Reading
    /\ tx.ifStatus = "wants"
    /\ \E n \in 1..MaxRead,
          s \in IF tx.started THEN {Result(tx, 1)} ELSE RetrieveStart(tx) :
         /\ s.rc > 0
         /\ \E r \in Retrieve(s.tx, n) :
              /\ r.rc >= 0
              /\ got' = got \o Delivered(r.tx, r.data)
              /\ gotEos' = (r.rc = 0 /\ tx.seenEos)
              /\ LET t == AfterDelivery(r.tx, r.data)
                 IN  tx' = IF r.rc = 1 THEN t
                           ELSE [t EXCEPT !.ifStatus = "complete",
                                   !.fd = IF t.storage = "disk" THEN FALSE ELSE @]
    /\ UNCHANGED <<cfg, net, brigade, pc, status, body, lost>>

\* The store cannot be opened or read: the handler gets APR_EGENERAL.
InputFilterFails ==
    /\ Reading
    /\ tx.ifStatus = "wants"
    /\ \E s \in IF tx.started THEN {Result(tx, 1)} ELSE RetrieveStart(tx) :
         /\ tx' = s.tx
         /\ s.rc < 0 \/ \E r \in Retrieve(s.tx, 1) : r.rc < 0
    /\ pc' = "cleanup"
    /\ UNCHANGED <<cfg, net, brigade, status, got, gotEos, body, lost>>

\* The handler is done; it need not have read the whole body.
HandlerDone ==
    /\ pc = "handler"
    /\ pc' = "cleanup"
    /\ UNCHANGED <<cfg, tx, net, brigade, status, got, gotEos, body, lost>>

Cleanup ==
    /\ pc = "cleanup"
    /\ tx' \in RequestBodyClear(tx, cfg)
    /\ pc' = "done"
    /\ UNCHANGED <<cfg, net, brigade, status, got, gotEos, body, lost>>

\* The request is over, or the worker process has died.
Done == pc \in {"done", "crashed"} /\ UNCHANGED vars

Next == \/ NoAccess \/ RefuseLength \/ Start \/ GetBrigade \/ GetBrigadeFails \/ ReadBucket
        \/ ReadEos \/ FinishReading \/ Phase2 \/ PassThrough \/ InputFilter
        \/ InputFilterFails \/ HandlerDone \/ Cleanup
        \/ Done

Spec == Init /\ [][Next]_vars
----------------------------------------------------------------------------
(* Properties *)

Data == Seq(Nat)

Transactions ==
    [contentLength : Int, storage : {"memory", "disk"}, spill : BOOLEAN,
     processor : Processors \cup {"none"}, error : BOOLEAN,
     chunks : Data \cup {Null, Freed}, joined : BOOLEAN,
     length : Nat, noFiles : Nat, bodyLen : Nat,
     file : Data \cup {Null}, filename : BOOLEAN, fd : BOOLEAN,
     isRead : BOOLEAN, seenEos : BOOLEAN,
     ifStatus : {"none", "wants", "complete"}, started : BOOLEAN,
     position : Nat \ {0}, offset : Nat, readAt : Nat,
     stream : Data \cup {Null}, streamChanged : BOOLEAN,
     finished : BOOLEAN, crashed : BOOLEAN]

TypeOK ==
    /\ cfg \in Configs
    /\ tx \in Transactions
    /\ net \in Data /\ got \in Data /\ body \in Data
    /\ brigade \in Seq(Data \cup {Eos})
    /\ pc \in {"start", "reading", "phase2", "handler", "cleanup", "done",
               "crashed"}
    /\ status \in {"none", "DECLINED", "400", "403", "408", "413", "500"}
    /\ gotEos \in BOOLEAN /\ lost \in BOOLEAN

Rewritten == tx.streamChanged \/ 0 \in ToSet(got)

\* What the content handler reads to its end is the body the client sent:
\* whole, in order, once.  This holds for bodies kept in memory, switched to
\* disk in the middle, joined by the URL-encoded parser or cut off by
\* ProcessPartial, unless a read or a store has failed or a rule has
\* rewritten the stream.
ForwardedWhole == gotEos /\ ~lost /\ ~Rewritten => got = body

\* In blocking mode the handler never sees a body with a hole: whatever
\* fails, what it has received is a beginning of what the client sent.
NoHole == Rejecting(cfg) /\ ~Rewritten => IsPrefix(got, body)

\* In blocking mode a request that is let through has not exceeded the
\* limit of the body, nor the limit without files where the whole body
\* counts; and the store in memory never grows over its own limit.
Consumed == Len(body) - Len(net)
LimitsHold ==
    /\ pc = "handler" /\ Rejecting(cfg) /\ tx.isRead =>
         /\ Consumed <= cfg.bodyLimit
         /\ tx.processor = "URLENCODED" /\ Consumed > 0 => Consumed < cfg.noFilesLimit
    /\ tx.spill /\ ~cfg.buffering /\ tx.storage = "memory" =>
         Len(InChunks(tx)) <= cfg.memLimit

\* When the transaction is over the temporary file is closed and gone,
\* wherever reading or forwarding stopped; only a kept upload stays, and a
\* file that could not be removed.
TemporaryFileGone ==
    pc = "done" /\ ~cfg.keepPut => ~tx.fd /\ (tx.filename \/ tx.file = Null)

\* The body that end_raw joins is in memory: modsecurity_tx_init places
\* form bodies and forced buffers there.
JoinedBodyInMemory == pc # "crashed"

=============================================================================
