---------------------------- MODULE Collections ----------------------------
(***************************************************************************)
(* Persistent collections of the engine: apache2/persist_dbm.c, the        *)
(* actions initcol, setsid, setuid, setrsc, setvar, expirevar and          *)
(* deprecatevar of apache2/re_actions.c, and modsecurity_persist_data of   *)
(* apache2/modsecurity.c.                                                  *)
(*                                                                         *)
(* The processes of the server, each with one transaction at a time, share *)
(* one DBM file.  A transaction retrieves the collection of its key, its   *)
(* rules change the copy, and in the logging phase the copy is merged with *)
(* what the file holds by then and written back under an exclusive lock.   *)
(* Now and then a transaction also removes the stale collections of the    *)
(* file.                                                                   *)
(***************************************************************************)
EXTENDS Integers

CONSTANTS
    Tx,           \* server processes, or the transactions they are at
    Keys,         \* keys of the collections in the file (addresses, ids)
    Counters,     \* variables that rules keep in a collection
    KEY,          \* the built-in variable KEY
    UPDATES,      \* the built-in variable UPDATE_COUNTER
    Missing,      \* no such variable
    NoTable,      \* no such collection (NULL)
    Nobody,       \* no owner
    Amounts,      \* arguments of setvar:x=+n and setvar:x=-n
    Values,       \* arguments of setvar:x=n
    Delays,       \* arguments of expirevar
    DecN, DecS,   \* deprecatevar:x=DecN/DecS
    ColTimeout,   \* SecCollectionTimeout
    SameName,     \* the file has the name the rules use: initcol does that,
                  \* setsid, setuid and setrsc put the application in front
    IoErrors,     \* whether opening, locking and writing the file may fail
    MaxOps,       \* bound: changes one transaction makes
    MaxRequests,  \* bound: transactions that are begun
    MaxTime       \* bound: seconds the clock counts

Names == Counters \cup {KEY, UPDATES}

ASSUME NamesAssumption ==
    /\ KEY \notin Counters
    /\ UPDATES \notin Counters
    /\ KEY # UPDATES
    /\ Missing \notin Nat
    /\ Nobody \notin Tx

ASSUME ArgumentsAssumption ==
    /\ Amounts \subseteq Int
    /\ Values \subseteq Nat
    /\ Delays \subseteq Nat \ {0}
    /\ DecN \in Nat
    /\ DecS \in Nat \ {0}
    /\ ColTimeout \in Nat \ {0}
    /\ SameName \in BOOLEAN
    /\ IoErrors \in BOOLEAN
    /\ MaxOps \in Nat
    /\ MaxRequests \in Nat
    /\ MaxTime \in Nat

\* A collection: the values of its variables, the times in __expire_...,
\* and LAST_UPDATE_TIME.
Table == [val : [Names -> Nat \cup {Missing}],
          exp : [Names -> Nat \cup {Missing}],
          upd : Nat \cup {Missing}]

ASSUME TableAssumption == NoTable \notin Table

VARIABLES
    now,          \* the clock, in seconds
    begun,        \* transactions begun (bounded by MaxRequests)
    db,           \* the DBM file
    lock,         \* who holds the exclusive lock on it
    pc,           \* where a transaction is
    req,          \* msr->request_time
    key,          \* the key it works on: first that of its collection, then
                  \* that of a stale one
    table,        \* its copy, an element of msr->collections
    orig,         \* msr->collections_original
    dirty,        \* msr->collections_dirty
    stored,       \* stored_col in collection_store
    stale,        \* keys_arr in collections_remove_stale, those still to do
    deleteError,  \* msr->msc_sdbm_delete_error
    ops,          \* changes made (bounded by MaxOps)
    net           \* history: the sum of what a transaction has added to a
                  \* counter, Missing once it did anything else to it

copyVars == <<table, orig, dirty, stored, ops, net>>
txVars == <<req, key, stale, deleteError>>
vars == <<now, begun, db, lock, pc, txVars, copyVars>>

Blank == [val |-> [x \in Names |-> Missing],
          exp |-> [x \in Names |-> Missing],
          upd |-> Missing]

\* A collection that a transaction has stored in the second before.
Earlier == [val |-> [x \in Names |-> IF x = KEY THEN 0 ELSE 1],
            exp |-> [Blank.exp EXCEPT ![KEY] = ColTimeout],
            upd |-> 0]

Init ==
    /\ now = 0
    /\ begun = 0
    /\ db \in [Keys -> {NoTable, Earlier}]
    /\ lock = Nobody
    /\ pc = [t \in Tx |-> "idle"]
    /\ req = [t \in Tx |-> 0]
    /\ key \in [Tx -> Keys]
    /\ table = [t \in Tx |-> Blank]
    /\ orig = [t \in Tx |-> [x \in Names |-> Missing]]
    /\ dirty = [t \in Tx |-> FALSE]
    /\ stored = [t \in Tx |-> NoTable]
    /\ stale = [t \in Tx |-> {}]
    /\ deleteError = [t \in Tx |-> FALSE]
    /\ ops = [t \in Tx |-> 0]
    /\ net = [t \in Tx |-> [x \in Counters |-> 0]]

Goto(t, label) == pc' = [pc EXCEPT ![t] = label]

-----------------------------------------------------------------------------
(***************************************************************************)
(* What the file and its lock do (APR's sdbm).  Each access takes the lock *)
(* it needs unless the caller has it.                                      *)
(***************************************************************************)
LockFree(t) == lock \in {Nobody, t}

\* Deleting a key that is not there is an error.
DbDelete(t, k) ==
    /\ db' = [db EXCEPT ![k] = NoTable]
    /\ deleteError' = [deleteError EXCEPT ![t] = @ \/ db[k] = NoTable]

-----------------------------------------------------------------------------
(***************************************************************************)
(* Retrieving a collection                                                 *)
(***************************************************************************)
\* Variant: the second in which a variable expires still counts.
DueLate(c, time) == {x \in Names : c.exp[x] # Missing /\ c.exp[x] < time}

\* The variables whose time has come.
Due(c, time) == {x \in Names : c.exp[x] # Missing /\ c.exp[x] <= time}

\* The collection without its expired variables.
Unexpired(c, time) ==
    [val |-> [x \in Names |-> IF x \in Due(c, time) THEN Missing ELSE c.val[x]],
     exp |-> [x \in Names |-> IF x \in Due(c, time) THEN Missing ELSE c.exp[x]],
     upd |-> c.upd]

\* What collection_retrieve_ex returns: nothing, if KEY is gone.
Live(c, time) ==
    IF c # NoTable /\ Unexpired(c, time).val[KEY] # Missing
      THEN Unexpired(c, time) ELSE NoTable

\* A new collection; of KEY it only matters that it is there.
NewTable(t) ==
    [val |-> [Blank.val EXCEPT ![KEY] = 0, ![UPDATES] = 0],
     exp |-> [Blank.exp EXCEPT ![KEY] = req[t] + ColTimeout],
     upd |-> Missing]

\* The collection is added to the list, and the original value of
\* UPDATE_COUNTER is recorded.
AddCollection(t, c) ==
    /\ table' = [table EXCEPT ![t] = c]
    /\ orig' = [orig EXCEPT ![t][UPDATES] = c.val[UPDATES]]
    /\ Goto(t, "rules")
    /\ UNCHANGED <<now, begun, lock, req, key, stale, dirty, stored, ops, net>>

Start(t, k) ==
    /\ pc[t] = "idle"
    /\ begun < MaxRequests
    /\ begun' = begun + 1
    /\ req' = [req EXCEPT ![t] = now]
    /\ key' = [key EXCEPT ![t] = k]
    /\ Goto(t, "retrieve")
    /\ UNCHANGED <<now, db, lock, stale, deleteError, copyVars>>

RetrieveLive(t) ==
    /\ pc[t] = "retrieve"
    /\ LockFree(t)
    /\ Live(db[key[t]], req[t]) # NoTable
    /\ AddCollection(t, Live(db[key[t]], req[t]))
    /\ UNCHANGED <<db, deleteError>>

\* The key is not in the file: a new collection.
RetrieveNothing(t) ==
    /\ pc[t] = "retrieve"
    /\ LockFree(t)
    /\ db[key[t]] = NoTable
    /\ AddCollection(t, NewTable(t))
    /\ UNCHANGED <<db, deleteError>>

\* The file cannot be opened: a new collection too.
RetrieveFails(t) ==
    /\ pc[t] = "retrieve"
    /\ IoErrors
    /\ AddCollection(t, NewTable(t))
    /\ UNCHANGED <<db, deleteError>>

\* KEY has expired or was unset: the file is closed, then opened again to
\* delete the collection.
RetrieveExpired(t) ==
    /\ pc[t] = "retrieve"
    /\ LockFree(t)
    /\ db[key[t]] # NoTable
    /\ Live(db[key[t]], req[t]) = NoTable
    /\ Goto(t, "reopen")
    /\ UNCHANGED <<now, begun, db, lock, txVars, copyVars>>

DeleteExpired(t) ==
    /\ pc[t] = "reopen"
    /\ LockFree(t)
    /\ DbDelete(t, key[t])
    /\ AddCollection(t, NewTable(t))

\* The file cannot be opened again.
ReopenFails(t) ==
    /\ pc[t] = "reopen"
    /\ IoErrors
    /\ AddCollection(t, NewTable(t))
    /\ UNCHANGED <<db, deleteError>>

-----------------------------------------------------------------------------
(***************************************************************************)
(* The rules change the copy                                               *)
(***************************************************************************)
Number(v) == IF v = Missing THEN 0 ELSE v

\* Variant: the result is used as it is.
AnySign(n) == n

\* "Counters never go below zero."
NonNegative(n) == IF n < 0 THEN 0 ELSE n

\* A rule's action on the copy; the collection has to be stored later.
Change(t) ==
    /\ pc[t] = "rules"
    /\ ops[t] < MaxOps
    /\ ops' = [ops EXCEPT ![t] = @ + 1]
    /\ dirty' = [dirty EXCEPT ![t] = TRUE]
    /\ UNCHANGED <<now, begun, db, lock, pc, txVars, stored>>

\* The copy c with another value, or another time, for x.
SetVal(c, x, v) == [val |-> [c.val EXCEPT ![x] = v], exp |-> c.exp,
                    upd |-> c.upd]
SetExp(c, x, time) == [val |-> c.val, exp |-> [c.exp EXCEPT ![x] = time],
                       upd |-> c.upd]

\* Variant: the latest value is recorded.
LastValue(first, v) == v

\* collection_original_setvar: only the first value is recorded.
Original(first, v) == IF first = Missing THEN v ELSE first

\* setvar:x=+n, setvar:x=-n
SetRelative(t, x, n) ==
    /\ Change(t)
    /\ LET value == Number(table[t].val[x])
       IN  /\ orig' = [orig EXCEPT ![t][x] = Original(@, value)]
           /\ table' = [table EXCEPT ![t] =
                           SetVal(@, x, NonNegative(value + n))]
    /\ net' = [net EXCEPT ![t][x] = IF @ = Missing \/ n < 0 THEN Missing
                                                            ELSE @ + n]

\* setvar:x=n
SetAbsolute(t, x, n) ==
    /\ Change(t)
    /\ table' = [table EXCEPT ![t] = SetVal(@, x, n)]
    /\ net' = [net EXCEPT ![t][x] = Missing]
    /\ UNCHANGED orig

\* setvar:!x, used with KEY to drop a collection.
Unset(t, x) ==
    /\ Change(t)
    /\ table' = [table EXCEPT ![t] = SetVal(@, x, Missing)]
    /\ net' = IF x = KEY THEN net ELSE [net EXCEPT ![t][x] = Missing]
    /\ UNCHANGED orig

\* expirevar:x=n
ExpireVar(t, x, n) ==
    /\ Change(t)
    /\ table' = [table EXCEPT ![t] = SetExp(@, x, req[t] + n)]
    /\ UNCHANGED <<orig, net>>

\* The value after DecN was taken away for every DecS seconds.
Deprecated(t, x) ==
    NonNegative(table[t].val[x] - DecN * ((now - table[t].upd) \div DecS))

\* deprecatevar:x=DecN/DecS; no original value is recorded.
DeprecateVar(t, x) ==
    /\ table[t].val[x] # Missing
    /\ table[t].upd # Missing
    /\ Deprecated(t, x) # table[t].val[x]
    /\ Change(t)
    /\ table' = [table EXCEPT ![t] = SetVal(@, x, Deprecated(t, x))]
    /\ net' = [net EXCEPT ![t][x] = Missing]
    /\ UNCHANGED orig

-----------------------------------------------------------------------------
(***************************************************************************)
(* The logging phase stores the collection                                 *)
(***************************************************************************)
\* Variant: the time limit is counted from the one that was stored.
PreparedTwice(c) ==
    [val |-> [c.val EXCEPT ![UPDATES] = Number(@) + 1],
     exp |-> [c.exp EXCEPT ![KEY] = IF @ = Missing THEN @ ELSE @ + ColTimeout],
     upd |-> now]

\* The head of collection_store: __expire_KEY, LAST_UPDATE_TIME and
\* UPDATE_COUNTER.
Prepared(c) ==
    [val |-> [c.val EXCEPT ![UPDATES] = Number(@) + 1],
     exp |-> [c.exp EXCEPT ![KEY] = IF @ = Missing THEN @
                                    ELSE now + ColTimeout],
     upd |-> now]

\* The transaction does not use its copy any more.
DropCopy(t) ==
    /\ table' = [table EXCEPT ![t] = Blank]
    /\ orig' = [orig EXCEPT ![t] = [x \in Names |-> Missing]]
    /\ dirty' = [dirty EXCEPT ![t] = FALSE]
    /\ stored' = [stored EXCEPT ![t] = NoTable]
    /\ ops' = [ops EXCEPT ![t] = 0]
    /\ net' = [net EXCEPT ![t] = [x \in Counters |-> 0]]

PersistDirty(t) ==
    /\ pc[t] = "rules"
    /\ dirty[t]
    /\ table' = [table EXCEPT ![t] = Prepared(@)]
    /\ Goto(t, "lock")
    /\ UNCHANGED <<now, begun, db, lock, txVars, orig, dirty, stored, ops, net>>

PersistClean(t) ==
    /\ pc[t] = "rules"
    /\ ~dirty[t]
    /\ DropCopy(t)
    /\ Goto(t, "clean")
    /\ UNCHANGED <<now, begun, db, lock, txVars>>

LockFile(t) ==
    /\ pc[t] = "lock"
    /\ lock = Nobody
    /\ lock' = t
    /\ Goto(t, "reread")
    /\ UNCHANGED <<now, begun, db, txVars, copyVars>>

\* The file cannot be opened or locked.
LockFails(t) ==
    /\ pc[t] = "lock"
    /\ IoErrors
    /\ DropCopy(t)
    /\ Goto(t, "clean")
    /\ UNCHANGED <<now, begun, db, lock, txVars>>

\* The stored collection is retrieved again, and deleted if it has expired;
\* but only if original values are found under the name of the file.
Reread(t) ==
    /\ pc[t] = "reread"
    /\ LET found == IF SameName THEN Live(db[key[t]], req[t]) ELSE NoTable
       IN  /\ stored' = [stored EXCEPT ![t] = found]
           /\ IF SameName /\ db[key[t]] # NoTable /\ found = NoTable
                THEN DbDelete(t, key[t])
                ELSE UNCHANGED <<db, deleteError>>
    /\ Goto(t, "write")
    /\ UNCHANGED <<now, begun, lock, req, key, stale, table, orig, dirty, ops,
                   net>>

\* There is an original value, and a stored one to apply the difference to.
HasDelta(t, x) ==
    /\ stored[t] # NoTable
    /\ table[t].val[x] # Missing
    /\ orig[t][x] # Missing
    /\ stored[t].val[x] # Missing

Delta(t, x) == table[t].val[x] - orig[t][x]

\* Variant: the copy replaces what is stored.
Unmerged(t) == table[t]

\* The copy with the differences applied to what is stored.
Merged(t) ==
    [val |-> [x \in Names |->
                IF HasDelta(t, x)
                  THEN NonNegative(stored[t].val[x] + Delta(t, x))
                  ELSE table[t].val[x]],
     exp |-> table[t].exp,
     upd |-> table[t].upd]

Write(t) ==
    /\ pc[t] = "write"
    /\ db' = [db EXCEPT ![key[t]] = Merged(t)]
    /\ lock' = Nobody
    /\ DropCopy(t)
    /\ Goto(t, "clean")
    /\ UNCHANGED <<now, begun, txVars>>

\* Variant: the error path forgets to unlock the file.
WriteFailsLocked(t) ==
    /\ pc[t] = "write"
    /\ IoErrors
    /\ DropCopy(t)
    /\ Goto(t, "clean")
    /\ UNCHANGED <<now, begun, db, lock, txVars>>

\* The DBM file does not take the record (it is too large).
WriteFails(t) ==
    /\ pc[t] = "write"
    /\ IoErrors
    /\ lock' = Nobody
    /\ DropCopy(t)
    /\ Goto(t, "clean")
    /\ UNCHANGED <<now, begun, db, txVars>>

-----------------------------------------------------------------------------
(***************************************************************************)
(* collections_remove_stale, in one of a hundred transactions              *)
(***************************************************************************)
\* The transaction is over.
Finish(t) ==
    /\ req' = [req EXCEPT ![t] = 0]
    /\ stale' = [stale EXCEPT ![t] = {}]
    /\ Goto(t, "idle")

\* Not this time, or the file cannot be opened or locked.
SkipStale(t) ==
    /\ pc[t] = "clean"
    /\ Finish(t)
    /\ deleteError' = [deleteError EXCEPT ![t] = FALSE]
    /\ UNCHANGED <<now, begun, db, lock, key, copyVars>>

ListKeys(t) ==
    /\ pc[t] = "clean"
    /\ LockFree(t)
    /\ stale' = [stale EXCEPT ![t] = {k \in Keys : db[k] # NoTable}]
    /\ Goto(t, "stale")
    /\ UNCHANGED <<now, begun, db, lock, req, key, deleteError, copyVars>>

IsStale(t, k) ==
    /\ db[k] # NoTable
    /\ db[k].exp[KEY] # Missing
    /\ db[k].exp[KEY] <= req[t]

FetchFresh(t, k) ==
    /\ pc[t] = "stale"
    /\ k \in stale[t]
    /\ LockFree(t)
    /\ ~IsStale(t, k)
    /\ stale' = [stale EXCEPT ![t] = @ \ {k}]
    /\ UNCHANGED <<now, begun, db, lock, pc, req, key, deleteError, copyVars>>

FetchStale(t, k) ==
    /\ pc[t] = "stale"
    /\ k \in stale[t]
    /\ LockFree(t)
    /\ IsStale(t, k)
    /\ key' = [key EXCEPT ![t] = k]
    /\ Goto(t, "delete")
    /\ UNCHANGED <<now, begun, db, lock, req, stale, deleteError, copyVars>>

\* The file was not locked in between.
DeleteStale(t) ==
    /\ pc[t] = "delete"
    /\ LockFree(t)
    /\ db[key[t]] # NoTable
    /\ DbDelete(t, key[t])
    /\ stale' = [stale EXCEPT ![t] = @ \ {key[t]}]
    /\ Goto(t, "stale")
    /\ UNCHANGED <<now, begun, lock, req, key, copyVars>>

\* An error, such as a key that is gone, ends the loop.
DeleteStaleFails(t) ==
    /\ pc[t] = "delete"
    /\ IoErrors \/ db[key[t]] = NoTable
    /\ Finish(t)
    /\ deleteError' = [deleteError EXCEPT ![t] = FALSE]
    /\ UNCHANGED <<now, begun, db, lock, key, copyVars>>

StaleDone(t) ==
    /\ pc[t] = "stale"
    /\ stale[t] = {}
    /\ Finish(t)
    /\ deleteError' = [deleteError EXCEPT ![t] = FALSE]
    /\ UNCHANGED <<now, begun, db, lock, key, copyVars>>

-----------------------------------------------------------------------------
\* The process of a transaction dies: the system drops its lock, the server
\* starts another process.
Crash(t) ==
    /\ pc[t] # "idle"
    /\ lock' = IF lock = t THEN Nobody ELSE lock
    /\ Finish(t)
    /\ DropCopy(t)
    /\ deleteError' = [deleteError EXCEPT ![t] = FALSE]
    /\ UNCHANGED <<now, begun, db, key>>

Tick ==
    /\ now < MaxTime
    /\ now' = now + 1
    /\ UNCHANGED <<begun, db, lock, pc, txVars, copyVars>>

Retrieve(t) ==
    \/ RetrieveLive(t) \/ RetrieveNothing(t) \/ RetrieveFails(t)
    \/ RetrieveExpired(t)
    \/ DeleteExpired(t) \/ ReopenFails(t)

Rule(t) ==
    \/ \E x \in Counters, n \in Amounts : SetRelative(t, x, n)
    \/ \E x \in Counters, n \in Values : SetAbsolute(t, x, n)
    \/ \E x \in Counters \cup {KEY} : Unset(t, x)
    \/ \E x \in Counters \cup {KEY}, n \in Delays : ExpireVar(t, x, n)
    \/ \E x \in Counters : DeprecateVar(t, x)

Store(t) ==
    \/ PersistDirty(t) \/ PersistClean(t)
    \/ LockFile(t) \/ LockFails(t)
    \/ Reread(t) \/ Write(t) \/ WriteFails(t)

RemoveStale(t) ==
    \/ SkipStale(t) \/ ListKeys(t) \/ StaleDone(t)
    \/ DeleteStale(t) \/ DeleteStaleFails(t)
    \/ \E k \in Keys : FetchFresh(t, k) \/ FetchStale(t, k)

Step(t) == Retrieve(t) \/ Store(t) \/ RemoveStale(t)

Next ==
    \/ Tick
    \/ \E t \in Tx, k \in Keys : Start(t, k)
    \/ \E t \in Tx : Rule(t) \/ Step(t) \/ Crash(t)

Spec == Init /\ [][Next]_vars

-----------------------------------------------------------------------------
(***************************************************************************)
(* Properties                                                              *)
(***************************************************************************)
Labels == {"idle", "retrieve", "reopen", "rules", "lock", "reread", "write",
           "clean", "stale", "delete"}

\* Types; in particular no value is ever negative, in a copy or in the file
\* ("Counters never go below zero" in setvar and in collection_store).
TypeOK ==
    /\ now \in Nat
    /\ begun \in Nat
    /\ db \in [Keys -> Table \cup {NoTable}]
    /\ lock \in Tx \cup {Nobody}
    /\ pc \in [Tx -> Labels]
    /\ req \in [Tx -> Nat]
    /\ key \in [Tx -> Keys]
    /\ table \in [Tx -> Table]
    /\ orig \in [Tx -> [Names -> Nat \cup {Missing}]]
    /\ dirty \in [Tx -> BOOLEAN]
    /\ stored \in [Tx -> Table \cup {NoTable}]
    /\ stale \in [Tx -> SUBSET Keys]
    /\ deleteError \in [Tx -> BOOLEAN]
    /\ ops \in [Tx -> Nat]
    /\ net \in [Tx -> [Counters -> Nat \cup {Missing}]]

\* t's collection_store reaches the file in this step.
Stores(t) ==
    /\ pc[t] = "write"
    /\ db'[key[t]] # db[key[t]]

\* What the file holds for t, as t sees it.
Found(t) == Live(db[key[t]], req[t])

\* A store counts one more update than the file did, however many other
\* transactions have stored since the copy was retrieved: UPDATE_COUNTER
\* counts every store of a collection (re-reading and delta in
\* collection_store).
EveryStoreCounted ==
    [][SameName =>
         \A k \in Keys :
           (db[k] # NoTable /\ db'[k] # NoTable /\ db'[k] # db[k])
             => db'[k].val[UPDATES] = db[k].val[UPDATES] + 1]_vars

\* A counter to which a transaction has only added ends up higher than it is
\* in the file by exactly what was added, in one or in several steps: what
\* other transactions have stored since the copy was retrieved is kept, and
\* nothing is added twice.
IncrementsKept ==
    [][SameName =>
         \A t \in Tx, x \in Counters :
           (/\ Stores(t)
            /\ Found(t) # NoTable
            /\ Found(t).val[x] # Missing
            /\ net[t][x] \notin {Missing, 0})
             => db'[key[t]].val[x] = Found(t).val[x] + net[t][x]]_vars

\* Every collection in the file has a time limit that ends at most
\* ColTimeout after the present: "entry with no __expire_KEY", which
\* collections_remove_stale logs and then keeps for ever, does not occur.
EveryCollectionExpires ==
    \A k \in Keys : db[k] # NoTable =>
        /\ db[k].exp[KEY] # Missing
        /\ db[k].exp[KEY] <= now + ColTimeout

\* The rules never see a variable, or a collection, whose time was over when
\* the request arrived, neither right after collection_retrieve_ex nor while
\* they set time limits of their own.
NoExpiredValueSeen ==
    \A t \in Tx, x \in Names :
        (pc[t] = "rules" /\ table[t].exp[x] # Missing)
          => table[t].exp[x] > req[t]

\* The file is locked exactly while a transaction is between locking it and
\* writing it, on every path through collection_store: nobody else can write
\* in between, and nobody waits for a lock that is never released.
LockHeldToStore ==
    \A t \in Tx : lock = t <=> pc[t] \in {"reread", "write"}

\* What CHANGES says of persistent counters, "Updates are now atomic": a store
\* leaves the counters its transaction has not touched as they are in the
\* file.  It does not hold: collection_store writes the whole copy and
\* applies a difference only to variables with an original value.
UpdatesAtomic ==
    [][SameName =>
         \A t \in Tx, x \in Counters :
           (/\ Stores(t)
            /\ Found(t) # NoTable
            /\ Found(t).val[x] # Missing
            /\ net[t][x] = 0)
             => db'[key[t]].val[x] = Found(t).val[x]]_vars

\* A transaction that nobody has interfered with (the file's UPDATE_COUNTER is
\* still the one it retrieved) stores the values its rules have left in the
\* copy.  It does not hold: a relative change after an absolute one takes the
\* new value for the original.
StoredAsSet ==
    [][\A t \in Tx :
         (/\ Stores(t)
          /\ stored[t] # NoTable
          /\ stored[t].val[UPDATES] = orig[t][UPDATES])
           => \A x \in Counters : db'[key[t]].val[x] = table[t].val[x]]_vars

\* Only collections that have expired, or whose KEY was unset, are removed
\* from the file.  It does not hold: between finding a collection expired and
\* deleting it, the file is not locked.
OnlyStaleRemoved ==
    [][\A k \in Keys :
         (db[k] # NoTable /\ db'[k] = NoTable)
           => Live(db[k], now) = NoTable]_vars
=============================================================================
