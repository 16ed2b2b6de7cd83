-------------------------- MODULE CollectionsSafety -------------------------
(***************************************************************************)
(* Safety of the persistent collections, proved for any set of processes,  *)
(* keys and counters, any arguments of the rules and any bounds.  The      *)
(* inductive invariant has four parts besides the types: who holds the     *)
(* lock, the time limits, how the counts of updates in a copy and in the   *)
(* file relate, and how a counter in a copy relates to what was added; and *)
(* a fifth says that what a transaction has read again under the lock is   *)
(* what it is about to overwrite.                                          *)
(***************************************************************************)
EXTENDS Collections, TLAPS

(***************************************************************************)
(* Types.                                                                  *)
(***************************************************************************)

LEMMA BlankType == Blank \in Table
  BY DEF Blank, Table

LEMMA EarlierType == Earlier \in Table
  BY ArgumentsAssumption DEF Earlier, Blank, Table, Names

\* Dropping what has expired leaves a collection.
LEMMA LiveType ==
    ASSUME NEW c \in Table \cup {NoTable}, NEW time
    PROVE  Live(c, time) \in Table \cup {NoTable}
<1>1. ASSUME c \in Table PROVE Unexpired(c, time) \in Table
  BY <1>1 DEF Unexpired, Table
<1>2. QED
  BY <1>1 DEF Live

LEMMA NewTableType ==
    ASSUME NEW t \in Tx, req[t] \in Nat
    PROVE  NewTable(t) \in Table
  BY ArgumentsAssumption DEF NewTable, Blank, Table, Names

LEMMA SetValType ==
    ASSUME NEW c \in Table, NEW x \in Names, NEW v \in Nat \cup {Missing}
    PROVE  SetVal(c, x, v) \in Table
  BY DEF SetVal, Table

LEMMA SetExpType ==
    ASSUME NEW c \in Table, NEW x \in Names, NEW time \in Nat
    PROVE  SetExp(c, x, time) \in Table
  BY DEF SetExp, Table

LEMMA PreparedType ==
    ASSUME NEW c \in Table, now \in Nat
    PROVE  Prepared(c) \in Table
  BY ArgumentsAssumption, NamesAssumption DEF Prepared, Number, Table, Names

\* What deprecatevar computes is a number that is not negative.
LEMMA DeprecatedType ==
    ASSUME NEW t \in Tx, NEW x \in Names, now \in Nat,
           table[t].val[x] \in Nat, table[t].upd \in Nat
    PROVE  Deprecated(t, x) \in Nat
<1>1. (now - table[t].upd) \div DecS \in Int
  BY ArgumentsAssumption
<1> DEFINE d == (now - table[t].upd) \div DecS
<1>2. d \in Int
  BY <1>1
<1> HIDE DEF d
<1>3. DecN * d \in Int
  BY <1>2, ArgumentsAssumption
<1>4. table[t].val[x] - DecN * d \in Int
  BY <1>3
<1>5. QED
  BY <1>4 DEF Deprecated, NonNegative, d

\* What collection_store writes is a collection, without negative values.
LEMMA MergedType ==
    ASSUME NEW t \in Tx, table[t] \in Table,
           orig[t] \in [Names -> Nat \cup {Missing}],
           stored[t] \in Table \cup {NoTable}
    PROVE  Merged(t) \in Table
<1>1. ASSUME NEW x \in Names, HasDelta(t, x)
      PROVE  NonNegative(stored[t].val[x] + Delta(t, x)) \in Nat
  BY <1>1 DEF HasDelta, Delta, NonNegative, Table
<1>2. QED
  BY <1>1 DEF Merged, Table

-----------------------------------------------------------------------------
LEMMA RetrieveKeepsTypes ==
    ASSUME TypeOK, NEW t \in Tx, Retrieve(t)
    PROVE  TypeOK'
<1> USE NamesAssumption, ArgumentsAssumption DEF TypeOK, Labels, vars, txVars,
      copyVars
<1>1. CASE RetrieveLive(t)
<2>1. Live(db[key[t]], req[t]) \in Table
  BY <1>1, LiveType DEF RetrieveLive
<2>2. Live(db[key[t]], req[t]).val \in [Names -> Nat \cup {Missing}]
  BY <2>1 DEF Table
<2>3. QED
  BY <1>1, <2>1, <2>2 DEF RetrieveLive, AddCollection, Goto, Names
<1>2. CASE RetrieveNothing(t)
<2>1. NewTable(t) \in Table
  BY NewTableType
<2>2. NewTable(t).val \in [Names -> Nat \cup {Missing}]
  BY <2>1 DEF Table
<2>3. QED
  BY <1>2, <2>1, <2>2 DEF RetrieveNothing, AddCollection, Goto, Names
<1>3. CASE RetrieveFails(t)
<2>1. NewTable(t) \in Table
  BY NewTableType
<2>2. NewTable(t).val \in [Names -> Nat \cup {Missing}]
  BY <2>1 DEF Table
<2>3. QED
  BY <1>3, <2>1, <2>2 DEF RetrieveFails, AddCollection, Goto, Names
<1>4. CASE RetrieveExpired(t)
  BY <1>4 DEF RetrieveExpired, Goto
<1>5. CASE DeleteExpired(t)
<2>1. NewTable(t) \in Table
  BY NewTableType
<2>2. NewTable(t).val \in [Names -> Nat \cup {Missing}]
  BY <2>1 DEF Table
<2>3. QED
  BY <1>5, <2>1, <2>2 DEF DeleteExpired, AddCollection, DbDelete, Goto, Names
<1>6. CASE ReopenFails(t)
<2>1. NewTable(t) \in Table
  BY NewTableType
<2>2. NewTable(t).val \in [Names -> Nat \cup {Missing}]
  BY <2>1 DEF Table
<2>3. QED
  BY <1>6, <2>1, <2>2 DEF ReopenFails, AddCollection, Goto, Names
<1>7. QED
  BY <1>1, <1>2, <1>3, <1>4, <1>5, <1>6 DEF Retrieve

LEMMA RuleKeepsTypes ==
    ASSUME TypeOK, NEW t \in Tx, Rule(t)
    PROVE  TypeOK'
<1> USE NamesAssumption, ArgumentsAssumption DEF TypeOK, Labels, vars, txVars,
      copyVars
<1>1. ASSUME NEW x \in Counters, NEW n \in Amounts, SetRelative(t, x, n)
      PROVE  TypeOK'
<2> DEFINE value == Number(table[t].val[x])
<2>1. value \in Nat
  BY DEF Number, Table, Names
<2>2. NonNegative(value + n) \in Nat
  BY <2>1 DEF NonNegative
<2> HIDE DEF value
<2>3. SetVal(table[t], x, NonNegative(value + n)) \in Table
  BY <2>2, SetValType DEF Names
<2>4. table' = [table EXCEPT ![t] = SetVal(table[t], x, NonNegative(value + n))]
  BY <1>1 DEF SetRelative, value
<2>5. table' \in [Tx -> Table]
  BY <2>3, <2>4
<2>6. Original(orig[t][x], value) \in Nat \cup {Missing}
  BY <2>1 DEF Original, Names
<2>7. orig' = [orig EXCEPT ![t][x] = Original(orig[t][x], value)]
  BY <1>1 DEF SetRelative, value
<2>8. orig' \in [Tx -> [Names -> Nat \cup {Missing}]]
  BY <2>6, <2>7 DEF Names
<2>9. net' \in [Tx -> [Counters -> Nat \cup {Missing}]]
  BY <1>1 DEF SetRelative
<2>10. QED
  BY <1>1, <2>5, <2>8, <2>9 DEF SetRelative, Change
<1>2. ASSUME NEW x \in Counters, NEW n \in Values, SetAbsolute(t, x, n)
      PROVE  TypeOK'
<2>1. SetVal(table[t], x, n) \in Table
  BY <1>2, SetValType DEF Names
<2>2. table' \in [Tx -> Table]
  BY <1>2, <2>1 DEF SetAbsolute
<2>3. net' \in [Tx -> [Counters -> Nat \cup {Missing}]]
  BY <1>2 DEF SetAbsolute
<2>4. QED
  BY <1>2, <2>2, <2>3 DEF SetAbsolute, Change
<1>3. ASSUME NEW x \in Counters \cup {KEY}, Unset(t, x)
      PROVE  TypeOK'
<2>1. SetVal(table[t], x, Missing) \in Table
  BY <1>3, SetValType DEF Names
<2>2. table' \in [Tx -> Table]
  BY <1>3, <2>1 DEF Unset
<2>3. net' \in [Tx -> [Counters -> Nat \cup {Missing}]]
  BY <1>3 DEF Unset
<2>4. QED
  BY <1>3, <2>2, <2>3 DEF Unset, Change
<1>4. ASSUME NEW x \in Counters \cup {KEY}, NEW n \in Delays, ExpireVar(t, x, n)
      PROVE  TypeOK'
<2>1. SetExp(table[t], x, req[t] + n) \in Table
  BY <1>4, SetExpType DEF Names
<2>2. table' \in [Tx -> Table]
  BY <1>4, <2>1 DEF ExpireVar
<2>3. net' \in [Tx -> [Counters -> Nat \cup {Missing}]]
  BY <1>4 DEF ExpireVar
<2>4. QED
  BY <1>4, <2>2, <2>3 DEF ExpireVar, Change
<1>5. ASSUME NEW x \in Counters, DeprecateVar(t, x)
      PROVE  TypeOK'
<2>0. Deprecated(t, x) \in Nat
  BY <1>5, DeprecatedType DEF DeprecateVar, Table, Names
<2>1. SetVal(table[t], x, Deprecated(t, x)) \in Table
  BY <2>0, SetValType DEF Names
<2>2. table' \in [Tx -> Table]
  BY <1>5, <2>1 DEF DeprecateVar
<2>3. net' \in [Tx -> [Counters -> Nat \cup {Missing}]]
  BY <1>5 DEF DeprecateVar
<2>4. QED
  BY <1>5, <2>2, <2>3 DEF DeprecateVar, Change
<1>6. QED
  BY <1>1, <1>2, <1>3, <1>4, <1>5 DEF Rule

LEMMA StoreKeepsTypes ==
    ASSUME TypeOK, NEW t \in Tx, Store(t)
    PROVE  TypeOK'
<1> USE NamesAssumption, ArgumentsAssumption DEF TypeOK, Labels, vars, txVars,
      copyVars
<1>1. CASE PersistDirty(t)
<2>1. Prepared(table[t]) \in Table
  BY PreparedType
<2>2. QED
  BY <1>1, <2>1 DEF PersistDirty, Goto
<1>2. CASE PersistClean(t)
  BY <1>2, BlankType DEF PersistClean, DropCopy, Goto
<1>3. CASE LockFile(t)
  BY <1>3 DEF LockFile, Goto
<1>4. CASE LockFails(t)
  BY <1>4, BlankType DEF LockFails, DropCopy, Goto
<1>5. CASE Reread(t)
<2>1. Live(db[key[t]], req[t]) \in Table \cup {NoTable}
  BY LiveType
<2>2. QED
  BY <1>5, <2>1 DEF Reread, DbDelete, Goto
<1>6. CASE Write(t)
<2>1. Merged(t) \in Table
  BY MergedType
<2>2. QED
  BY <1>6, <2>1, BlankType DEF Write, DropCopy, Goto
<1>7. CASE WriteFails(t)
  BY <1>7, BlankType DEF WriteFails, DropCopy, Goto
<1>8. QED
  BY <1>1, <1>2, <1>3, <1>4, <1>5, <1>6, <1>7 DEF Store

LEMMA StaleKeepsTypes ==
    ASSUME TypeOK, NEW t \in Tx, RemoveStale(t)
    PROVE  TypeOK'
<1> USE NamesAssumption, ArgumentsAssumption DEF TypeOK, Labels, vars, txVars,
      copyVars
<1>1. CASE SkipStale(t)
  BY <1>1 DEF SkipStale, Finish, Goto
<1>2. CASE ListKeys(t)
  BY <1>2 DEF ListKeys, Goto
<1>3. CASE StaleDone(t)
  BY <1>3 DEF StaleDone, Finish, Goto
<1>4. CASE DeleteStale(t)
  BY <1>4 DEF DeleteStale, DbDelete, Goto
<1>5. CASE DeleteStaleFails(t)
  BY <1>5 DEF DeleteStaleFails, Finish, Goto
<1>6. ASSUME NEW k \in Keys, FetchFresh(t, k)
      PROVE  TypeOK'
  BY <1>6 DEF FetchFresh, Goto
<1>7. ASSUME NEW k \in Keys, FetchStale(t, k)
      PROVE  TypeOK'
  BY <1>7 DEF FetchStale, Goto
<1>8. QED
  BY <1>1, <1>2, <1>3, <1>4, <1>5, <1>6, <1>7 DEF RemoveStale

LEMMA ProcessKeepsTypes ==
    ASSUME TypeOK, NEW t \in Tx,
           Crash(t) \/ \E k \in Keys : Start(t, k)
    PROVE  TypeOK'
<1> USE NamesAssumption, ArgumentsAssumption DEF TypeOK, Labels, vars, txVars,
      copyVars
<1>1. ASSUME NEW k \in Keys, Start(t, k)
      PROVE  TypeOK'
  BY <1>1 DEF Start, Goto
<1>2. CASE Crash(t)
  BY <1>2, BlankType DEF Crash, DropCopy, Goto, Finish
<1>3. QED
  BY <1>1, <1>2

LEMMA TypeInit == Init => TypeOK
  BY BlankType, EarlierType, NamesAssumption
  DEF Init, TypeOK, Labels

LEMMA TypeStep ==
    TypeOK /\ [Next]_vars => TypeOK'
<1> SUFFICES ASSUME TypeOK, [Next]_vars
             PROVE  TypeOK'
  OBVIOUS
<1>1. CASE UNCHANGED vars
  BY <1>1 DEF TypeOK, vars, txVars, copyVars
<1>2. CASE Tick
  BY <1>2 DEF Tick, TypeOK, txVars, copyVars
<1>3. ASSUME NEW t \in Tx, Rule(t) \/ Step(t) \/ Crash(t) PROVE TypeOK'
  BY <1>3, RetrieveKeepsTypes, RuleKeepsTypes, StoreKeepsTypes,
     StaleKeepsTypes, ProcessKeepsTypes DEF Step
<1>4. ASSUME NEW t \in Tx, NEW k \in Keys, Start(t, k) PROVE TypeOK'
  BY <1>4, ProcessKeepsTypes
<1>5. QED
  BY <1>1, <1>2, <1>3, <1>4 DEF Next

\* Every state of the engine's persistent collections has the right types; in
\* particular neither setvar, nor deprecatevar, nor the merge of
\* collection_store ever leaves a negative value.
THEOREM TypesCorrect == Spec => []TypeOK
  BY TypeInit, TypeStep, PTL DEF Spec

(***************************************************************************)
(* The inductive invariant and safety.                                     *)
(***************************************************************************)

Working == {"rules", "lock", "reread", "write"}
Storing == {"lock", "reread", "write"}

\* A copy that is being used has a time limit; so has what is stored.
LimitShape ==
    /\ \A t \in Tx :
         /\ pc[t] \in Working => table[t].exp[KEY] # Missing
         /\ pc[t] \in Storing => table[t].exp[KEY] <= now + ColTimeout
    /\ NoExpiredValueSeen
    /\ EveryCollectionExpires

\* UPDATE_COUNTER is always there and never expires.  A copy counts as many
\* updates as when it was retrieved, and one more when it is to be stored.
CountShape ==
    /\ \A t \in Tx :
         /\ table[t].exp[UPDATES] = Missing
         /\ pc[t] \in Working =>
              /\ orig[t][UPDATES] # Missing
              /\ table[t].val[UPDATES] # Missing
         /\ pc[t] \in Storing =>
              table[t].val[UPDATES] = orig[t][UPDATES] + 1
         /\ pc[t] = "rules" => table[t].val[UPDATES] = orig[t][UPDATES]
    /\ \A k \in Keys : db[k] # NoTable =>
         /\ db[k].val[UPDATES] # Missing
         /\ db[k].exp[UPDATES] = Missing

\* A counter to which only was added is its original value and what was added.
NetShape ==
    \A t \in Tx, x \in Counters :
       /\ pc[t] \notin Working => orig[t][x] = Missing /\ net[t][x] = 0
       /\ net[t][x] # Missing /\ orig[t][x] = Missing => net[t][x] = 0
       /\ net[t][x] # Missing /\ orig[t][x] # Missing =>
            /\ table[t].val[x] # Missing
            /\ table[t].val[x] = orig[t][x] + net[t][x]

\* What was read under the lock is what is stored, and is not written before
\* it is expired.
StoredShape ==
    \A t \in Tx : pc[t] = "write" /\ SameName =>
       /\ stored[t] = Live(db[key[t]], req[t])
       /\ db[key[t]] # NoTable => stored[t] # NoTable

-----------------------------------------------------------------------------
\* What collection_retrieve_ex returns has its KEY, with the time limit that
\* is stored, and no variable that has expired; a variable without a time
\* limit is the one that is stored.
LEMMA LiveFacts ==
    ASSUME NEW c \in Table \cup {NoTable}, NEW time \in Nat,
           Live(c, time) # NoTable
    PROVE  /\ c \in Table
           /\ Live(c, time) \in Table
           /\ Live(c, time).exp[KEY] = c.exp[KEY]
           /\ \A x \in Names : Live(c, time).exp[x] # Missing =>
                                  Live(c, time).exp[x] > time
           /\ \A x \in Names : c.exp[x] = Missing =>
                /\ Live(c, time).val[x] = c.val[x]
                /\ Live(c, time).exp[x] = Missing
<1>1. c \in Table /\ c # NoTable /\ Live(c, time) = Unexpired(c, time)
  BY DEF Live
<1>2. Unexpired(c, time) \in Table
  BY <1>1, LiveType, TableAssumption
<1>3. KEY \notin Due(c, time)
  BY <1>1 DEF Live, Unexpired, Names
<1>4. Unexpired(c, time).exp[KEY] = c.exp[KEY]
  BY <1>3 DEF Unexpired, Names
<1>5. \A x \in Names : Unexpired(c, time).exp[x] # Missing =>
                          Unexpired(c, time).exp[x] > time
  BY <1>1 DEF Unexpired, Due, Table
<1>6. \A x \in Names : c.exp[x] = Missing =>
         /\ Unexpired(c, time).val[x] = c.val[x]
         /\ Unexpired(c, time).exp[x] = Missing
  BY DEF Unexpired, Due
<1>7. QED
  BY <1>1, <1>2, <1>4, <1>5, <1>6

-----------------------------------------------------------------------------
(* The lock.                                                               *)

LEMMA RetrieveKeepsLock ==
    ASSUME TypeOK, LockHeldToStore, NEW t \in Tx, Retrieve(t)
    PROVE  LockHeldToStore'
<1> USE NamesAssumption, ArgumentsAssumption DEF TypeOK, vars, txVars,
      copyVars, LockHeldToStore
<1>1. CASE RetrieveLive(t)
  BY <1>1 DEF RetrieveLive, AddCollection, Goto
<1>2. CASE RetrieveNothing(t)
  BY <1>2 DEF RetrieveNothing, AddCollection, Goto
<1>3. CASE RetrieveFails(t)
  BY <1>3 DEF RetrieveFails, AddCollection, Goto
<1>4. CASE RetrieveExpired(t)
  BY <1>4 DEF RetrieveExpired, Goto
<1>5. CASE DeleteExpired(t)
  BY <1>5 DEF DeleteExpired, AddCollection, DbDelete, Goto
<1>6. CASE ReopenFails(t)
  BY <1>6 DEF ReopenFails, AddCollection, Goto
<1>7. QED
  BY <1>1, <1>2, <1>3, <1>4, <1>5, <1>6 DEF Retrieve

LEMMA RuleKeepsLock ==
    ASSUME TypeOK, LockHeldToStore, NEW t \in Tx, Rule(t)
    PROVE  LockHeldToStore'
<1> USE NamesAssumption, ArgumentsAssumption DEF TypeOK, vars, txVars,
      copyVars, LockHeldToStore
<1>1. ASSUME NEW x \in Counters, NEW n \in Amounts, SetRelative(t, x, n)
      PROVE  LockHeldToStore'
  BY <1>1 DEF SetRelative, Change, Original, NonNegative, Number
<1>2. ASSUME NEW x \in Counters, NEW n \in Values, SetAbsolute(t, x, n)
      PROVE  LockHeldToStore'
  BY <1>2 DEF SetAbsolute, Change
<1>3. ASSUME NEW x \in Counters \cup {KEY}, Unset(t, x)
      PROVE  LockHeldToStore'
  BY <1>3 DEF Unset, Change
<1>4. ASSUME NEW x \in Counters \cup {KEY}, NEW n \in Delays, ExpireVar(t, x, n)
      PROVE  LockHeldToStore'
  BY <1>4 DEF ExpireVar, Change
<1>5. ASSUME NEW x \in Counters, DeprecateVar(t, x)
      PROVE  LockHeldToStore'
  BY <1>5 DEF DeprecateVar, Change
<1>6. QED
  BY <1>1, <1>2, <1>3, <1>4, <1>5 DEF Rule

LEMMA StoreKeepsLock ==
    ASSUME TypeOK, LockHeldToStore, NEW t \in Tx, Store(t)
    PROVE  LockHeldToStore'
<1> USE NamesAssumption, ArgumentsAssumption DEF TypeOK, vars, txVars,
      copyVars, LockHeldToStore
<1>1. CASE PersistDirty(t)
  BY <1>1 DEF PersistDirty, Goto
<1>2. CASE PersistClean(t)
  BY <1>2 DEF PersistClean, DropCopy, Goto
<1>3. CASE LockFile(t)
  BY <1>3 DEF LockFile, Goto
<1>4. CASE LockFails(t)
  BY <1>4 DEF LockFails, DropCopy, Goto
<1>5. CASE Reread(t)
  BY <1>5 DEF Reread, DbDelete, Goto
<1>6. CASE Write(t)
  BY <1>6 DEF Write, DropCopy, Goto
<1>7. CASE WriteFails(t)
  BY <1>7 DEF WriteFails, DropCopy, Goto
<1>8. QED
  BY <1>1, <1>2, <1>3, <1>4, <1>5, <1>6, <1>7 DEF Store

LEMMA StaleKeepsLock ==
    ASSUME TypeOK, LockHeldToStore, NEW t \in Tx, RemoveStale(t)
    PROVE  LockHeldToStore'
<1> USE NamesAssumption, ArgumentsAssumption DEF TypeOK, vars, txVars,
      copyVars, LockHeldToStore
<1>1. CASE SkipStale(t)
  BY <1>1 DEF SkipStale, Finish, Goto
<1>2. CASE ListKeys(t)
  BY <1>2 DEF ListKeys, Goto
<1>3. CASE StaleDone(t)
  BY <1>3 DEF StaleDone, Finish, Goto
<1>4. CASE DeleteStale(t)
  BY <1>4 DEF DeleteStale, DbDelete, Goto
<1>5. CASE DeleteStaleFails(t)
  BY <1>5 DEF DeleteStaleFails, Finish, Goto
<1>6. ASSUME NEW k \in Keys, FetchFresh(t, k)
      PROVE  LockHeldToStore'
  BY <1>6 DEF FetchFresh, Goto
<1>7. ASSUME NEW k \in Keys, FetchStale(t, k)
      PROVE  LockHeldToStore'
  BY <1>7 DEF FetchStale, Goto
<1>8. QED
  BY <1>1, <1>2, <1>3, <1>4, <1>5, <1>6, <1>7 DEF RemoveStale

LEMMA ProcessKeepsLock ==
    ASSUME TypeOK, LockHeldToStore, NEW t \in Tx,
           Crash(t) \/ \E k \in Keys : Start(t, k)
    PROVE  LockHeldToStore'
<1> USE NamesAssumption, ArgumentsAssumption DEF TypeOK, vars, txVars,
      copyVars, LockHeldToStore
<1>1. ASSUME NEW k \in Keys, Start(t, k)
      PROVE  LockHeldToStore'
  BY <1>1 DEF Start, Goto
<1>2. CASE Crash(t)
  BY <1>2 DEF Crash, Finish, DropCopy, Goto
<1>3. QED
  BY <1>1, <1>2

LEMMA LockInit == Init => LockHeldToStore
  BY NamesAssumption DEF Init, LockHeldToStore

LEMMA LockStep ==
    TypeOK /\ LockHeldToStore /\ [Next]_vars => LockHeldToStore'
<1> SUFFICES ASSUME TypeOK, LockHeldToStore, [Next]_vars
             PROVE  LockHeldToStore'
  OBVIOUS
<1>1. CASE UNCHANGED vars
  BY <1>1 DEF LockHeldToStore, vars
<1>2. CASE Tick
  BY <1>2 DEF Tick, LockHeldToStore
<1>3. ASSUME NEW t \in Tx, Rule(t) \/ Step(t) \/ Crash(t) PROVE LockHeldToStore'
  BY <1>3, RetrieveKeepsLock, RuleKeepsLock, StoreKeepsLock,
     StaleKeepsLock, ProcessKeepsLock DEF Step
<1>4. ASSUME NEW t \in Tx, NEW k \in Keys, Start(t, k) PROVE LockHeldToStore'
  BY <1>4, ProcessKeepsLock
<1>5. QED
  BY <1>1, <1>2, <1>3, <1>4 DEF Next

\* collection_store holds the exclusive lock on the file from before it reads
\* the collection again until after it has written it, alone, and no path
\* keeps it.
THEOREM LockCorrect == Spec => []LockHeldToStore
  BY LockInit, LockStep, TypeInit, TypeStep, PTL DEF Spec

-----------------------------------------------------------------------------
(* Time limits.                                                            *)

LEMMA RetrieveKeepsLimits ==
    ASSUME TypeOK, LimitShape, NEW t \in Tx, Retrieve(t)
    PROVE  LimitShape'
<1> USE NamesAssumption, ArgumentsAssumption DEF TypeOK, vars, txVars,
      copyVars, LimitShape, Working, Storing, EveryCollectionExpires,
      NoExpiredValueSeen
<1>1. CASE RetrieveLive(t)
<2> DEFINE c == Live(db[key[t]], req[t])
<2>1. /\ db[key[t]] \in Table /\ c \in Table
      /\ c.exp[KEY] = db[key[t]].exp[KEY]
      /\ \A x \in Names : c.exp[x] # Missing => c.exp[x] > req[t]
  BY <1>1, LiveFacts DEF RetrieveLive
<2>2. db[key[t]] # NoTable
  BY <2>1, TableAssumption
<2> HIDE DEF c
<2>3. table' = [table EXCEPT ![t] = c]
  BY <1>1 DEF RetrieveLive, AddCollection, c
<2>4. QED
  BY <1>1, <2>1, <2>2, <2>3 DEF RetrieveLive, AddCollection, Goto
<1>2. CASE RetrieveNothing(t)
<2>1. /\ NewTable(t).exp[KEY] = req[t] + ColTimeout
      /\ \A x \in Names \ {KEY} : NewTable(t).exp[x] = Missing
  BY DEF NewTable, Blank, Names
<2>2. QED
  BY <1>2, <2>1 DEF RetrieveNothing, AddCollection, Goto, Names
<1>3. CASE RetrieveFails(t)
<2>1. /\ NewTable(t).exp[KEY] = req[t] + ColTimeout
      /\ \A x \in Names \ {KEY} : NewTable(t).exp[x] = Missing
  BY DEF NewTable, Blank, Names
<2>2. QED
  BY <1>3, <2>1 DEF RetrieveFails, AddCollection, Goto, Names
<1>4. CASE RetrieveExpired(t)
  BY <1>4 DEF RetrieveExpired, Goto
<1>5. CASE DeleteExpired(t)
<2>1. /\ NewTable(t).exp[KEY] = req[t] + ColTimeout
      /\ \A x \in Names \ {KEY} : NewTable(t).exp[x] = Missing
  BY DEF NewTable, Blank, Names
<2>2. QED
  BY <1>5, <2>1 DEF DeleteExpired, AddCollection, DbDelete, Goto, Names
<1>6. CASE ReopenFails(t)
<2>1. /\ NewTable(t).exp[KEY] = req[t] + ColTimeout
      /\ \A x \in Names \ {KEY} : NewTable(t).exp[x] = Missing
  BY DEF NewTable, Blank, Names
<2>2. QED
  BY <1>6, <2>1 DEF ReopenFails, AddCollection, Goto, Names
<1>7. QED
  BY <1>1, <1>2, <1>3, <1>4, <1>5, <1>6 DEF Retrieve

LEMMA RuleKeepsLimits ==
    ASSUME TypeOK, LimitShape, NEW t \in Tx, Rule(t)
    PROVE  LimitShape'
<1> USE NamesAssumption, ArgumentsAssumption DEF TypeOK, vars, txVars,
      copyVars, LimitShape, Working, Storing, EveryCollectionExpires,
      NoExpiredValueSeen
<1>1. ASSUME NEW x \in Counters, NEW n \in Amounts, SetRelative(t, x, n)
      PROVE  LimitShape'
<2>1. \A u \in Tx : table'[u].exp = table[u].exp
  BY <1>1 DEF SetRelative, SetVal
<2>2. QED
  BY <1>1, <2>1 DEF SetRelative, Change
<1>2. ASSUME NEW x \in Counters, NEW n \in Values, SetAbsolute(t, x, n)
      PROVE  LimitShape'
<2>1. \A u \in Tx : table'[u].exp = table[u].exp
  BY <1>2 DEF SetAbsolute, SetVal
<2>2. QED
  BY <1>2, <2>1 DEF SetAbsolute, Change
<1>3. ASSUME NEW x \in Counters \cup {KEY}, Unset(t, x)
      PROVE  LimitShape'
<2>1. \A u \in Tx : table'[u].exp = table[u].exp
  BY <1>3 DEF Unset, SetVal
<2>2. QED
  BY <1>3, <2>1 DEF Unset, Change
<1>4. ASSUME NEW x \in Counters \cup {KEY}, NEW n \in Delays, ExpireVar(t, x, n)
      PROVE  LimitShape'
<2>1. table'[t].exp = [table[t].exp EXCEPT ![x] = req[t] + n]
  BY <1>4 DEF ExpireVar, SetExp
<2>2. table[t].exp \in [Names -> Nat \cup {Missing}] /\ req[t] + n > req[t]
  BY DEF Table
<2>3. \A u \in Tx \ {t} : table'[u] = table[u]
  BY <1>4 DEF ExpireVar
<2>4. \A y \in Names : table'[t].exp[y] =
                          IF y = x THEN req[t] + n ELSE table[t].exp[y]
  BY <2>1, <2>2 DEF Names
<2>5. /\ pc[t] = "rules" /\ pc' = pc /\ req' = req /\ now' = now /\ db' = db
      /\ KEY \in Names /\ req[t] + n # Missing
  BY <1>4, <2>2 DEF ExpireVar, Change, Names
<2>6. QED
  BY <2>2, <2>3, <2>4, <2>5
<1>5. ASSUME NEW x \in Counters, DeprecateVar(t, x)
      PROVE  LimitShape'
<2>1. \A u \in Tx : table'[u].exp = table[u].exp
  BY <1>5 DEF DeprecateVar, SetVal
<2>2. QED
  BY <1>5, <2>1 DEF DeprecateVar, Change
<1>6. QED
  BY <1>1, <1>2, <1>3, <1>4, <1>5 DEF Rule

LEMMA StoreKeepsLimits ==
    ASSUME TypeOK, LimitShape, NEW t \in Tx, Store(t)
    PROVE  LimitShape'
<1> USE NamesAssumption, ArgumentsAssumption DEF TypeOK, vars, txVars,
      copyVars, LimitShape, Working, Storing, EveryCollectionExpires,
      NoExpiredValueSeen
<1>1. CASE PersistDirty(t)
<2>1. /\ table'[t].exp[KEY] = now + ColTimeout
      /\ \A u \in Tx \ {t} : table'[u] = table[u]
  BY <1>1 DEF PersistDirty, Prepared, Table, Names
<2>2. QED
  BY <1>1, <2>1 DEF PersistDirty, Goto
<1>2. CASE PersistClean(t)
  BY <1>2 DEF PersistClean, DropCopy, Goto
<1>3. CASE LockFile(t)
  BY <1>3 DEF LockFile, Goto
<1>4. CASE LockFails(t)
  BY <1>4 DEF LockFails, DropCopy, Goto
<1>5. CASE Reread(t)
  BY <1>5 DEF Reread, DbDelete, Goto
<1>6. CASE Write(t)
<2>1. Merged(t).exp = table[t].exp
  BY DEF Merged
<2>2. QED
  BY <1>6, <2>1 DEF Write, DropCopy, Goto
<1>7. CASE WriteFails(t)
  BY <1>7 DEF WriteFails, DropCopy, Goto
<1>8. QED
  BY <1>1, <1>2, <1>3, <1>4, <1>5, <1>6, <1>7 DEF Store

LEMMA StaleKeepsLimits ==
    ASSUME TypeOK, LimitShape, NEW t \in Tx, RemoveStale(t)
    PROVE  LimitShape'
<1> USE NamesAssumption, ArgumentsAssumption DEF TypeOK, vars, txVars,
      copyVars, LimitShape, Working, Storing, EveryCollectionExpires,
      NoExpiredValueSeen
<1>1. CASE SkipStale(t)
  BY <1>1 DEF SkipStale, Finish, Goto
<1>2. CASE ListKeys(t)
  BY <1>2 DEF ListKeys, Goto
<1>3. CASE StaleDone(t)
  BY <1>3 DEF StaleDone, Finish, Goto
<1>4. CASE DeleteStale(t)
  BY <1>4 DEF DeleteStale, DbDelete, Goto
<1>5. CASE DeleteStaleFails(t)
  BY <1>5 DEF DeleteStaleFails, Finish, Goto
<1>6. ASSUME NEW k \in Keys, FetchFresh(t, k)
      PROVE  LimitShape'
  BY <1>6 DEF FetchFresh, Goto
<1>7. ASSUME NEW k \in Keys, FetchStale(t, k)
      PROVE  LimitShape'
  BY <1>7 DEF FetchStale, Goto
<1>8. QED
  BY <1>1, <1>2, <1>3, <1>4, <1>5, <1>6, <1>7 DEF RemoveStale

LEMMA ProcessKeepsLimits ==
    ASSUME TypeOK, LimitShape, NEW t \in Tx,
           Crash(t) \/ \E k \in Keys : Start(t, k)
    PROVE  LimitShape'
<1> USE NamesAssumption, ArgumentsAssumption DEF TypeOK, vars, txVars,
      copyVars, LimitShape, Working, Storing, EveryCollectionExpires,
      NoExpiredValueSeen
<1>1. ASSUME NEW k \in Keys, Start(t, k)
      PROVE  LimitShape'
  BY <1>1 DEF Start, Goto
<1>2. CASE Crash(t)
  BY <1>2 DEF Crash, Finish, DropCopy, Goto
<1>3. QED
  BY <1>1, <1>2

LEMMA LimitsInit == Init => LimitShape
  BY NamesAssumption, ArgumentsAssumption
  DEF Init, LimitShape, EveryCollectionExpires, NoExpiredValueSeen, Working,
      Storing, Earlier, Blank, Names

LEMMA LimitsStep ==
    TypeOK /\ LimitShape /\ [Next]_vars => LimitShape'
<1> SUFFICES ASSUME TypeOK, LimitShape, [Next]_vars
             PROVE  LimitShape'
  OBVIOUS
<1>1. CASE UNCHANGED vars
  BY <1>1 DEF LimitShape, EveryCollectionExpires, NoExpiredValueSeen, vars,
     txVars, copyVars
<1>2. CASE Tick
  <2>1. \A t \in Tx : table[t].exp[KEY] # Missing => table[t].exp[KEY] \in Nat
    BY DEF TypeOK, Table, Names
  <2>2. \A k \in Keys : db[k] # NoTable /\ db[k].exp[KEY] # Missing
                          => db[k].exp[KEY] \in Nat
    BY DEF TypeOK, Table, Names
  <2>3. now \in Nat /\ ColTimeout \in Nat
    BY ArgumentsAssumption DEF TypeOK
  <2>4. QED
    BY <1>2, <2>1, <2>2, <2>3
    DEF Tick, LimitShape, EveryCollectionExpires, NoExpiredValueSeen, txVars,
        copyVars, Working, Storing
<1>3. ASSUME NEW t \in Tx, Rule(t) \/ Step(t) \/ Crash(t) PROVE LimitShape'
  BY <1>3, RetrieveKeepsLimits, RuleKeepsLimits, StoreKeepsLimits,
     StaleKeepsLimits, ProcessKeepsLimits DEF Step
<1>4. ASSUME NEW t \in Tx, NEW k \in Keys, Start(t, k) PROVE LimitShape'
  BY <1>4, ProcessKeepsLimits
<1>5. QED
  BY <1>1, <1>2, <1>3, <1>4 DEF Next

\* collections_remove_stale can remove every collection in time: none is
\* stored without __expire_KEY, or with one that is too far away.
THEOREM ExpiryCorrect == Spec => []EveryCollectionExpires
<1>1. LimitShape => EveryCollectionExpires
  BY DEF LimitShape
<1>2. QED
  BY <1>1, LimitsInit, LimitsStep, TypeInit, TypeStep, PTL DEF Spec

\* Rules work on variables that had not expired when the request arrived.
THEOREM NoExpiredCorrect == Spec => []NoExpiredValueSeen
<1>1. LimitShape => NoExpiredValueSeen
  BY DEF LimitShape
<1>2. QED
  BY <1>1, LimitsInit, LimitsStep, TypeInit, TypeStep, PTL DEF Spec

-----------------------------------------------------------------------------
(* Counts of updates.                                                      *)

LEMMA RetrieveKeepsCounts ==
    ASSUME TypeOK, CountShape, NEW t \in Tx, Retrieve(t)
    PROVE  CountShape'
<1> USE NamesAssumption, ArgumentsAssumption DEF TypeOK, vars, txVars,
      copyVars, CountShape, Working, Storing
<1>1. CASE RetrieveLive(t)
<2> DEFINE c == Live(db[key[t]], req[t])
<2>1. /\ db[key[t]] \in Table
      /\ \A x \in Names : db[key[t]].exp[x] = Missing =>
           c.val[x] = db[key[t]].val[x] /\ c.exp[x] = Missing
  BY <1>1, LiveFacts DEF RetrieveLive
<2>2. db[key[t]] # NoTable
  BY <2>1, TableAssumption
<2>3. /\ db[key[t]].val[UPDATES] # Missing
      /\ db[key[t]].exp[UPDATES] = Missing
  BY <2>2
<2>4. c.val[UPDATES] # Missing /\ c.exp[UPDATES] = Missing
  BY <2>1, <2>3 DEF Names
<2> HIDE DEF c
<2>5. /\ table' = [table EXCEPT ![t] = c]
      /\ orig' = [orig EXCEPT ![t][UPDATES] = c.val[UPDATES]]
  BY <1>1 DEF RetrieveLive, AddCollection, c
<2>6. QED
  BY <1>1, <2>4, <2>5 DEF RetrieveLive, AddCollection, Goto, Names
<1>2. CASE RetrieveNothing(t)
<2>1. NewTable(t).val[UPDATES] = 0 /\ NewTable(t).exp[UPDATES] = Missing
  BY DEF NewTable, Blank, Names
<2>2. QED
  BY <1>2, <2>1 DEF RetrieveNothing, AddCollection, Goto, Names
<1>3. CASE RetrieveFails(t)
<2>1. NewTable(t).val[UPDATES] = 0 /\ NewTable(t).exp[UPDATES] = Missing
  BY DEF NewTable, Blank, Names
<2>2. QED
  BY <1>3, <2>1 DEF RetrieveFails, AddCollection, Goto, Names
<1>4. CASE RetrieveExpired(t)
  BY <1>4 DEF RetrieveExpired, Goto
<1>5. CASE DeleteExpired(t)
<2>1. NewTable(t).val[UPDATES] = 0 /\ NewTable(t).exp[UPDATES] = Missing
  BY DEF NewTable, Blank, Names
<2>2. QED
  BY <1>5, <2>1 DEF DeleteExpired, AddCollection, DbDelete, Goto, Names
<1>6. CASE ReopenFails(t)
<2>1. NewTable(t).val[UPDATES] = 0 /\ NewTable(t).exp[UPDATES] = Missing
  BY DEF NewTable, Blank, Names
<2>2. QED
  BY <1>6, <2>1 DEF ReopenFails, AddCollection, Goto, Names
<1>7. QED
  BY <1>1, <1>2, <1>3, <1>4, <1>5, <1>6 DEF Retrieve

LEMMA RuleKeepsCounts ==
    ASSUME TypeOK, CountShape, NEW t \in Tx, Rule(t)
    PROVE  CountShape'
<1> USE NamesAssumption, ArgumentsAssumption DEF TypeOK, vars, txVars,
      copyVars, CountShape, Working, Storing
<1>1. ASSUME NEW x \in Counters, NEW n \in Amounts, SetRelative(t, x, n)
      PROVE  CountShape'
<2>1. \A u \in Tx : /\ table'[u].val[UPDATES] = table[u].val[UPDATES]
                     /\ table'[u].exp[UPDATES] = table[u].exp[UPDATES]
  BY <1>1 DEF SetRelative, SetVal, SetExp, Table, Names
<2>2. \A u \in Tx : orig'[u][UPDATES] = orig[u][UPDATES]
  BY <1>1 DEF SetRelative, Names
<2>3. QED
  BY <1>1, <2>1, <2>2 DEF SetRelative, Change
<1>2. ASSUME NEW x \in Counters, NEW n \in Values, SetAbsolute(t, x, n)
      PROVE  CountShape'
<2>1. \A u \in Tx : /\ table'[u].val[UPDATES] = table[u].val[UPDATES]
                     /\ table'[u].exp[UPDATES] = table[u].exp[UPDATES]
  BY <1>2 DEF SetAbsolute, SetVal, SetExp, Table, Names
<2>2. \A u \in Tx : orig'[u][UPDATES] = orig[u][UPDATES]
  BY <1>2 DEF SetAbsolute, Names
<2>3. QED
  BY <1>2, <2>1, <2>2 DEF SetAbsolute, Change
<1>3. ASSUME NEW x \in Counters \cup {KEY}, Unset(t, x)
      PROVE  CountShape'
<2>1. \A u \in Tx : /\ table'[u].val[UPDATES] = table[u].val[UPDATES]
                     /\ table'[u].exp[UPDATES] = table[u].exp[UPDATES]
  BY <1>3 DEF Unset, SetVal, SetExp, Table, Names
<2>2. \A u \in Tx : orig'[u][UPDATES] = orig[u][UPDATES]
  BY <1>3 DEF Unset, Names
<2>3. QED
  BY <1>3, <2>1, <2>2 DEF Unset, Change
<1>4. ASSUME NEW x \in Counters \cup {KEY}, NEW n \in Delays, ExpireVar(t, x, n)
      PROVE  CountShape'
<2>1. \A u \in Tx : /\ table'[u].val[UPDATES] = table[u].val[UPDATES]
                     /\ table'[u].exp[UPDATES] = table[u].exp[UPDATES]
  BY <1>4 DEF ExpireVar, SetVal, SetExp, Table, Names
<2>2. \A u \in Tx : orig'[u][UPDATES] = orig[u][UPDATES]
  BY <1>4 DEF ExpireVar, Names
<2>3. QED
  BY <1>4, <2>1, <2>2 DEF ExpireVar, Change
<1>5. ASSUME NEW x \in Counters, DeprecateVar(t, x)
      PROVE  CountShape'
<2>1. \A u \in Tx : /\ table'[u].val[UPDATES] = table[u].val[UPDATES]
                     /\ table'[u].exp[UPDATES] = table[u].exp[UPDATES]
  BY <1>5 DEF DeprecateVar, SetVal, SetExp, Table, Names
<2>2. \A u \in Tx : orig'[u][UPDATES] = orig[u][UPDATES]
  BY <1>5 DEF DeprecateVar, Names
<2>3. QED
  BY <1>5, <2>1, <2>2 DEF DeprecateVar, Change
<1>6. QED
  BY <1>1, <1>2, <1>3, <1>4, <1>5 DEF Rule

LEMMA StoreKeepsCounts ==
    ASSUME TypeOK, CountShape, NEW t \in Tx, Store(t)
    PROVE  CountShape'
<1> USE NamesAssumption, ArgumentsAssumption DEF TypeOK, vars, txVars,
      copyVars, CountShape, Working, Storing
<1>1. CASE PersistDirty(t)
<2>1. /\ table'[t].val[UPDATES] = table[t].val[UPDATES] + 1
      /\ table'[t].exp[UPDATES] = table[t].exp[UPDATES]
      /\ \A u \in Tx \ {t} : table'[u] = table[u]
  BY <1>1 DEF PersistDirty, Prepared, Number, Table, Names
<2>2. orig[t][UPDATES] \in Nat
  BY <1>1 DEF PersistDirty, Names
<2>3. QED
  BY <1>1, <2>1, <2>2 DEF PersistDirty, Goto
<1>2. CASE PersistClean(t)
  BY <1>2 DEF PersistClean, DropCopy, Goto, Blank, Names
<1>3. CASE LockFile(t)
  BY <1>3 DEF LockFile, Goto
<1>4. CASE LockFails(t)
  BY <1>4 DEF LockFails, DropCopy, Goto, Blank, Names
<1>5. CASE Reread(t)
  BY <1>5 DEF Reread, DbDelete, Goto
<1>6. CASE Write(t)
<2>1. Merged(t).exp = table[t].exp
  BY DEF Merged
<2>2. Merged(t).val[UPDATES] # Missing
  <3>1. CASE HasDelta(t, UPDATES)
    <4>1. /\ stored[t].val[UPDATES] \in Nat
          /\ table[t].val[UPDATES] \in Nat
          /\ orig[t][UPDATES] \in Nat
      BY <3>1 DEF HasDelta, Table, Names
    <4>2. NonNegative(stored[t].val[UPDATES] + Delta(t, UPDATES)) \in Nat
      BY <4>1 DEF NonNegative, Delta
    <4>3. QED
      BY <3>1, <4>2 DEF Merged, Names
  <3>2. CASE ~HasDelta(t, UPDATES)
    BY <1>6, <3>2 DEF Merged, Write, Names
  <3>3. QED
    BY <3>1, <3>2
<2>3. QED
  BY <1>6, <2>1, <2>2 DEF Write, DropCopy, Blank, Goto, Names
<1>7. CASE WriteFails(t)
  BY <1>7 DEF WriteFails, DropCopy, Goto, Blank, Names
<1>8. QED
  BY <1>1, <1>2, <1>3, <1>4, <1>5, <1>6, <1>7 DEF Store

LEMMA StaleKeepsCounts ==
    ASSUME TypeOK, CountShape, NEW t \in Tx, RemoveStale(t)
    PROVE  CountShape'
<1> USE NamesAssumption, ArgumentsAssumption DEF TypeOK, vars, txVars,
      copyVars, CountShape, Working, Storing
<1>1. CASE SkipStale(t)
  BY <1>1 DEF SkipStale, Finish, Goto
<1>2. CASE ListKeys(t)
  BY <1>2 DEF ListKeys, Goto
<1>3. CASE StaleDone(t)
  BY <1>3 DEF StaleDone, Finish, Goto
<1>4. CASE DeleteStale(t)
  BY <1>4 DEF DeleteStale, DbDelete, Goto
<1>5. CASE DeleteStaleFails(t)
  BY <1>5 DEF DeleteStaleFails, Finish, Goto
<1>6. ASSUME NEW k \in Keys, FetchFresh(t, k)
      PROVE  CountShape'
  BY <1>6 DEF FetchFresh, Goto
<1>7. ASSUME NEW k \in Keys, FetchStale(t, k)
      PROVE  CountShape'
  BY <1>7 DEF FetchStale, Goto
<1>8. QED
  BY <1>1, <1>2, <1>3, <1>4, <1>5, <1>6, <1>7 DEF RemoveStale

LEMMA ProcessKeepsCounts ==
    ASSUME TypeOK, CountShape, NEW t \in Tx,
           Crash(t) \/ \E k \in Keys : Start(t, k)
    PROVE  CountShape'
<1> USE NamesAssumption, ArgumentsAssumption DEF TypeOK, vars, txVars,
      copyVars, CountShape, Working, Storing
<1>1. ASSUME NEW k \in Keys, Start(t, k)
      PROVE  CountShape'
  BY <1>1 DEF Start, Goto
<1>2. CASE Crash(t)
  BY <1>2 DEF Crash, Finish, DropCopy, Goto, Blank, Names
<1>3. QED
  BY <1>1, <1>2

LEMMA CountsInit == Init => CountShape
  BY NamesAssumption
  DEF Init, CountShape, Working, Storing, Earlier, Blank, Names

LEMMA CountsStep ==
    TypeOK /\ CountShape /\ [Next]_vars => CountShape'
<1> SUFFICES ASSUME TypeOK, CountShape, [Next]_vars
             PROVE  CountShape'
  OBVIOUS
<1>1. CASE UNCHANGED vars
  BY <1>1 DEF CountShape, vars, txVars, copyVars
<1>2. CASE Tick
  BY <1>2 DEF Tick, CountShape, txVars, copyVars
<1>3. ASSUME NEW t \in Tx, Rule(t) \/ Step(t) \/ Crash(t) PROVE CountShape'
  BY <1>3, RetrieveKeepsCounts, RuleKeepsCounts, StoreKeepsCounts,
     StaleKeepsCounts, ProcessKeepsCounts DEF Step
<1>4. ASSUME NEW t \in Tx, NEW k \in Keys, Start(t, k) PROVE CountShape'
  BY <1>4, ProcessKeepsCounts
<1>5. QED
  BY <1>1, <1>2, <1>3, <1>4 DEF Next
-----------------------------------------------------------------------------
(* What was added to the counters.                                         *)

LEMMA RetrieveKeepsNet ==
    ASSUME TypeOK, NetShape, NEW t \in Tx, Retrieve(t)
    PROVE  NetShape'
<1> USE NamesAssumption, ArgumentsAssumption DEF TypeOK, vars, txVars,
      copyVars, NetShape, Working, Storing
<1>1. CASE RetrieveLive(t)
<2>1. \A u \in Tx, x \in Counters : orig'[u][x] = orig[u][x]
  BY <1>1 DEF RetrieveLive, AddCollection, Names
<2>2. QED
  BY <1>1, <2>1 DEF RetrieveLive, AddCollection, Goto
<1>2. CASE RetrieveNothing(t)
<2>1. \A u \in Tx, x \in Counters : orig'[u][x] = orig[u][x]
  BY <1>2 DEF RetrieveNothing, AddCollection, Names
<2>2. QED
  BY <1>2, <2>1 DEF RetrieveNothing, AddCollection, Goto
<1>3. CASE RetrieveFails(t)
<2>1. \A u \in Tx, x \in Counters : orig'[u][x] = orig[u][x]
  BY <1>3 DEF RetrieveFails, AddCollection, Names
<2>2. QED
  BY <1>3, <2>1 DEF RetrieveFails, AddCollection, Goto
<1>4. CASE RetrieveExpired(t)
  BY <1>4 DEF RetrieveExpired, Goto
<1>5. CASE DeleteExpired(t)
<2>1. \A u \in Tx, x \in Counters : orig'[u][x] = orig[u][x]
  BY <1>5 DEF DeleteExpired, AddCollection, Names
<2>2. QED
  BY <1>5, <2>1 DEF DeleteExpired, AddCollection, Goto
<1>6. CASE ReopenFails(t)
<2>1. \A u \in Tx, x \in Counters : orig'[u][x] = orig[u][x]
  BY <1>6 DEF ReopenFails, AddCollection, Names
<2>2. QED
  BY <1>6, <2>1 DEF ReopenFails, AddCollection, Goto
<1>7. QED
  BY <1>1, <1>2, <1>3, <1>4, <1>5, <1>6 DEF Retrieve

LEMMA RuleKeepsNet ==
    ASSUME TypeOK, NetShape, NEW t \in Tx, Rule(t)
    PROVE  NetShape'
<1> USE NamesAssumption, ArgumentsAssumption DEF TypeOK, vars, txVars,
      copyVars, NetShape, Working, Storing
<1>1. ASSUME NEW x \in Counters, NEW n \in Amounts, SetRelative(t, x, n)
      PROVE  NetShape'
<2> DEFINE value == Number(table[t].val[x])
<2>1. value \in Nat /\ (table[t].val[x] # Missing => value = table[t].val[x])
  BY DEF Number, Table, Names
<2>2. /\ table'[t].val[x] = NonNegative(value + n)
      /\ orig'[t][x] = Original(orig[t][x], value)
      /\ net'[t][x] = IF net[t][x] = Missing \/ n < 0 THEN Missing
                                                     ELSE net[t][x] + n
  BY <1>1 DEF SetRelative, SetVal, Table, Names
<2>3. \A u \in Tx, y \in Counters : u # t \/ y # x =>
         /\ table'[u].val[y] = table[u].val[y]
         /\ orig'[u][y] = orig[u][y]
         /\ net'[u][y] = net[u][y]
  BY <1>1 DEF SetRelative, SetVal, Table, Names
<2>4. n \in Int /\ net[t][x] \in Nat \cup {Missing}
      /\ orig[t][x] \in Nat \cup {Missing}
  BY DEF Names
<2>5. pc' = pc /\ pc[t] = "rules"
  BY <1>1 DEF SetRelative, Change
<2> HIDE DEF value
<2>6. /\ net[t][x] # Missing /\ orig[t][x] = Missing => net[t][x] = 0
      /\ net[t][x] # Missing /\ orig[t][x] # Missing =>
           value = orig[t][x] + net[t][x]
  BY <2>1
<2>7. ASSUME net'[t][x] # Missing
      PROVE  /\ orig'[t][x] \in Nat
             /\ table'[t].val[x] \in Nat
             /\ table'[t].val[x] = orig'[t][x] + net'[t][x]
  <3>1. net[t][x] # Missing /\ n >= 0 /\ net'[t][x] = net[t][x] + n
    BY <2>2, <2>4, <2>7
  <3>2. table'[t].val[x] = value + n
    BY <2>1, <2>2, <2>4, <3>1 DEF NonNegative
  <3>3. orig'[t][x] = IF orig[t][x] = Missing THEN value ELSE orig[t][x]
    BY <2>2 DEF Original
  <3>4. QED
    BY <2>1, <2>4, <2>6, <3>1, <3>2, <3>3
<2>8. ASSUME NEW u \in Tx, NEW y \in Counters
      PROVE  /\ pc'[u] \notin Working => orig'[u][y] = Missing /\ net'[u][y] = 0
             /\ net'[u][y] # Missing /\ orig'[u][y] = Missing
                  => net'[u][y] = 0
             /\ net'[u][y] # Missing /\ orig'[u][y] # Missing =>
                  /\ table'[u].val[y] # Missing
                  /\ table'[u].val[y] = orig'[u][y] + net'[u][y]
  <3>1. CASE u = t /\ y = x
    BY <2>5, <2>7, <3>1
  <3>2. CASE u # t \/ y # x
    <4>1. /\ pc'[u] = pc[u] /\ table'[u].val[y] = table[u].val[y]
          /\ orig'[u][y] = orig[u][y] /\ net'[u][y] = net[u][y]
      BY <2>3, <2>5, <3>2
    <4>2. /\ pc[u] \notin Working => orig[u][y] = Missing /\ net[u][y] = 0
          /\ net[u][y] # Missing /\ orig[u][y] = Missing => net[u][y] = 0
          /\ net[u][y] # Missing /\ orig[u][y] # Missing =>
               /\ table[u].val[y] # Missing
               /\ table[u].val[y] = orig[u][y] + net[u][y]
      BY DEF NetShape
    <4>3. QED
      BY <4>1, <4>2
  <3>3. QED
    BY <3>1, <3>2
<2>9. QED
  BY <2>8
<1>2. ASSUME NEW x \in Counters, NEW n \in Values, SetAbsolute(t, x, n)
      PROVE  NetShape'
<2>1. \A u \in Tx, y \in Counters : net'[u][y] # Missing =>
         table'[u].val[y] = table[u].val[y] /\ net'[u][y] = net[u][y]
  BY <1>2 DEF SetAbsolute, SetVal, SetExp, Table, Names
<2>2. QED
  BY <1>2, <2>1 DEF SetAbsolute, Change
<1>3. ASSUME NEW x \in Counters \cup {KEY}, Unset(t, x)
      PROVE  NetShape'
<2>1. \A u \in Tx, y \in Counters : net'[u][y] # Missing =>
         table'[u].val[y] = table[u].val[y] /\ net'[u][y] = net[u][y]
  BY <1>3 DEF Unset, SetVal, SetExp, Table, Names
<2>2. QED
  BY <1>3, <2>1 DEF Unset, Change
<1>4. ASSUME NEW x \in Counters \cup {KEY}, NEW n \in Delays, ExpireVar(t, x, n)
      PROVE  NetShape'
<2>1. \A u \in Tx, y \in Counters : net'[u][y] # Missing =>
         table'[u].val[y] = table[u].val[y] /\ net'[u][y] = net[u][y]
  BY <1>4 DEF ExpireVar, SetVal, SetExp, Table, Names
<2>2. QED
  BY <1>4, <2>1 DEF ExpireVar, Change
<1>5. ASSUME NEW x \in Counters, DeprecateVar(t, x)
      PROVE  NetShape'
<2>1. \A u \in Tx, y \in Counters : net'[u][y] # Missing =>
         table'[u].val[y] = table[u].val[y] /\ net'[u][y] = net[u][y]
  BY <1>5 DEF DeprecateVar, SetVal, SetExp, Table, Names
<2>2. QED
  BY <1>5, <2>1 DEF DeprecateVar, Change
<1>6. QED
  BY <1>1, <1>2, <1>3, <1>4, <1>5 DEF Rule

LEMMA StoreKeepsNet ==
    ASSUME TypeOK, NetShape, NEW t \in Tx, Store(t)
    PROVE  NetShape'
<1> USE NamesAssumption, ArgumentsAssumption DEF TypeOK, vars, txVars,
      copyVars, NetShape, Working, Storing
<1>1. CASE PersistDirty(t)
<2>1. \A u \in Tx, y \in Counters : table'[u].val[y] = table[u].val[y]
  BY <1>1 DEF PersistDirty, Prepared, Table, Names
<2>2. QED
  BY <1>1, <2>1 DEF PersistDirty, Goto
<1>2. CASE PersistClean(t)
  BY <1>2 DEF PersistClean, DropCopy, Goto, Names
<1>3. CASE LockFile(t)
  BY <1>3 DEF LockFile, Goto
<1>4. CASE LockFails(t)
  BY <1>4 DEF LockFails, DropCopy, Goto, Names
<1>5. CASE Reread(t)
  BY <1>5 DEF Reread, DbDelete, Goto
<1>6. CASE Write(t)
  BY <1>6 DEF Write, DropCopy, Goto, Names
<1>7. CASE WriteFails(t)
  BY <1>7 DEF WriteFails, DropCopy, Goto, Names
<1>8. QED
  BY <1>1, <1>2, <1>3, <1>4, <1>5, <1>6, <1>7 DEF Store

LEMMA StaleKeepsNet ==
    ASSUME TypeOK, NetShape, NEW t \in Tx, RemoveStale(t)
    PROVE  NetShape'
<1> USE NamesAssumption, ArgumentsAssumption DEF TypeOK, vars, txVars,
      copyVars, NetShape, Working, Storing
<1>1. CASE SkipStale(t)
  BY <1>1 DEF SkipStale, Finish, Goto
<1>2. CASE ListKeys(t)
  BY <1>2 DEF ListKeys, Goto
<1>3. CASE StaleDone(t)
  BY <1>3 DEF StaleDone, Finish, Goto
<1>4. CASE DeleteStale(t)
  BY <1>4 DEF DeleteStale, DbDelete, Goto
<1>5. CASE DeleteStaleFails(t)
  BY <1>5 DEF DeleteStaleFails, Finish, Goto
<1>6. ASSUME NEW k \in Keys, FetchFresh(t, k)
      PROVE  NetShape'
  BY <1>6 DEF FetchFresh, Goto
<1>7. ASSUME NEW k \in Keys, FetchStale(t, k)
      PROVE  NetShape'
  BY <1>7 DEF FetchStale, Goto
<1>8. QED
  BY <1>1, <1>2, <1>3, <1>4, <1>5, <1>6, <1>7 DEF RemoveStale

LEMMA ProcessKeepsNet ==
    ASSUME TypeOK, NetShape, NEW t \in Tx,
           Crash(t) \/ \E k \in Keys : Start(t, k)
    PROVE  NetShape'
<1> USE NamesAssumption, ArgumentsAssumption DEF TypeOK, vars, txVars,
      copyVars, NetShape, Working, Storing
<1>1. ASSUME NEW k \in Keys, Start(t, k)
      PROVE  NetShape'
  BY <1>1 DEF Start, Goto
<1>2. CASE Crash(t)
  BY <1>2 DEF Crash, Finish, DropCopy, Goto, Names
<1>3. QED
  BY <1>1, <1>2

LEMMA NetInit == Init => NetShape
  BY NamesAssumption DEF Init, NetShape, Working, Names

LEMMA NetStep ==
    TypeOK /\ NetShape /\ [Next]_vars => NetShape'
<1> SUFFICES ASSUME TypeOK, NetShape, [Next]_vars
             PROVE  NetShape'
  OBVIOUS
<1>1. CASE UNCHANGED vars
  BY <1>1 DEF NetShape, vars, txVars, copyVars
<1>2. CASE Tick
  BY <1>2 DEF Tick, NetShape, txVars, copyVars
<1>3. ASSUME NEW t \in Tx, Rule(t) \/ Step(t) \/ Crash(t) PROVE NetShape'
  BY <1>3, RetrieveKeepsNet, RuleKeepsNet, StoreKeepsNet,
     StaleKeepsNet, ProcessKeepsNet DEF Step
<1>4. ASSUME NEW t \in Tx, NEW k \in Keys, Start(t, k) PROVE NetShape'
  BY <1>4, ProcessKeepsNet
<1>5. QED
  BY <1>1, <1>2, <1>3, <1>4 DEF Next
-----------------------------------------------------------------------------
(* What was read under the lock.                                           *)

LEMMA RetrieveKeepsStored ==
    ASSUME TypeOK, LockHeldToStore, StoredShape, NEW t \in Tx, Retrieve(t)
    PROVE  StoredShape'
<1> USE NamesAssumption, ArgumentsAssumption DEF TypeOK, vars, txVars,
      copyVars, StoredShape, Working, Storing, LockHeldToStore
<1>1. CASE RetrieveLive(t)
  BY <1>1 DEF RetrieveLive, AddCollection, Goto
<1>2. CASE RetrieveNothing(t)
  BY <1>2 DEF RetrieveNothing, AddCollection, Goto
<1>3. CASE RetrieveFails(t)
  BY <1>3 DEF RetrieveFails, AddCollection, Goto
<1>4. CASE RetrieveExpired(t)
  BY <1>4 DEF RetrieveExpired, Goto
<1>5. CASE DeleteExpired(t)
<2>1. \A u \in Tx : pc[u] # "write"
  BY <1>5 DEF DeleteExpired, LockFree
<2>2. \A u \in Tx : pc'[u] # "write"
  BY <1>5, <2>1 DEF DeleteExpired, AddCollection, Goto
<2>3. QED
  BY <2>2
<1>6. CASE ReopenFails(t)
  BY <1>6 DEF ReopenFails, AddCollection, Goto
<1>7. QED
  BY <1>1, <1>2, <1>3, <1>4, <1>5, <1>6 DEF Retrieve

LEMMA RuleKeepsStored ==
    ASSUME TypeOK, LockHeldToStore, StoredShape, NEW t \in Tx, Rule(t)
    PROVE  StoredShape'
<1> USE NamesAssumption, ArgumentsAssumption DEF TypeOK, vars, txVars,
      copyVars, StoredShape, Working, Storing, LockHeldToStore
<1>1. ASSUME NEW x \in Counters, NEW n \in Amounts, SetRelative(t, x, n)
      PROVE  StoredShape'
  BY <1>1 DEF SetRelative, Change, Original, NonNegative, Number
<1>2. ASSUME NEW x \in Counters, NEW n \in Values, SetAbsolute(t, x, n)
      PROVE  StoredShape'
  BY <1>2 DEF SetAbsolute, Change
<1>3. ASSUME NEW x \in Counters \cup {KEY}, Unset(t, x)
      PROVE  StoredShape'
  BY <1>3 DEF Unset, Change
<1>4. ASSUME NEW x \in Counters \cup {KEY}, NEW n \in Delays, ExpireVar(t, x, n)
      PROVE  StoredShape'
  BY <1>4 DEF ExpireVar, Change
<1>5. ASSUME NEW x \in Counters, DeprecateVar(t, x)
      PROVE  StoredShape'
  BY <1>5 DEF DeprecateVar, Change
<1>6. QED
  BY <1>1, <1>2, <1>3, <1>4, <1>5 DEF Rule

LEMMA StoreKeepsStored ==
    ASSUME TypeOK, LockHeldToStore, StoredShape, NEW t \in Tx, Store(t)
    PROVE  StoredShape'
<1> USE NamesAssumption, ArgumentsAssumption DEF TypeOK, vars, txVars,
      copyVars, StoredShape, Working, Storing, LockHeldToStore
<1>1. CASE PersistDirty(t)
  BY <1>1 DEF PersistDirty, Goto
<1>2. CASE PersistClean(t)
  BY <1>2 DEF PersistClean, DropCopy, Goto
<1>3. CASE LockFile(t)
  BY <1>3 DEF LockFile, Goto
<1>4. CASE LockFails(t)
  BY <1>4 DEF LockFails, DropCopy, Goto
<1>5. CASE Reread(t)
<2>1. \A u \in Tx \ {t} : pc'[u] # "write"
  BY <1>5 DEF Reread, Goto
<2>2. SameName => stored'[t] = Live(db'[key'[t]], req'[t])
  BY <1>5 DEF Reread, DbDelete, Live
<2>3. SameName /\ db'[key'[t]] # NoTable => stored'[t] # NoTable
  BY <1>5 DEF Reread, DbDelete
<2>4. QED
  BY <2>1, <2>2, <2>3
<1>6. CASE Write(t)
<2>1. \A u \in Tx : pc'[u] # "write"
  BY <1>6 DEF Write, Goto
<2>2. QED
  BY <2>1
<1>7. CASE WriteFails(t)
  BY <1>7 DEF WriteFails, DropCopy, Goto
<1>8. QED
  BY <1>1, <1>2, <1>3, <1>4, <1>5, <1>6, <1>7 DEF Store

LEMMA StaleKeepsStored ==
    ASSUME TypeOK, LockHeldToStore, StoredShape, NEW t \in Tx, RemoveStale(t)
    PROVE  StoredShape'
<1> USE NamesAssumption, ArgumentsAssumption DEF TypeOK, vars, txVars,
      copyVars, StoredShape, Working, Storing, LockHeldToStore
<1>1. CASE SkipStale(t)
  BY <1>1 DEF SkipStale, Finish, Goto
<1>2. CASE ListKeys(t)
  BY <1>2 DEF ListKeys, Goto
<1>3. CASE StaleDone(t)
  BY <1>3 DEF StaleDone, Finish, Goto
<1>4. CASE DeleteStale(t)
<2>1. \A u \in Tx : pc[u] # "write"
  BY <1>4 DEF DeleteStale, LockFree
<2>2. \A u \in Tx : pc'[u] # "write"
  BY <1>4, <2>1 DEF DeleteStale, AddCollection, Goto
<2>3. QED
  BY <2>2
<1>5. CASE DeleteStaleFails(t)
  BY <1>5 DEF DeleteStaleFails, Finish, Goto
<1>6. ASSUME NEW k \in Keys, FetchFresh(t, k)
      PROVE  StoredShape'
  BY <1>6 DEF FetchFresh, Goto
<1>7. ASSUME NEW k \in Keys, FetchStale(t, k)
      PROVE  StoredShape'
  BY <1>7 DEF FetchStale, Goto
<1>8. QED
  BY <1>1, <1>2, <1>3, <1>4, <1>5, <1>6, <1>7 DEF RemoveStale

LEMMA ProcessKeepsStored ==
    ASSUME TypeOK, LockHeldToStore, StoredShape, NEW t \in Tx,
           Crash(t) \/ \E k \in Keys : Start(t, k)
    PROVE  StoredShape'
<1> USE NamesAssumption, ArgumentsAssumption DEF TypeOK, vars, txVars,
      copyVars, StoredShape, Working, Storing, LockHeldToStore
<1>1. ASSUME NEW k \in Keys, Start(t, k)
      PROVE  StoredShape'
  BY <1>1 DEF Start, Goto
<1>2. CASE Crash(t)
  BY <1>2 DEF Crash, Finish, DropCopy, Goto
<1>3. QED
  BY <1>1, <1>2

LEMMA StoredInit == Init => StoredShape
  BY DEF Init, StoredShape

LEMMA StoredStep ==
    TypeOK /\ LockHeldToStore /\ StoredShape /\ [Next]_vars => StoredShape'
<1> SUFFICES ASSUME TypeOK, LockHeldToStore, StoredShape, [Next]_vars
             PROVE  StoredShape'
  OBVIOUS
<1>1. CASE UNCHANGED vars
  BY <1>1 DEF StoredShape, vars, txVars, copyVars
<1>2. CASE Tick
  BY <1>2 DEF Tick, StoredShape, txVars, copyVars
<1>3. ASSUME NEW t \in Tx, Rule(t) \/ Step(t) \/ Crash(t) PROVE StoredShape'
  BY <1>3, RetrieveKeepsStored, RuleKeepsStored, StoreKeepsStored,
     StaleKeepsStored, ProcessKeepsStored DEF Step
<1>4. ASSUME NEW t \in Tx, NEW k \in Keys, Start(t, k) PROVE StoredShape'
  BY <1>4, ProcessKeepsStored
<1>5. QED
  BY <1>1, <1>2, <1>3, <1>4 DEF Next
-----------------------------------------------------------------------------
(* The merge.                                                              *)

Inv == TypeOK /\ LockHeldToStore /\ CountShape /\ NetShape /\ StoredShape

LEMMA InvCorrect == Spec => []Inv
<1>1. Init => Inv
  BY TypeInit, LockInit, CountsInit, NetInit, StoredInit DEF Inv
<1>2. Inv /\ [Next]_vars => Inv'
  BY TypeStep, LockStep, CountsStep, NetStep, StoredStep DEF Inv
<1>3. QED
  BY <1>1, <1>2, PTL DEF Spec

\* The record in the file changes into another one only where a transaction
\* writes it.
LEMMA WrittenOnlyByWrite ==
    ASSUME TypeOK, [Next]_vars, NEW k \in Keys,
           db[k] # NoTable, db'[k] # NoTable, db'[k] # db[k]
    PROVE  \E t \in Tx : Write(t) /\ key[t] = k
<1> USE DEF TypeOK, vars, txVars, copyVars
<1>1. ~UNCHANGED vars /\ ~Tick
  BY DEF Tick
<1>2. ASSUME NEW t \in Tx, NEW j \in Keys, Start(t, j) PROVE FALSE
  BY <1>2 DEF Start
<1>3. ASSUME NEW t \in Tx, Crash(t) PROVE FALSE
  BY <1>3 DEF Crash
<1>4. ASSUME NEW t \in Tx, Retrieve(t) PROVE FALSE
  BY <1>4 DEF Retrieve, RetrieveLive, RetrieveNothing, RetrieveFails,
     RetrieveExpired, DeleteExpired, ReopenFails, DbDelete
<1>5. ASSUME NEW t \in Tx, Rule(t) PROVE FALSE
  BY <1>5 DEF Rule, SetRelative, SetAbsolute, Unset, ExpireVar, DeprecateVar,
     Change
<1>6. ASSUME NEW t \in Tx, RemoveStale(t) PROVE FALSE
  BY <1>6 DEF RemoveStale, SkipStale, ListKeys, StaleDone, DeleteStale,
     DeleteStaleFails, FetchFresh, FetchStale, DbDelete
<1>7. ASSUME NEW t \in Tx, Store(t) PROVE Write(t) /\ key[t] = k
  BY <1>7 DEF Store, PersistDirty, PersistClean, LockFile, LockFails, Reread,
     Write, WriteFails, DbDelete
<1>8. QED
  BY <1>1, <1>2, <1>3, <1>4, <1>5, <1>6, <1>7 DEF Next, Step

\* While a transaction is about to write, nobody else changes the file.
LEMMA LockExcludes ==
    ASSUME TypeOK, LockHeldToStore, [Next]_vars, NEW t \in Tx,
           pc[t] = "write", db' # db
    PROVE  Write(t)
<1> USE NamesAssumption DEF TypeOK, LockHeldToStore, vars, txVars, copyVars
<1>1. ~UNCHANGED vars /\ ~Tick
  BY DEF Tick
<1>2. ASSUME NEW u \in Tx, NEW j \in Keys, Start(u, j) PROVE FALSE
  BY <1>2 DEF Start
<1>3. ASSUME NEW u \in Tx, Crash(u) PROVE FALSE
  BY <1>3 DEF Crash
<1>4. ASSUME NEW u \in Tx, Retrieve(u) PROVE FALSE
  BY <1>4 DEF Retrieve, RetrieveLive, RetrieveNothing, RetrieveFails,
     RetrieveExpired, DeleteExpired, ReopenFails, LockFree
<1>5. ASSUME NEW u \in Tx, Rule(u) PROVE FALSE
  BY <1>5 DEF Rule, SetRelative, SetAbsolute, Unset, ExpireVar, DeprecateVar,
     Change
<1>6. ASSUME NEW u \in Tx, RemoveStale(u) PROVE FALSE
  BY <1>6 DEF RemoveStale, SkipStale, ListKeys, StaleDone, DeleteStale,
     DeleteStaleFails, FetchFresh, FetchStale, LockFree
<1>7. ASSUME NEW u \in Tx, Store(u) PROVE Write(t)
  BY <1>7 DEF Store, PersistDirty, PersistClean, LockFile, LockFails, Reread,
     Write, WriteFails
<1>8. QED
  BY <1>1, <1>2, <1>3, <1>4, <1>5, <1>6, <1>7 DEF Next, Step

\* However many transactions have stored a collection since this one retrieved
\* it, the count of updates that collection_store writes is one more than the
\* one in the file.
THEOREM StoresCountedCorrect == Spec => EveryStoreCounted
<1> DEFINE Counted ==
      SameName =>
         \A k \in Keys :
           (db[k] # NoTable /\ db'[k] # NoTable /\ db'[k] # db[k])
             => db'[k].val[UPDATES] = db[k].val[UPDATES] + 1
<1>1. Inv /\ [Next]_vars => Counted
  <2> SUFFICES ASSUME Inv, [Next]_vars, SameName, NEW k \in Keys,
                      db[k] # NoTable, db'[k] # NoTable, db'[k] # db[k]
               PROVE  db'[k].val[UPDATES] = db[k].val[UPDATES] + 1
    OBVIOUS
  <2>1. PICK t \in Tx : Write(t) /\ key[t] = k
    BY WrittenOnlyByWrite DEF Inv
  <2>2. stored[t] = Live(db[k], req[t]) /\ stored[t] # NoTable
    BY <2>1 DEF Inv, StoredShape, Write
  <2>3. /\ db[k] \in Table /\ UPDATES \in Names
        /\ db[k].exp[UPDATES] = Missing /\ db[k].val[UPDATES] \in Nat
    <3>1. db[k] \in Table /\ UPDATES \in Names
      BY DEF Inv, TypeOK, Names
    <3>2. db[k].exp[UPDATES] = Missing /\ db[k].val[UPDATES] # Missing
      BY DEF Inv, CountShape
    <3>3. db[k].val[UPDATES] \in Nat \cup {Missing}
      BY <3>1 DEF Table
    <3>4. QED
      BY <3>1, <3>2, <3>3
  <2>4. stored[t].val[UPDATES] = db[k].val[UPDATES]
    BY <2>2, <2>3, LiveFacts DEF Inv, TypeOK
  <2>5. /\ orig[t][UPDATES] \in Nat
        /\ table[t].val[UPDATES] = orig[t][UPDATES] + 1
    BY <2>1, <2>3 DEF Inv, TypeOK, CountShape, Write, Working, Storing
  <2>6. HasDelta(t, UPDATES) /\ Delta(t, UPDATES) = 1
    BY <2>2, <2>3, <2>4, <2>5, NamesAssumption DEF HasDelta, Delta
  <2>7. Merged(t).val[UPDATES] = db[k].val[UPDATES] + 1
    BY <2>3, <2>4, <2>6 DEF Merged, NonNegative
  <2>8. QED
    BY <2>1, <2>7 DEF Write, Inv, TypeOK
<1>2. QED
  BY <1>1, InvCorrect, PTL DEF Spec, EveryStoreCounted

\* What a transaction has added to a counter is added to what the file holds
\* when it stores, once: additions of transactions that overlap all count.
THEOREM IncrementsKeptCorrect == Spec => IncrementsKept
<1> DEFINE Kept ==
      SameName =>
         \A t \in Tx, x \in Counters :
           (/\ Stores(t)
            /\ Found(t) # NoTable
            /\ Found(t).val[x] # Missing
            /\ net[t][x] \notin {Missing, 0})
             => db'[key[t]].val[x] = Found(t).val[x] + net[t][x]
<1>1. Inv /\ [Next]_vars => Kept
  <2> SUFFICES ASSUME Inv, [Next]_vars, SameName,
                      NEW t \in Tx, NEW x \in Counters, Stores(t),
                      Found(t) # NoTable, Found(t).val[x] # Missing,
                      net[t][x] \notin {Missing, 0}
               PROVE  db'[key[t]].val[x] = Found(t).val[x] + net[t][x]
    OBVIOUS
  <2>1. stored[t] = Found(t)
    BY DEF Inv, StoredShape, Stores, Found
  <2>2. Found(t) \in Table /\ db[key[t]] # NoTable /\ key[t] \in Keys
    BY LiveFacts, TableAssumption DEF Inv, TypeOK, Found
  <2>3. Found(t).val[x] \in Nat /\ net[t][x] \in Nat /\ x \in Names
    BY <2>2 DEF Inv, TypeOK, Table, Names
  <2>4. /\ orig[t][x] \in Nat
        /\ table[t].val[x] # Missing
        /\ table[t].val[x] = orig[t][x] + net[t][x]
    BY <2>3 DEF Inv, TypeOK, NetShape
  <2>5. HasDelta(t, x) /\ Delta(t, x) = net[t][x]
    BY <2>1, <2>3, <2>4, NamesAssumption DEF HasDelta, Delta
  <2>6. Merged(t).val[x] = Found(t).val[x] + net[t][x]
    BY <2>1, <2>3, <2>5 DEF Merged, NonNegative
  <2>7. db'[key[t]] = Merged(t)
    BY <2>2, LockExcludes DEF Inv, Stores, Write, TypeOK
  <2>8. QED
    BY <2>6, <2>7
<1>2. QED
  BY <1>1, InvCorrect, PTL DEF Spec, IncrementsKept
=============================================================================
