------------------------------ MODULE RowStore ------------------------------
(***************************************************************************)
(* The single-node row store, internal/storage, over an engine that is an  *)
(* atomic durable map (DurableMap): records, Open's validation, Get, GetAt *)
(* and Put.  Put and Get hold the store's lock throughout.                 *)
(***************************************************************************)
EXTENDS Naturals, FiniteSets

CONSTANTS
    RowKeys,
    Versions       \* the UUIDv7 values there are; sequences go up to their number

\* A version is not one of the other conditions of a Put.
ASSUME RowStoreAssumption == "none" \notin Versions /\ "create" \notin Versions

VARIABLES
    db,         \* the records in the engine
    sequence,   \* Engine.sequence
    store       \* "open", "terminal" or "closed"

storage == <<db, sequence, store>>

Sequence == 0 .. Cardinality(Versions)

Row == [key: RowKeys, version: Versions, sequence: Sequence]

\* Records by kind.  A row stands for its head or history record, an index
\* entry names the history record of a version, and the sequence record is
\* there once something was written.
Records == [heads: SUBSET Row, history: SUBSET Row,
            index: SUBSET [version: Versions, row: Row], sequence: SUBSET Sequence]

noRecords == [heads |-> {}, history |-> {}, index |-> {}, sequence |-> {}]

(***************************************************************************)
(* Open.                                                                   *)
(***************************************************************************)
storedSequence(d) == IF d.sequence = {} THEN 0 ELSE CHOOSE s \in d.sequence : TRUE

\* Every record is checked against the others and against the sequence.
validatePersistedRecords(d, last) ==
    /\ \A r \in d.heads \cup d.history : 0 < r.sequence /\ r.sequence <= last
    /\ \A r \in d.history : [version |-> r.version, row |-> r] \in d.index
    /\ \A i \in d.index : i.row \in d.history /\ i.row.version = i.version
    /\ \A i, j \in d.index : i.version = j.version => i = j
    /\ \A r, s \in d.history : r.sequence = s.sequence => r = s
    /\ Cardinality(d.history) = last
    /\ \A r \in d.history :
          (\A s \in d.history : s.key = r.key => s.sequence <= r.sequence) => r \in d.heads
    /\ {r.key : r \in d.heads} = {r.key : r \in d.history}
    /\ Cardinality(d.heads) = Cardinality({r.key : r \in d.heads})

hasUserKeys(d) == d # noRecords

opens(d) ==
    /\ d.sequence = {} => ~ hasUserKeys(d)
    /\ validatePersistedRecords(d, storedSequence(d))

OpenStore ==
    /\ opens(db)
    /\ sequence' = storedSequence(db)
    /\ store' = "open"
    /\ UNCHANGED db

CloseStore ==
    /\ store' = "closed"
    /\ UNCHANGED <<db, sequence>>

(***************************************************************************)
(* Get and GetAt.                                                          *)
(***************************************************************************)
readHeadLocked(key) == {r \in db.heads : r.key = key}

\* Mutant: the upper bound of the history scan is one too low.
readHistoryBefore(key, at) ==
    LET older == {r \in db.history : r.key = key /\ r.sequence < at}
    IN  {r \in older : \A s \in older : s.sequence <= r.sequence}

readHistoryLocked(key, at) ==
    LET older == {r \in db.history : r.key = key /\ r.sequence <= at}
    IN  {r \in older : \A s \in older : s.sequence <= r.sequence}

GetAt(key, at) ==
    IF \E head \in readHeadLocked(key) : head.sequence > at
    THEN readHistoryLocked(key, at)
    ELSE readHeadLocked(key)

(***************************************************************************)
(* Put.  A condition is "none", "create" or the version that must match.   *)
(***************************************************************************)
\* Mutant: any version the row ever had matches.
preconditionEver(key, condition) ==
    \/ condition = "none"
    \/ condition = "create" /\ readHeadLocked(key) = {}
    \/ \E r \in db.history : r.key = key /\ r.version = condition

precondition(key, condition) ==
    \/ condition = "none"
    \/ condition = "create" /\ readHeadLocked(key) = {}
    \/ \E head \in readHeadLocked(key) : head.version = condition

versionUsedLocked(version) == \E i \in db.index : i.version = version

\* Mutant: the batch lacks the version index.
committedUnindexed(d, r) ==
    [heads |-> {h \in d.heads : h.key # r.key} \cup {r}, history |-> d.history \cup {r},
     index |-> d.index, sequence |-> {r.sequence}]

\* The batch of Put.
committed(d, r) ==
    [heads |-> {h \in d.heads : h.key # r.key} \cup {r}, history |-> d.history \cup {r},
     index |-> d.index \cup {[version |-> r.version, row |-> r]}, sequence |-> {r.sequence}]

\* A row that Put may write: the generator is asked again for a version that
\* was used.
newRows(key, condition) ==
    {[key |-> key, version |-> v, sequence |-> sequence + 1] :
        v \in {v \in Versions : store = "open" /\ precondition(key, condition)
                                 /\ ~ versionUsedLocked(v)}}

PutSucceeds(r) ==
    /\ db' = committed(db, r)
    /\ sequence' = r.sequence
    /\ UNCHANGED store

\* Apply poisons the engine: the batch may be there after a restart.
PutPoisons(r) ==
    /\ db' \in {db, committed(db, r)}
    /\ store' = "terminal"
    /\ UNCHANGED sequence
=============================================================================
