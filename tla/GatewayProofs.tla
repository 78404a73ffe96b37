--------------------------- MODULE GatewayProofs ----------------------------
(***************************************************************************)
(* The gateway and its row store, for any number of keys, versions,        *)
(* connections and starts, and any limits.                                 *)
(*                                                                         *)
(* First the records of the row store: what Put keeps of them, and that    *)
(* GetAt reads the history alone.  Then the slots, the handlers and the    *)
(* shutdown.  The two meet only where a handler calls the store.           *)
(***************************************************************************)
EXTENDS Gateway, FiniteSetTheorems, TLAPS

-----------------------------------------------------------------------------
(***************************************************************************)
(* The records.                                                            *)
(***************************************************************************)
AnyRow == [key: RowKeys, version: Versions, sequence: Nat]

AnyRecords == [heads: SUBSET AnyRow, history: SUBSET AnyRow,
               index: SUBSET [version: Versions, row: AnyRow], sequence: SUBSET Nat]

latest(history) ==
    {r \in history : \A s \in history : s.key = r.key => s.sequence <= r.sequence}

indexed(history) == {[version |-> r.version, row |-> r] : r \in history}

\* The records of a store that only Put wrote.  The history decides the rest:
\* the heads are its latest rows, the index names each row once, sequences are
\* those from one to the stored one without a gap.
recordsOK(d) ==
    /\ d \in AnyRecords
    /\ IsFiniteSet(d.history)
    /\ d.heads = latest(d.history)
    /\ \A r \in d.history : \E h \in d.heads : h.key = r.key
    /\ d.index = indexed(d.history)
    /\ \A r, s \in d.history : r.version = s.version \/ r.sequence = s.sequence => r = s
    /\ \A r \in d.history : 0 < r.sequence /\ r.sequence <= storedSequence(d)
    /\ Cardinality(d.history) = storedSequence(d)
    /\ d = noRecords \/ \E s \in d.sequence : d.sequence = {s}

\* The stored sequence is a number.
LEMMA StoredSequenceType ==
    ASSUME NEW d, recordsOK(d)
    PROVE  storedSequence(d) \in Nat
BY DEF recordsOK, storedSequence, noRecords, AnyRecords

\* An empty database is one that only Put wrote.
LEMMA NoRecordsOK == recordsOK(noRecords) /\ storedSequence(noRecords) = 0
<1>1. storedSequence(noRecords) = 0
  BY DEF storedSequence, noRecords
<1>2. noRecords \in AnyRecords
  BY DEF noRecords, AnyRecords
<1>3. IsFiniteSet(noRecords.history) /\ Cardinality(noRecords.history) = 0
  BY FS_EmptySet DEF noRecords
<1>4. latest({}) = {} /\ indexed({}) = {}
  BY DEF latest, indexed
<1> QED
  BY <1>1, <1>2, <1>3, <1>4 DEF recordsOK, noRecords

\* Open accepts the records that Put leaves: what validatePersistedRecords
\* checks record by record follows from how the history decides the rest.
LEMMA RecordsOpen ==
    ASSUME NEW d, recordsOK(d)
    PROVE  opens(d)
<1> DEFINE last == storedSequence(d)
           keys == {r.key : r \in d.heads}
<1>1. d.heads \subseteq d.history
  BY DEF recordsOK, latest
<1>2. d.sequence = {} => ~ hasUserKeys(d)
  BY DEF recordsOK, hasUserKeys
<1>3. \A r \in d.heads \cup d.history : 0 < r.sequence /\ r.sequence <= last
  BY <1>1 DEF recordsOK
<1>4. \A r \in d.history : [version |-> r.version, row |-> r] \in d.index
  BY DEF recordsOK, indexed
<1>5. \A i \in d.index : i.row \in d.history /\ i.row.version = i.version
  BY DEF recordsOK, indexed
<1>6. \A i, j \in d.index : i.version = j.version => i = j
  BY DEF recordsOK, indexed
<1>7. \A r, s \in d.history : r.sequence = s.sequence => r = s
  BY DEF recordsOK
<1>8. \A r \in d.history :
          (\A s \in d.history : s.key = r.key => s.sequence <= r.sequence) => r \in d.heads
  BY DEF recordsOK, latest
<1>9. \A r, s \in d.heads : r.key = s.key => r = s
  <2> SUFFICES ASSUME NEW r \in d.heads, NEW s \in d.heads, r.key = s.key PROVE r = s
    OBVIOUS
  <2>1. r \in d.history /\ s \in d.history /\ r.sequence \in Nat /\ s.sequence \in Nat
    BY <1>1 DEF recordsOK, AnyRecords, AnyRow
  <2>2. r.sequence <= s.sequence /\ s.sequence <= r.sequence
    BY <2>1 DEF recordsOK, latest
  <2> QED
    BY <1>7, <2>1, <2>2
<1>10. keys = {r.key : r \in d.history}
  BY <1>1 DEF recordsOK
<1>11. Cardinality(d.heads) = Cardinality(keys)
  <2> DEFINE keyOf == [r \in d.heads |-> r.key]
  <2>1. IsFiniteSet(d.heads)
    BY <1>1, FS_Subset DEF recordsOK
  <2>2. keyOf \in Bijection(d.heads, keys)
    BY <1>9 DEF Bijection, Injection, Surjection, IsInjective
  <2> QED
    BY <2>1, <2>2, FS_Bijection DEF ExistsBijection
<1> QED
  BY <1>2, <1>3, <1>4, <1>5, <1>6, <1>7, <1>8, <1>10, <1>11, Zenon
  DEF opens, validatePersistedRecords, recordsOK

\* A batch of Put keeps the records in order, when its row has a version that
\* no index entry names and the next sequence.
LEMMA CommittedOK ==
    ASSUME NEW d, recordsOK(d), NEW r \in AnyRow,
           r.sequence = storedSequence(d) + 1,
           \A i \in d.index : i.version # r.version
    PROVE  /\ recordsOK(committed(d, r))
           /\ storedSequence(committed(d, r)) = r.sequence
<1> DEFINE e == committed(d, r)
<1>1. storedSequence(d) \in Nat
  BY StoredSequenceType
<1>2. /\ d.history \subseteq AnyRow /\ e.history = d.history \cup {r} /\ e.sequence = {r.sequence}
      /\ e.index = d.index \cup {[version |-> r.version, row |-> r]}
      /\ e.heads = {h \in d.heads : h.key # r.key} \cup {r}
  BY DEF recordsOK, AnyRecords, committed
<1>3. storedSequence(e) = r.sequence
  BY <1>2, Zenon DEF storedSequence
<1>4. e \in AnyRecords
  BY DEF recordsOK, AnyRecords, committed, AnyRow
<1>5. \A s \in d.history : s.sequence < r.sequence /\ s.version # r.version
  <2> SUFFICES ASSUME NEW s \in d.history
               PROVE  s.sequence < r.sequence /\ s.version # r.version
    BY Zenon
  <2>1. s.sequence \in Nat /\ s.sequence <= storedSequence(d)
    BY <1>2, Zenon DEF recordsOK, AnyRow
  <2>2. [version |-> s.version, row |-> s] \in d.index
    BY DEF recordsOK, indexed
  <2> QED
    BY <1>1, <2>1, <2>2
<1>6. r \notin d.history
  BY <1>5, <1>1
<1>7. IsFiniteSet(e.history) /\ Cardinality(e.history) = r.sequence
  <2>1. IsFiniteSet(d.history) /\ Cardinality(d.history) = storedSequence(d)
    BY DEF recordsOK
  <2>2. /\ IsFiniteSet(d.history \cup {r})
        /\ Cardinality(d.history \cup {r}) = Cardinality(d.history) + 1
    BY <1>6, <2>1, FS_AddElement, Zenon
  <2> QED
    BY <1>2, <2>1, <2>2
<1>8. e.heads = latest(e.history)
  <2>1. \A s \in e.history : s.sequence \in Nat
    BY <1>4, Zenon DEF AnyRecords, AnyRow
  <2>2. ASSUME NEW s PROVE s \in e.heads <=> s \in latest(e.history)
    <3>1. CASE s = r
      BY <3>1, <1>2, <1>5, <2>1 DEF latest
    <3>2. CASE s # r /\ s \in d.history
      BY <3>2, <1>2, <1>5, <2>1 DEF latest, recordsOK
    <3>3. CASE s # r /\ s \notin d.history
      BY <3>3, <1>2 DEF latest, recordsOK
    <3> QED
      BY <3>1, <3>2, <3>3
  <2> QED
    BY <2>2, Zenon
<1>9. \A s \in e.history : \E h \in e.heads : h.key = s.key
  BY <1>2 DEF recordsOK
<1>10. e.index = indexed(e.history)
  BY <1>2 DEF recordsOK, indexed
<1>11. \A s, t \in e.history : s.version = t.version \/ s.sequence = t.sequence => s = t
  BY <1>1, <1>2, <1>5 DEF recordsOK
<1>12. \A s \in e.history : 0 < s.sequence /\ s.sequence <= storedSequence(e)
  BY <1>1, <1>2, <1>3 DEF recordsOK, AnyRow
<1>13. \E s \in e.sequence : e.sequence = {s}
  BY <1>1, <1>2
<1> QED
  BY <1>3, <1>4, <1>7, <1>8, <1>9, <1>10, <1>11, <1>12, <1>13 DEF recordsOK

readsHistory ==
    \A k \in RowKeys, at \in Nat : GetAt(k, at) = readHistoryLocked(k, at)

\* GetAt reads the history alone: the head answers for a sequence only where
\* the history would have given the same row.
LEMMA GetAtReadsHistory == recordsOK(db) => readsHistory
<1> SUFFICES ASSUME recordsOK(db), NEW k \in RowKeys, NEW at \in Nat
             PROVE  GetAt(k, at) = readHistoryLocked(k, at)
  BY DEF readsHistory
<1>1. \A r \in db.history : r.sequence \in Nat
  BY DEF recordsOK, AnyRecords, AnyRow
<1>2. db.heads \subseteq db.history
  BY DEF recordsOK, latest
<1>3. CASE \E head \in readHeadLocked(k) : head.sequence > at
  BY <1>3 DEF GetAt
<1>4. CASE \A head \in readHeadLocked(k) : ~ (head.sequence > at)
  <2>1. GetAt(k, at) = readHeadLocked(k)
    BY <1>4 DEF GetAt
  <2>2. \A r \in db.history : r.key = k => r.sequence <= at
    <3> SUFFICES ASSUME NEW r \in db.history, r.key = k PROVE r.sequence <= at
      OBVIOUS
    <3>1. PICK h \in db.heads : h.key = k
      BY DEF recordsOK
    <3>2. r.sequence <= h.sequence
      BY <3>1 DEF recordsOK, latest
    <3>3. h.sequence <= at
      BY <1>1, <1>2, <1>4, <3>1 DEF readHeadLocked
    <3> QED
      BY <1>1, <1>2, <3>1, <3>2, <3>3
  <2>3. readHistoryLocked(k, at) = {r \in db.history : r.key = k /\ r \in latest(db.history)}
    BY <2>2 DEF readHistoryLocked, latest
  <2>4. readHeadLocked(k) = {r \in db.history : r.key = k /\ r \in latest(db.history)}
    BY <1>2 DEF readHeadLocked, recordsOK
  <2> QED
    BY <2>1, <2>3, <2>4
<1> QED
  BY <1>3, <1>4

\* The latest row of a key is what GetAt says of the stored sequence, so a
\* condition that Put checks against the head is one on that read.
LEMMA HeadIsLastRead ==
    ASSUME recordsOK(db), NEW k \in RowKeys
    PROVE  GetAt(k, storedSequence(db)) = readHeadLocked(k)
<1>1. storedSequence(db) \in Nat
  BY StoredSequenceType
<1>2. ~ \E head \in readHeadLocked(k) : head.sequence > storedSequence(db)
  <2> SUFFICES ASSUME NEW head \in db.heads PROVE ~ (head.sequence > storedSequence(db))
    BY DEF readHeadLocked
  <2>1. head \in db.history
    BY DEF recordsOK, latest
  <2>2. head.sequence \in Nat /\ head.sequence <= storedSequence(db)
    BY <2>1 DEF recordsOK, AnyRecords, AnyRow
  <2> QED
    BY <1>1, <2>2
<1> QED
  BY <1>2 DEF GetAt

\* What a step of the store may do to the records: nothing, or the batch of a
\* Put with the next sequence and a version that was never used.
mayWrite(d, e) ==
    \/ e = d
    \/ \E r \in AnyRow : /\ r.sequence = storedSequence(d) + 1
                         /\ \A i \in d.index : i.version # r.version
                         /\ e = committed(d, r)

\* Every such step keeps the records in order and every read of a sequence
\* that was reached.
LEMMA WriteKeepsReads ==
    ASSUME recordsOK(db), mayWrite(db, db')
    PROVE  /\ recordsOK(db)'
           /\ db.history \subseteq db'.history
           /\ storedSequence(db) <= storedSequence(db')
           /\ \A k \in RowKeys, s \in 0 .. storedSequence(db) : GetAt(k, s)' = GetAt(k, s)
<1>1. storedSequence(db) \in Nat
  BY StoredSequenceType
<1>2. CASE db' = db
  BY <1>1, <1>2 DEF GetAt, readHeadLocked, readHistoryLocked
<1>3. ASSUME NEW r \in AnyRow, r.sequence = storedSequence(db) + 1,
             \A i \in db.index : i.version # r.version, db' = committed(db, r)
      PROVE  /\ recordsOK(db)'
             /\ db.history \subseteq db'.history
             /\ storedSequence(db) <= storedSequence(db')
             /\ \A k \in RowKeys, s \in 0 .. storedSequence(db) : GetAt(k, s)' = GetAt(k, s)
  <2>1. recordsOK(db)' /\ storedSequence(db') = r.sequence
    BY <1>3, CommittedOK
  <2>2. db'.history = db.history \cup {r}
    BY <1>3 DEF committed
  <2>3. ASSUME NEW k \in RowKeys, NEW s \in 0 .. storedSequence(db)
        PROVE  GetAt(k, s)' = GetAt(k, s)
    <3>1. s \in Nat /\ ~ (r.sequence <= s)
      BY <1>1, <1>3
    <3>2. GetAt(k, s) = readHistoryLocked(k, s)
      BY <3>1, GetAtReadsHistory DEF readsHistory
    <3>3. GetAt(k, s)' = readHistoryLocked(k, s)'
      <4>1. readsHistory'
        BY <2>1, GetAtReadsHistory, PTL
      <4> QED
        BY <3>1, <4>1 DEF readsHistory
    <3>4. {x \in db'.history : x.key = k /\ x.sequence <= s}
            = {x \in db.history : x.key = k /\ x.sequence <= s}
      BY <2>2, <3>1
    <3> QED
      BY <3>2, <3>3, <3>4 DEF readHistoryLocked
  <2> QED
    BY <1>1, <1>3, <2>1, <2>2, <2>3
<1> QED
  BY <1>2, <1>3 DEF mayWrite

-----------------------------------------------------------------------------
(***************************************************************************)
(* The inductive invariant.                                                *)
(***************************************************************************)
ConnState == {"none", "open", "closed"}

connected == {c \in Conns : conn[c] = "open"}

busy == {c \in Conns : handler[c] \in {"admitted", "handled"}}

\* Slots are counted by who holds them.  Once shutdown has begun no request is
\* admitted, so none is busy after waitForTracked saw none; and nothing is left
\* of a process that ended.
processOK ==
    /\ main \in {"down", "serving", "shutdown", "drain", "wait", "closing"}
    /\ acceptor \in {"returned", "acquire", "accept"}
    /\ conn \in [Conns -> ConnState]
    /\ handler \in [Conns -> {"idle", "read", "admitted", "handled"}]
    /\ IsFiniteSet(connected) /\ IsFiniteSet(busy)
    /\ SlotsAreHeld
    /\ main \in {"shutdown", "drain", "wait", "closing"} => stopping = TRUE
    /\ main = "closing" => busy = {}
    /\ running /\ store = "closed" => main = "closing"
    /\ ~ running => /\ acceptor = "returned"
                    /\ \A c \in Conns : conn[c] = "none" /\ handler[c] = "idle"

\* An open store knows the stored sequence, and what was answered is in the
\* history.
storeOK ==
    /\ recordsOK(db)
    /\ store = "open" => sequence = storedSequence(db)
    /\ \A a \in acked : a.row \in db.history
    /\ NoLostUpdate

IInv == processOK /\ storeOK

\* Init establishes it.
LEMMA InitIInv == Init => IInv
<1> SUFFICES ASSUME Init PROVE IInv
  OBVIOUS
<1>1. connected = {} /\ busy = {}
  BY DEF Init, connected, busy
<1>2. SlotsAreHeld
  BY <1>1, FS_EmptySet, GatewayAssumption DEF Init, SlotsAreHeld, connected, busy
<1>3. processOK
  BY <1>1, <1>2, FS_EmptySet DEF Init, processOK, running, ConnState
<1>4. storeOK
  BY NoRecordsOK DEF Init, storeOK, NoLostUpdate
<1> QED
  BY <1>3, <1>4 DEF IInv

-----------------------------------------------------------------------------
(***************************************************************************)
(* Steps of the store.                                                     *)
(***************************************************************************)
\* A row that Put may write has the next sequence and an unused version.
LEMMA NewRow ==
    ASSUME storeOK, NEW q \in Request, NEW r \in newRows(q.key, q.condition)
    PROVE  /\ r \in AnyRow /\ r.key = q.key /\ r.sequence = storedSequence(db) + 1
           /\ \A i \in db.index : i.version # r.version
           /\ store = "open" /\ precondition(q.key, q.condition)
<1>1. storedSequence(db) \in Nat
  BY StoredSequenceType DEF storeOK
<1>2. PICK v \in Versions :
          /\ store = "open" /\ precondition(q.key, q.condition) /\ ~ versionUsedLocked(v)
          /\ r = [key |-> q.key, version |-> v, sequence |-> sequence + 1]
  BY DEF newRows
<1>3. sequence = storedSequence(db) /\ q.key \in RowKeys
  BY <1>2 DEF storeOK, Request
<1> QED
  BY <1>1, <1>2, <1>3 DEF AnyRow, versionUsedLocked

\* Whatever is added to the history, an answer that was given stays justified.
LEMMA AnswersStay ==
    ASSUME storeOK, mayWrite(db, db'), NEW a \in acked
    PROVE  /\ a.row \in db'.history
           /\ GetAt(a.row.key, a.row.sequence)' = GetAt(a.row.key, a.row.sequence)
           /\ GetAt(a.row.key, a.row.sequence - 1)' = GetAt(a.row.key, a.row.sequence - 1)
<1>1. recordsOK(db) /\ a.row \in db.history
  BY Zenon DEF storeOK
<1>2. /\ a.row.key \in RowKeys /\ a.row.sequence \in Nat /\ storedSequence(db) \in Nat
      /\ 0 < a.row.sequence /\ a.row.sequence <= storedSequence(db)
  BY <1>1, StoredSequenceType, Zenon DEF recordsOK, AnyRecords, AnyRow
<1>3. a.row.sequence \in 0 .. storedSequence(db) /\ a.row.sequence - 1 \in 0 .. storedSequence(db)
  BY <1>2
<1> QED
  BY <1>1, <1>2, <1>3, WriteKeepsReads

\* A step that answers nobody keeps the store in order.
LEMMA QuietStore ==
    ASSUME storeOK, mayWrite(db, db'), acked' = acked,
           store' = "open" => sequence' = storedSequence(db')
    PROVE  storeOK'
<1>1. recordsOK(db)'
  BY WriteKeepsReads DEF storeOK
<1>2. \A a \in acked : a.row \in db'.history
  BY AnswersStay
<1>3. NoLostUpdate'
  <2> SUFFICES ASSUME NEW a \in acked
               PROVE  (LET before == GetAt(a.row.key, a.row.sequence - 1)
                       IN  /\ a.row \in GetAt(a.row.key, a.row.sequence)
                           /\ a.condition \in Versions => \E b \in before : b.version = a.condition
                           /\ a.condition = "create" => before = {}
                           /\ a.created <=> before = {})'
    BY Zenon DEF NoLostUpdate
  <2>1. /\ GetAt(a.row.key, a.row.sequence)' = GetAt(a.row.key, a.row.sequence)
        /\ GetAt(a.row.key, a.row.sequence - 1)' = GetAt(a.row.key, a.row.sequence - 1)
    BY AnswersStay
  <2>2. LET before == GetAt(a.row.key, a.row.sequence - 1)
        IN  /\ a.row \in GetAt(a.row.key, a.row.sequence)
            /\ a.condition \in Versions => \E b \in before : b.version = a.condition
            /\ a.condition = "create" => before = {}
            /\ a.created <=> before = {}
    BY Zenon DEF storeOK, NoLostUpdate
  <2> QED
    BY <2>1, <2>2, Zenon
<1> QED
  BY <1>1, <1>2, <1>3 DEF storeOK

\* A Put that is answered with success replaces what its condition names: the
\* head it checked is what GetAt says, ever after, of the sequence before it.
LEMMA PutStore ==
    ASSUME storeOK, NEW q \in Request, NEW r \in newRows(q.key, q.condition),
           PutSucceeds(r), acked' = acked \cup {answer(q, r)}
    PROVE  storeOK'
<1> DEFINE justified(a) ==
               LET before == GetAt(a.row.key, a.row.sequence - 1)
               IN  /\ a.row \in GetAt(a.row.key, a.row.sequence)
                   /\ a.condition \in Versions => \E b \in before : b.version = a.condition
                   /\ a.condition = "create" => before = {}
                   /\ a.created <=> before = {}
           last == storedSequence(db)
<1>1. /\ r \in AnyRow /\ r.key = q.key /\ r.sequence = last + 1
      /\ \A i \in db.index : i.version # r.version
      /\ store = "open" /\ precondition(q.key, q.condition)
  BY NewRow
<1>2. db' = committed(db, r) /\ sequence' = r.sequence /\ store' = store
  BY DEF PutSucceeds
<1>3. mayWrite(db, db') /\ recordsOK(db) /\ last \in Nat
  BY <1>1, <1>2, StoredSequenceType, Zenon DEF mayWrite, storeOK
<1>4. /\ recordsOK(db)' /\ storedSequence(db') = r.sequence
      /\ r \in db'.history
      /\ \A s \in db'.history : s.sequence \in Nat /\ s.sequence <= r.sequence
  <2>1. recordsOK(committed(db, r)) /\ storedSequence(committed(db, r)) = r.sequence
    BY <1>1, <1>3, CommittedOK, Zenon
  <2>2. r \in committed(db, r).history
    BY DEF committed
  <2> QED
    BY <1>2, <2>1, <2>2, SMTT(30) DEF recordsOK, AnyRecords, AnyRow
<1>5. r \in GetAt(r.key, r.sequence)'
  <2>1. readsHistory'
    BY <1>4, GetAtReadsHistory, PTL
  <2>2. r.key \in RowKeys /\ r.sequence \in Nat
    BY <1>1 DEF AnyRow
  <2>3. GetAt(r.key, r.sequence)' = readHistoryLocked(r.key, r.sequence)'
    BY <2>1, <2>2 DEF readsHistory
  <2>4. r \in readHistoryLocked(r.key, r.sequence)'
    BY <1>4 DEF readHistoryLocked
  <2> QED
    BY <2>3, <2>4
<1>6. GetAt(r.key, r.sequence - 1)' = readHeadLocked(q.key)
  <2>1. r.sequence - 1 = last /\ r.sequence - 1 \in 0 .. last /\ q.key \in RowKeys
    BY <1>1, <1>3 DEF Request
  <2>2. GetAt(q.key, r.sequence - 1)' = GetAt(q.key, r.sequence - 1)
    BY <1>3, <2>1, WriteKeepsReads, Zenon
  <2>3. GetAt(q.key, last) = readHeadLocked(q.key)
    BY <1>3, <2>1, HeadIsLastRead
  <2> HIDE DEF last
  <2> QED
    BY <1>1, <2>1, <2>2, <2>3, Zenon
<1>7. PICK new : new = answer(q, r)
  BY Zenon
<1>8. /\ new.row = r /\ new.condition = q.condition
      /\ new.created = (readHeadLocked(q.key) = {})
  BY <1>7 DEF answer
<1>9. justified(new)'
  <2>2. q.condition \in Versions => \E b \in readHeadLocked(q.key) : b.version = q.condition
    BY <1>1, RowStoreAssumption DEF precondition
  <2>3. q.condition = "create" => readHeadLocked(q.key) = {}
    <3>1. \A head \in readHeadLocked(q.key) : head.version \in Versions
      BY <1>3, Zenon DEF readHeadLocked, recordsOK, AnyRecords, AnyRow
    <3> QED
      BY <1>1, <3>1, RowStoreAssumption, Zenon DEF precondition
  <2> QED
    BY <1>5, <1>6, <1>8, <2>2, <2>3, Zenon
<1>10. \A a \in acked : justified(a)' /\ a.row \in db'.history
  <2> SUFFICES ASSUME NEW a \in acked PROVE justified(a)' /\ a.row \in db'.history
    BY Zenon
  <2>1. /\ a.row \in db'.history
        /\ GetAt(a.row.key, a.row.sequence)' = GetAt(a.row.key, a.row.sequence)
        /\ GetAt(a.row.key, a.row.sequence - 1)' = GetAt(a.row.key, a.row.sequence - 1)
    BY <1>3, AnswersStay, Zenon
  <2>2. justified(a)
    BY Zenon DEF storeOK, NoLostUpdate
  <2> QED
    BY <2>1, <2>2, Zenon
<1>11. acked' = acked \cup {new}
  BY <1>7
<1>12. NoLostUpdate'
  BY <1>9, <1>10, <1>11, Zenon DEF NoLostUpdate
<1> QED
  BY <1>2, <1>4, <1>10, <1>11, <1>12, <1>8, Zenon DEF storeOK

-----------------------------------------------------------------------------
(***************************************************************************)
(* Steps of the process.                                                   *)
(***************************************************************************)
\* The slots that are in use, for given holders.
counted(n, cs, at, m, bs) ==
    /\ n = Cardinality(cs) + (IF at = "accept" THEN 1 ELSE 0)
    /\ n <= maxGatewayConnections
    /\ m = Cardinality(bs) /\ m <= maxGatewayActiveRequests

\* SlotsAreHeld counts the connections and the busy handlers.
LEMMA SlotsCounted ==
    SlotsAreHeld <=> counted(slots, connected, acceptor, requestSlots, busy) /\ open = requestSlots
BY DEF SlotsAreHeld, counted, connected, busy

\* The last words of the process leave nothing behind but the records.
LEMMA StopProcess ==
    ASSUME Stop
    PROVE  processOK'
<1>1. connected' = {} /\ busy' = {}
  BY DEF Stop, connected, busy
<1>2. counted(0, {}, "returned", 0, {})
  BY FS_EmptySet, GatewayAssumption DEF counted
<1>3. SlotsAreHeld'
  <2>1. (counted(slots, connected, acceptor, requestSlots, busy) /\ open = requestSlots)'
    BY <1>1, <1>2 DEF Stop
  <2> QED
    BY <2>1, SlotsCounted, PTL
<1> QED
  BY <1>1, <1>3, FS_EmptySet DEF Stop, processOK, running, ConnState

\* The connections, as a set, are all there is to know of them; and only a
\* running process has any.
LEMMA ListenerFacts ==
    ASSUME processOK
    PROVE  /\ connected \subseteq Conns /\ IsFiniteSet(connected) /\ Cardinality(connected) \in Nat
           /\ \A c \in Conns : c \in connected <=> conn[c] = "open"
           /\ slots = Cardinality(connected) + (IF acceptor = "accept" THEN 1 ELSE 0)
           /\ slots <= maxGatewayConnections /\ slots \in Nat
           /\ acceptor # "returned" => running
           /\ connected # {} => running
<1>1. IsFiniteSet(connected) /\ Cardinality(connected) \in Nat
  BY FS_CardinalityType DEF processOK
<1>2. connected \subseteq Conns /\ \A c \in Conns : c \in connected <=> conn[c] = "open"
  BY DEF connected
<1>3. /\ slots = Cardinality(connected) + (IF acceptor = "accept" THEN 1 ELSE 0)
      /\ slots <= maxGatewayConnections
  BY SlotsCounted DEF processOK, counted
<1>4. ~ running => acceptor = "returned" /\ connected = {}
  BY DEF processOK, connected
<1> QED
  BY <1>1, <1>2, <1>3, <1>4

\* A step of the listener that accounts for its slots.
LEMMA ListenerStep ==
    ASSUME processOK, running, UNCHANGED <<main, handler, tracked, store>>,
           acceptor' \in {"returned", "acquire", "accept"},
           conn' \in [Conns -> ConnState],
           IsFiniteSet(connected'),
           slots' = Cardinality(connected') + (IF acceptor' = "accept" THEN 1 ELSE 0),
           slots' <= maxGatewayConnections
    PROVE  processOK'
<1>1. busy' = busy /\ running'
  BY DEF busy, running
<1>2. counted(slots, connected, acceptor, requestSlots, busy) /\ open = requestSlots
  BY SlotsCounted DEF processOK
<1>3. SlotsAreHeld'
  <2>1. (counted(slots, connected, acceptor, requestSlots, busy) /\ open = requestSlots)'
    BY <1>1, <1>2 DEF counted, tracked
  <2> QED
    BY <2>1, SlotsCounted, PTL
<1> QED
  BY <1>1, <1>3 DEF processOK, tracked, running

\* Acquire takes a slot, Accept hands it to the connection, a failure of
\* either gives back what was taken.
LEMMA AcceptorProcess ==
    ASSUME processOK, Acquire \/ AcquireClosed \/ AcceptFails \/ \E c \in Conns : Accept(c)
    PROVE  processOK'
<1>1. /\ connected \subseteq Conns /\ IsFiniteSet(connected) /\ Cardinality(connected) \in Nat
      /\ \A c \in Conns : c \in connected <=> conn[c] = "open"
      /\ slots = Cardinality(connected) + (IF acceptor = "accept" THEN 1 ELSE 0)
      /\ slots <= maxGatewayConnections /\ slots \in Nat
      /\ acceptor # "returned" => running
  BY ListenerFacts
<1>2. maxGatewayConnections \in Nat /\ conn \in [Conns -> ConnState]
  BY GatewayAssumption DEF processOK
<1>3. CASE Acquire \/ AcquireClosed \/ AcceptFails
  <2>1. connected' = connected /\ conn' = conn
    BY <1>3, Zenon DEF Acquire, AcquireClosed, AcceptFails, connected
  <2>2. UNCHANGED <<main, handler, tracked, store>> /\ running
    BY <1>1, <1>3, Zenon DEF Acquire, AcquireClosed, AcceptFails, storage, process
  <2>3. /\ acceptor' \in {"returned", "acquire", "accept"}
        /\ slots' = Cardinality(connected) + (IF acceptor' = "accept" THEN 1 ELSE 0)
        /\ slots' <= maxGatewayConnections
    BY <1>1, <1>2, <1>3 DEF Acquire, AcquireClosed, AcceptFails
  <2> QED
    BY <1>1, <1>2, <2>1, <2>2, <2>3, ListenerStep
<1>4. ASSUME NEW c \in Conns, Accept(c)
      PROVE  processOK'
  <2>1. conn' = [conn EXCEPT ![c] = "open"] /\ acceptor = "accept" /\ acceptor' = "acquire"
    BY <1>4 DEF Accept
  <2>2. c \notin connected
    BY <1>1, <1>4 DEF Accept
  <2>3. connected' = connected \cup {c} /\ conn' \in [Conns -> ConnState]
    BY <1>2, <2>1 DEF connected, ConnState
  <2>4. IsFiniteSet(connected') /\ Cardinality(connected') = Cardinality(connected) + 1
    BY <1>1, <2>2, <2>3, FS_AddElement
  <2>5. UNCHANGED <<main, handler, tracked, store>> /\ running /\ slots' = slots
    BY <1>1, <1>4, <2>1 DEF Accept, storage, process
  <2> QED
    BY <1>1, <2>1, <2>3, <2>4, <2>5, ListenerStep
<1> QED
  BY <1>3, <1>4

\* Connections that are closed: those that were open give back one slot each.
LEMMA ClosedConns ==
    ASSUME processOK, NEW cs \in SUBSET Conns, releaseOnce(cs), acceptor' = acceptor,
           connected' = connected \ cs
    PROVE  /\ IsFiniteSet(connected')
           /\ slots' = Cardinality(connected') + (IF acceptor' = "accept" THEN 1 ELSE 0)
           /\ slots' <= maxGatewayConnections
<1>1. /\ connected \subseteq Conns /\ IsFiniteSet(connected) /\ Cardinality(connected) \in Nat
      /\ slots = Cardinality(connected) + (IF acceptor = "accept" THEN 1 ELSE 0)
      /\ slots <= maxGatewayConnections /\ slots \in Nat
  BY ListenerFacts
<1>2. maxGatewayConnections \in Nat
  BY GatewayAssumption
<1> DEFINE first == connected \cap cs
<1>3. slots' = slots - Cardinality(first)
  <2>1. {c \in cs : conn[c] = "open"} = first
    BY DEF connected
  <2> QED
    BY <2>1 DEF releaseOnce
<1>4. IsFiniteSet(first) /\ Cardinality(first) \in Nat
  BY <1>1, FS_Subset, FS_CardinalityType
<1>5. IsFiniteSet(connected') /\ Cardinality(connected') = Cardinality(connected) - Cardinality(first)
  BY <1>1, FS_Difference, Zenon
<1> HIDE DEF first
<1> QED
  BY <1>1, <1>2, <1>3, <1>4, <1>5

\* The goroutine of a connection ends; Shutdown may have closed it before.
LEMMA CloseConnProcess ==
    ASSUME processOK, NEW c \in Conns, CloseConn(c)
    PROVE  processOK'
<1>1. /\ releaseOnce({c}) /\ acceptor' = acceptor /\ UNCHANGED <<main, handler, tracked, store>>
      /\ conn' = [conn EXCEPT ![c] = "none"] /\ conn[c] # "none"
  BY DEF CloseConn, storage, process
<1>2. conn \in [Conns -> ConnState] /\ running /\ acceptor \in {"returned", "acquire", "accept"}
  BY <1>1 DEF processOK
<1>3. conn' \in [Conns -> ConnState] /\ connected' = connected \ {c}
  BY <1>1, <1>2 DEF connected, ConnState
<1> QED
  BY <1>1, <1>2, <1>3, ClosedConns, ListenerStep

\* The busy handlers, as a set, are all there is to know of the request slots;
\* none is left in a process that closes its store or has ended.
LEMMA HandlerFacts ==
    ASSUME processOK
    PROVE  /\ busy \subseteq Conns /\ IsFiniteSet(busy) /\ Cardinality(busy) \in Nat
           /\ \A c \in Conns : c \in busy <=> handler[c] \in {"admitted", "handled"}
           /\ requestSlots = Cardinality(busy) /\ open = requestSlots
           /\ requestSlots <= maxGatewayActiveRequests
           /\ \A c \in Conns : handler[c] # "idle" => running
           /\ \A c \in busy : main # "closing"
<1>1. IsFiniteSet(busy) /\ Cardinality(busy) \in Nat
  BY FS_CardinalityType DEF processOK
<1>2. busy \subseteq Conns /\ \A c \in Conns : c \in busy <=> handler[c] \in {"admitted", "handled"}
  BY DEF busy
<1>3. requestSlots = Cardinality(busy) /\ open = requestSlots
      /\ requestSlots <= maxGatewayActiveRequests
  BY SlotsCounted, Zenon DEF processOK, counted
<1> QED
  BY <1>1, <1>2, <1>3 DEF processOK

\* A step of a handler that accounts for its request slot.
LEMMA HandlerStep ==
    ASSUME processOK, running, UNCHANGED <<process, listener, conn, stopping>>,
           handler' \in [Conns -> {"idle", "read", "admitted", "handled"}],
           IsFiniteSet(busy'), requestSlots' = Cardinality(busy'), open' = requestSlots',
           requestSlots' <= maxGatewayActiveRequests,
           main = "closing" => busy' = {},
           store' = "closed" => store = "closed"
    PROVE  processOK'
<1>1. connected' = connected /\ running'
  BY DEF connected, running, process
<1>2. counted(slots, connected, acceptor, requestSlots, busy) /\ open = requestSlots
  BY SlotsCounted DEF processOK
<1>3. SlotsAreHeld'
  <2>1. (counted(slots, connected, acceptor, requestSlots, busy) /\ open = requestSlots)'
    BY <1>1, <1>2, Zenon DEF counted, listener
  <2> QED
    BY <2>1, SlotsCounted, PTL
<1> QED
  BY <1>1, <1>3, Zenon DEF processOK, process, listener, running

\* A request is read, or answered: no slot changes hands.
LEMMA ReadProcess ==
    ASSUME processOK, NEW c \in Conns,
           \/ Read(c)
           \/ handled(c) /\ (store' = "closed" => store = "closed")
    PROVE  processOK'
<1>1. /\ handler \in [Conns -> {"idle", "read", "admitted", "handled"}]
      /\ main = "closing" => busy = {}
  BY DEF processOK
<1>2. UNCHANGED <<process, listener, conn, tracked>> /\ (store' = "closed" => store = "closed")
  BY Zenon DEF Read, handled, storage
<1>3. handler' \in [Conns -> {"idle", "read", "admitted", "handled"}] /\ busy' = busy
  BY <1>1, Zenon DEF Read, handled, busy
<1>4. running
  BY ListenerFacts, HandlerFacts DEF Read, handled
<1> QED
  BY <1>1, <1>2, <1>3, <1>4, HandlerFacts, HandlerStep, Zenon DEF tracked

\* Admit takes a request slot, unless shutdown has begun or none is left.
LEMMA AdmitProcess ==
    ASSUME processOK, NEW c \in Conns, Admit(c)
    PROVE  processOK'
<1>1. /\ busy \subseteq Conns /\ IsFiniteSet(busy) /\ Cardinality(busy) \in Nat
      /\ \A x \in Conns : x \in busy <=> handler[x] \in {"admitted", "handled"}
      /\ requestSlots = Cardinality(busy) /\ open = requestSlots
      /\ requestSlots <= maxGatewayActiveRequests
      /\ \A x \in Conns : handler[x] # "idle" => running
  BY HandlerFacts
<1>2. /\ handler \in [Conns -> {"idle", "read", "admitted", "handled"}]
      /\ main = "closing" => busy = {} /\ stopping = TRUE
      /\ maxGatewayActiveRequests \in Nat
  BY GatewayAssumption DEF processOK
<1>3. /\ UNCHANGED <<process, listener, conn, stopping, store>>
      /\ handler[c] = "read" /\ running /\ c \notin busy
  BY <1>1 DEF Admit, storage, tracked
<1>4. CASE stopping \/ requestSlots = maxGatewayActiveRequests
  <2>1. handler' = [handler EXCEPT ![c] = "idle"] /\ UNCHANGED tracked
    BY <1>4 DEF Admit
  <2>2. handler' \in [Conns -> {"idle", "read", "admitted", "handled"}] /\ busy' = busy
    BY <1>2, <1>3, <2>1, Zenon DEF busy
  <2> QED
    BY <1>1, <1>2, <1>3, <2>1, <2>2, HandlerStep DEF tracked
<1>5. CASE ~ (stopping \/ requestSlots = maxGatewayActiveRequests)
  <2>1. /\ handler' = [handler EXCEPT ![c] = "admitted"]
        /\ requestSlots' = requestSlots + 1 /\ open' = open + 1
    BY <1>5 DEF Admit
  <2>2. /\ handler' \in [Conns -> {"idle", "read", "admitted", "handled"}]
        /\ busy' = busy \cup {c}
    BY <1>2, <1>3, <2>1, Zenon DEF busy
  <2>3. IsFiniteSet(busy') /\ Cardinality(busy') = Cardinality(busy) + 1
    BY <1>1, <1>3, <2>2, FS_AddElement, Zenon
  <2> QED
    BY <1>1, <1>2, <1>3, <1>5, <2>1, <2>2, <2>3, HandlerStep, SMTT(20)
<1> QED
  BY <1>4, <1>5

\* Finish gives back the request slot.
LEMMA FinishProcess ==
    ASSUME processOK, NEW c \in Conns, Finish(c)
    PROVE  processOK'
<1>1. /\ busy \subseteq Conns /\ IsFiniteSet(busy) /\ Cardinality(busy) \in Nat
      /\ \A x \in Conns : x \in busy <=> handler[x] \in {"admitted", "handled"}
      /\ requestSlots = Cardinality(busy) /\ open = requestSlots
      /\ requestSlots <= maxGatewayActiveRequests
      /\ \A x \in Conns : handler[x] # "idle" => running
      /\ \A x \in busy : main # "closing"
  BY HandlerFacts
<1>2. /\ handler \in [Conns -> {"idle", "read", "admitted", "handled"}]
      /\ maxGatewayActiveRequests \in Nat
  BY GatewayAssumption DEF processOK
<1>3. /\ UNCHANGED <<process, listener, conn, stopping, store>>
      /\ handler[c] = "handled" /\ running /\ c \in busy /\ main # "closing"
      /\ handler' = [handler EXCEPT ![c] = "idle"]
      /\ requestSlots' = requestSlots - 1 /\ open' = open - 1
  BY <1>1 DEF Finish, storage
<1>4. /\ handler' \in [Conns -> {"idle", "read", "admitted", "handled"}]
      /\ busy' = busy \ {c}
  BY <1>2, <1>3 DEF busy
<1>5. IsFiniteSet(busy') /\ Cardinality(busy') = Cardinality(busy) - 1
  BY <1>1, <1>3, <1>4, FS_RemoveElement, Zenon
<1> QED
  BY <1>1, <1>2, <1>3, <1>4, <1>5, HandlerStep

\* A step of the shutdown, which may close connections beneath handlers, but
\* closes the store only when none is busy.
LEMMA ShutdownStep ==
    ASSUME processOK, running, main' \in {"shutdown", "drain", "wait", "closing"},
           stopping' = TRUE,
           UNCHANGED <<acceptor, handler, requestSlots, open>>,
           conn' \in [Conns -> ConnState],
           IsFiniteSet(connected'),
           slots' = Cardinality(connected') + (IF acceptor' = "accept" THEN 1 ELSE 0),
           slots' <= maxGatewayConnections,
           main' = "closing" => busy = {},
           store' = "closed" => main' = "closing"
    PROVE  processOK'
<1>1. busy' = busy /\ running'
  BY DEF busy, running
<1>2. counted(slots, connected, acceptor, requestSlots, busy) /\ open = requestSlots
  BY SlotsCounted DEF processOK
<1>3. SlotsAreHeld'
  <2>1. (counted(slots, connected, acceptor, requestSlots, busy) /\ open = requestSlots)'
    BY <1>1, <1>2 DEF counted
  <2> QED
    BY <2>1, SlotsCounted, PTL
<1> QED
  BY <1>1, <1>3, Zenon DEF processOK, running

\* Signal, CloseConnections, Drain, ServeFailed and Close in turn.
LEMMA ShutdownProcess ==
    ASSUME processOK, Signal \/ CloseConnections \/ Drain \/ ServeFailed \/ Close
    PROVE  processOK'
<1>1. /\ IsFiniteSet(connected)
      /\ slots = Cardinality(connected) + (IF acceptor = "accept" THEN 1 ELSE 0)
      /\ slots <= maxGatewayConnections
  BY ListenerFacts, Zenon
<1>2. /\ conn \in [Conns -> ConnState] /\ running
      /\ main \in {"shutdown", "drain", "wait", "closing"} => stopping = TRUE
      /\ store = "closed" => main = "closing"
  BY Zenon DEF processOK, Signal, CloseConnections, Drain, ServeFailed, Close, running
<1>3. CASE Signal \/ Drain
  <2>1. conn' = conn /\ connected' = connected /\ slots' = slots /\ store' = store
    BY <1>3, Zenon DEF Signal, Drain, connected, storage, listener
  <2>2. /\ main' \in {"shutdown", "wait"} /\ main # "closing" /\ stopping' = TRUE
        /\ UNCHANGED <<acceptor, handler, requestSlots, open>>
    BY <1>2, <1>3, Zenon DEF Signal, Drain, begin, listener, tracked
  <2> QED
    BY <1>1, <1>2, <2>1, <2>2, ShutdownStep, Zenon
<1>4. CASE CloseConnections \/ ServeFailed
  <2>1. PICK cs \in SUBSET Conns :
              /\ conn' = [c \in Conns |-> IF c \in cs THEN "closed" ELSE conn[c]]
              /\ releaseOnce(cs)
    BY <1>4, Zenon DEF CloseConnections, ServeFailed, closeKnown
  <2>3. conn' \in [Conns -> ConnState] /\ connected' = connected \ cs
    BY <1>2, <2>1 DEF connected, ConnState
  <2>2. /\ main' \in {"drain", "wait"} /\ main # "closing" /\ stopping' = TRUE
        /\ UNCHANGED <<acceptor, handler, requestSlots, open, store>>
    BY <1>2, <1>4, Zenon DEF CloseConnections, ServeFailed, begin, tracked, storage
  <2> QED
    BY <1>2, <2>1, <2>2, <2>3, ClosedConns, ShutdownStep, Zenon
<1>5. CASE Close
  <2>1. conn' = conn /\ connected' = connected /\ slots' = slots
    BY <1>5 DEF Close, connected, listener
  <2>2. busy = {}
    BY <1>5, HandlerFacts, FS_EmptySet, Zenon DEF Close
  <2>3. /\ main' = "closing" /\ stopping' = TRUE
        /\ UNCHANGED <<acceptor, handler, requestSlots, open>>
    BY <1>2, <1>5, Zenon DEF Close, listener, tracked
  <2> QED
    BY <1>1, <1>2, <2>1, <2>2, <2>3, ShutdownStep, Zenon
<1> QED
  BY <1>3, <1>4, <1>5

\* A process that starts finds no slot in use.
LEMMA StartProcess ==
    ASSUME processOK, Start
    PROVE  processOK'
<1>1. connected = {} /\ acceptor = "returned"
  BY Zenon DEF processOK, Start, connected
<1>2. connected' = connected /\ busy' = busy /\ running' /\ main' = "serving" /\ store' = "open"
  BY Zenon DEF Start, connected, busy, running, OpenStore
<1>3. counted(slots, connected, acceptor, requestSlots, busy) /\ open = requestSlots
  BY SlotsCounted DEF processOK
<1>4. SlotsAreHeld'
  <2>1. (counted(slots, connected, acceptor, requestSlots, busy) /\ open = requestSlots)'
    BY <1>1, <1>2, <1>3, Zenon DEF Start, counted, tracked
  <2> QED
    BY <2>1, SlotsCounted, PTL
<1> QED
  BY <1>2, <1>4, Zenon DEF processOK, Start

-----------------------------------------------------------------------------
(***************************************************************************)
(* Every step.                                                             *)
(***************************************************************************)
\* A step that leaves the store and the answers alone.
quiet == UNCHANGED <<storage, acked>>

\* The store, at every step.
LEMMA NextStore ==
    ASSUME storeOK, [Next]_vars
    PROVE  storeOK' /\ mayWrite(db, db')
<1>1. CASE quiet
  <2>1. mayWrite(db, db')
    BY <1>1 DEF quiet, storage, mayWrite
  <2>2. store' = "open" => sequence' = storedSequence(db')
    BY <1>1 DEF quiet, storage, storeOK
  <2> QED
    BY <1>1, <2>1, <2>2, QuietStore DEF quiet
<1>2. CASE Start \/ Stop \/ Close
  <2>1. mayWrite(db, db') /\ acked' = acked
    BY <1>2, Zenon DEF Start, OpenStore, Stop, Close, CloseStore, mayWrite
  <2>2. store' = "open" => sequence' = storedSequence(db')
    BY <1>2, Zenon DEF Start, OpenStore, Stop, Close, CloseStore
  <2> QED
    BY <2>1, <2>2, QuietStore, Zenon
<1>3. ASSUME NEW c \in Conns, Put(c)
      PROVE  storeOK' /\ mayWrite(db, db')
  <2>0. PICK q \in Request : \E r \in newRows(q.key, q.condition) :
            PutSucceeds(r) /\ acked' = acked \cup {answer(q, r)}
    BY <1>3 DEF Put
  <2>1. PICK r \in newRows(q.key, q.condition) :
            PutSucceeds(r) /\ acked' = acked \cup {answer(q, r)}
    BY <2>0, Zenon
  <2>2. mayWrite(db, db')
    BY <2>1, NewRow, Zenon DEF PutSucceeds, mayWrite
  <2> QED
    BY <2>1, <2>2, PutStore
<1>4. ASSUME NEW c \in Conns, PutFails(c)
      PROVE  storeOK' /\ mayWrite(db, db')
  <2>0. PICK q \in Request : \E r \in newRows(q.key, q.condition) : PutPoisons(r)
    BY <1>4 DEF PutFails
  <2>1. PICK r \in newRows(q.key, q.condition) : PutPoisons(r)
    BY <2>0, Zenon
  <2>2. mayWrite(db, db') /\ store' = "terminal" /\ acked' = acked
    BY <1>4, <2>1, NewRow, Zenon DEF PutPoisons, PutFails, mayWrite
  <2> QED
    BY <2>2, QuietStore
<1>5. CASE \/ Acquire \/ AcquireClosed \/ AcceptFails
           \/ Signal \/ CloseConnections \/ Drain \/ ServeFailed \/ UNCHANGED vars
  BY <1>1, <1>5, Zenon DEF quiet, Acquire, AcquireClosed, AcceptFails, Signal, CloseConnections,
     Drain, ServeFailed, vars
<1>6. ASSUME NEW c \in Conns,
             Accept(c) \/ CloseConn(c) \/ Read(c) \/ Admit(c) \/ Answer(c) \/ Finish(c)
      PROVE  storeOK' /\ mayWrite(db, db')
  BY <1>1, <1>6, Zenon DEF quiet, Accept, CloseConn, Read, Admit, Answer, Finish
<1> QED
  BY <1>2, <1>3, <1>4, <1>5, <1>6, Zenon DEF Next, Crash, HardExit, Exit, Serving

\* The process, at every step.
LEMMA NextProcess ==
    ASSUME processOK, [Next]_vars
    PROVE  processOK'
<1>1. ASSUME NEW c \in Conns, Answer(c) \/ Put(c) \/ PutFails(c)
      PROVE  processOK'
  <2>1. handled(c)
    BY <1>1 DEF Answer, Put, PutFails
  <2>2. store' = "closed" => store = "closed"
    BY <1>1 DEF Answer, Put, PutFails, PutSucceeds, PutPoisons, storage
  <2> QED
    BY <2>1, <2>2, ReadProcess
<1>2. CASE UNCHANGED vars
  <2>1. /\ connected' = connected /\ busy' = busy /\ running' = running
        /\ SlotsAreHeld' = SlotsAreHeld
    BY <1>2, Zenon DEF vars, connected, busy, running, SlotsAreHeld, listener, tracked, process
  <2> QED
    BY <1>2, <2>1, Zenon DEF processOK, vars, process, listener, tracked, storage
<1>3. CASE Start
  BY <1>3, StartProcess
<1>4. CASE Crash \/ HardExit \/ Exit
  BY <1>4, StopProcess DEF Crash, HardExit, Exit
<1>5. CASE Acquire \/ AcquireClosed \/ AcceptFails \/ \E c \in Conns : Accept(c)
  BY <1>5, AcceptorProcess
<1>6. CASE Signal \/ CloseConnections \/ Drain \/ ServeFailed \/ Close
  BY <1>6, ShutdownProcess
<1>7. ASSUME NEW c \in Conns, CloseConn(c) \/ Read(c) \/ Admit(c) \/ Finish(c)
      PROVE  processOK'
  BY <1>7, CloseConnProcess, ReadProcess, AdmitProcess, FinishProcess
<1> QED
  BY <1>1, <1>2, <1>3, <1>4, <1>5, <1>6, <1>7 DEF Next, Serving

\* The invariant holds in every reachable state.
LEMMA GatewayInductive == Spec => []IInv
<1>1. IInv /\ [Next]_vars => IInv'
  BY NextStore, NextProcess DEF IInv
<1> QED
  BY <1>1, InitIInv, PTL DEF Spec

-----------------------------------------------------------------------------
(***************************************************************************)
(* The results.                                                            *)
(***************************************************************************)
\* No slot of boundedListener or trackedHandler leaks or is given back twice.
THEOREM GatewaySlotsAreHeld == Spec => []SlotsAreHeld
<1>1. IInv => SlotsAreHeld
  BY DEF IInv, processOK
<1> QED
  BY <1>1, GatewayInductive, PTL

\* serveGatewayWithReady closes the store only when no handler can use it.
THEOREM GatewayStoreOutlivesHandlers == Spec => []StoreOutlivesHandlers
<1>1. IInv => StoreOutlivesHandlers
  BY Zenon DEF IInv, processOK, StoreOutlivesHandlers, busy
<1> QED
  BY <1>1, GatewayInductive, PTL

\* storage.Open accepts the records after any run and any end of the process.
THEOREM GatewayReopens == Spec => []Reopens
<1>1. IInv => Reopens
  BY RecordsOpen, Zenon DEF IInv, storeOK, Reopens
<1> QED
  BY <1>1, GatewayInductive, PTL

\* Every Put that was answered is durable and replaced what its condition
\* named (Engine.Put, handlePut).
THEOREM GatewayNoLostUpdate == Spec => []NoLostUpdate
<1>1. IInv => NoLostUpdate
  BY Zenon DEF IInv, storeOK
<1> QED
  BY <1>1, GatewayInductive, PTL

\* No step changes what GetAt says of a sequence that was reached.
THEOREM GatewayHistoryIsImmutable == Spec => HistoryIsImmutable
<1>1. IInv /\ [Next]_vars =>
        [\A k \in RowKeys, s \in 0 .. storedSequence(db) : GetAt(k, s)' = GetAt(k, s)]_vars
  BY NextStore, WriteKeepsReads, Zenon DEF IInv, storeOK
<1> QED
  BY <1>1, GatewayInductive, PTL DEF Spec, HistoryIsImmutable
=============================================================================
