---------------------------- MODULE SplitProofs ----------------------------
(***************************************************************************)
(* A split is invisible to the clients of a range: the proofs for Split.   *)
(***************************************************************************)
EXTENDS Split, FiniteSetTheorems, WellFoundedInduction, TLAPS

\* A record has a row exactly of its own command and sequence number.
rowOK(d) == d.row \subseteq {[key |-> d.cmd.key, version |-> d.cmd.version, sequence |-> d.sequence]}

\* rowsAt for any set of records.
rowsOf(ops, s) == putAll(InitialRows, lastRows({d \in ops : d.sequence <= s}))

\* The fields have their types, and the tables are functions.
typesOK ==
    /\ catalog \in Catalog
    /\ sourceRows \subseteq Row /\ sourceSequence \in 0 .. MaxSequence
    /\ leader \in Source.voters /\ events \in 0 .. MaxEvents
    /\ replicas \in [Source.voters -> SUBSET [current: BOOLEAN, available: BOOLEAN]]
    /\ IsFiniteSet(deltas) /\ Cardinality(deltas) <= maxSplitDeltas
    /\ operations \subseteq Delta
    /\ operation \subseteq Operation /\ \A o, p \in operation : o = p
    /\ cutover \in BOOLEAN
    /\ pc \in [Clients -> {"idle", "checked", "done"}]
    /\ route \in [Clients -> RangeDescriptor]
    /\ answer \in [Clients -> SUBSET Delta]

\* Every operation has one record, and the retained deltas are records.
recordsOK ==
    /\ deltas \subseteq operations
    /\ \A d \in operations : rowOK(d)
    /\ \A d, e \in operations : d.cmd.op = e.cmd.op => d = e

\* Until the cutover a sequence number belongs to one record, and the source
\* has the rows the records leave.
sourceOK ==
    ~ cutover =>
        /\ \A d \in operations : d.sequence <= sourceSequence
        /\ \A d, e \in operations : d.sequence = e.sequence => d = e
        /\ sourceRows = rowsOf(operations, sourceSequence)

\* The children share the keys.  Until the cutover their images are a past
\* source; after it no delta is left that CatchUp would apply.
childOK(o, cut, seq, ds, ops) ==
    /\ o.deltas \subseteq ds
    /\ o.leftApplied = o.rightApplied
    /\ \A k \in Key : Contains(o.left, k) <=> ~ Contains(o.right, k)
    /\ \A r \in o.leftRows : Contains(o.left, r.key)
    /\ \A r \in o.rightRows : Contains(o.right, r.key)
    /\ ~ cut => /\ o.leftApplied <= seq
                /\ o.leftRows = within(rowsOf(ops, o.leftApplied), o.left)
                /\ o.rightRows = within(rowsOf(ops, o.leftApplied), o.right)
    /\ cut => \A d \in ds : d.sequence <= o.leftApplied

\* The data of the range, apart from its types.
dataOK ==
    /\ recordsOK /\ sourceOK
    /\ cutover => operation # {}
    /\ \A o \in operation : childOK(o, cutover, sourceSequence, deltas, operations)

\* The inductive invariant.
IInv == typesOK /\ dataOK

-----------------------------------------------------------------------------
(***************************************************************************)
(* Numbers and rows.                                                       *)
(***************************************************************************)

\* The sequence number after a is a + 1, while there is one.
LEMMA SuccessorType ==
    ASSUME NEW a \in 0 .. MaxSequence
    PROVE  /\ successor(a) \in 0 .. MaxSequence
           /\ a < MaxSequence => successor(a) = a + 1
  BY SplitAssumption DEF successor

\* A bounded set of numbers has a greatest one.
LEMMA MaxExists ==
    ASSUME NEW n \in Nat, NEW S, S \subseteq 0 .. n, S # {}
    PROVE  \E m \in S : \A t \in S : t <= m
<1> DEFINE U == {u \in Nat : \A t \in S : t <= u}
           R == OpToRel(<, Nat)
<1>1. n \in U /\ U \subseteq Nat
  OBVIOUS
<1>2. PICK u \in U : \A w \in U : ~ (<<w, u>> \in R)
  <2>1. IsWellFoundedOn(R, Nat)
    BY NatLessThanWellFounded, Zenon
  <2> HIDE DEF U, R
  <2> QED
    BY <1>1, <2>1, WFMin, Zenon
<1>3. \A w \in U : ~ (w < u)
  BY <1>1, <1>2, Zenon DEF OpToRel
<1>4. u \in S
  <2> SUFFICES ASSUME u \notin S PROVE FALSE
    OBVIOUS
  <2>1. PICK t \in S : TRUE
    BY Zenon
  <2>2. u # 0
    BY <2>1
  <2>3. u - 1 \in U
    BY <2>2
  <2> QED
    BY <1>3, <2>3
<1> QED
  BY <1>4

\* The last sequence number of the initial rows.
LEMMA InitialSequenceType == initialSequence \in 0 .. MaxSequence
<1> DEFINE S == highest(InitialRows)
<1>1. S \subseteq 0 .. MaxSequence /\ S # {}
  BY RowAssumption, SplitAssumption DEF highest, Row
<1>2. MaxSequence \in Nat
  BY SplitAssumption
<1> HIDE DEF S
<1>3. \E m \in S : \A t \in S : t <= m
  BY <1>1, <1>2, MaxExists, Zenon
<1>4. initialSequence \in S
  BY <1>3 DEF initialSequence, S
<1> QED
  BY <1>1, <1>4

\* Writing rows and looking at a span of keys.
LEMMA PutWithin ==
    ASSUME NEW R, NEW N, NEW d
    PROVE  within(putAll(R, N), d) = putAll(within(R, d), within(N, d))
<1>1. \A x : x \in within(putAll(R, N), d) <=> x \in putAll(within(R, d), within(N, d))
  BY Zenon DEF within, putAll
<1> QED
  BY <1>1, Zenon

\* The same for all rows and ranges.
withinPut(R, N, d) == within(putAll(R, N), d) = putAll(within(R, d), within(N, d))

LEMMA WithinPut == \A R, N, d : withinPut(R, N, d)
  BY PutWithin, Zenon DEF withinPut

\* Writing is associative.
LEMMA PutPut ==
    ASSUME NEW I, NEW X, NEW Y
    PROVE  putAll(putAll(I, X), Y) = putAll(I, putAll(X, Y))
<1>1. \A x : x \in putAll(putAll(I, X), Y) <=> x \in putAll(I, putAll(X, Y))
  BY Zenon DEF putAll
<1> QED
  BY <1>1, Zenon

LEMMA PutNothing ==
    ASSUME NEW R
    PROVE  putAll(R, {}) = R
  BY DEF putAll

\* The row a single record leaves.
LEMMA LastOfOne ==
    ASSUME NEW d \in Delta, rowOK(d)
    PROVE  lastRows({d}) = d.row
<1>1. UNION {e.row : e \in {d}} = d.row
  OBVIOUS
<1>2. \A r, x \in d.row : x.sequence <= r.sequence
  BY DEF rowOK, Delta, Row
<1> QED
  BY <1>1, <1>2 DEF lastRows

LEMMA LastOfNone == lastRows({}) = {}
  BY DEF lastRows

\* Among the rows of records for a key there is a last one.
LEMMA LastExists ==
    ASSUME NEW B, B \subseteq Delta, NEW x, x \in UNION {d.row : d \in B}
    PROVE  \E r \in lastRows(B) : r.key = x.key
<1> DEFINE W == UNION {d.row : d \in B}
           S == {y.sequence : y \in {z \in W : z.key = x.key}}
<1>1. W \subseteq Row
  BY DEF Delta
<1>2. S \subseteq 0 .. MaxSequence /\ S # {} /\ MaxSequence \in Nat
  BY <1>1, SplitAssumption DEF Row
<1>3. PICK m \in S : \A t \in S : t <= m
  <2> HIDE DEF S
  <2> QED
    BY <1>2, MaxExists, Zenon
<1>4. PICK y \in W : y.key = x.key /\ y.sequence = m
  OBVIOUS
<1>5. \A z \in W : z.key = y.key => z.sequence <= y.sequence
  BY <1>3, <1>4
<1>6. y \in lastRows(B)
  BY <1>5, Zenon DEF lastRows
<1> QED
  BY <1>4, <1>6

\* Later records write over earlier ones.
LEMMA LastUnion ==
    ASSUME NEW A, A \subseteq Delta, NEW B, B \subseteq Delta,
           \A d \in A \cup B : rowOK(d),
           \A d \in A, e \in B : d.sequence < e.sequence
    PROVE  lastRows(A \cup B) = putAll(lastRows(A), lastRows(B))
<1> DEFINE WA == UNION {d.row : d \in A}
           WB == UNION {d.row : d \in B}
           W  == UNION {d.row : d \in A \cup B}
<1>1. W = WA \cup WB
  OBVIOUS
<1>2. ASSUME NEW a \in WA, NEW b \in WB PROVE a.sequence < b.sequence
  <2>1. PICK d \in A : a \in d.row
    OBVIOUS
  <2>2. PICK e \in B : b \in e.row
    OBVIOUS
  <2>3. a.sequence = d.sequence /\ b.sequence = e.sequence
    BY <2>1, <2>2 DEF rowOK
  <2> QED
    BY <2>3
<1>3. WA \subseteq Row /\ WB \subseteq Row
  BY DEF Delta
<1>4. \A b \in WB : \E r \in lastRows(B) : r.key = b.key
  BY LastExists, Zenon
<1>5. /\ lastRows(A) = {r \in WA : \A x \in WA : x.key = r.key => x.sequence <= r.sequence}
      /\ lastRows(B) = {r \in WB : \A x \in WB : x.key = r.key => x.sequence <= r.sequence}
      /\ lastRows(A \cup B) = {r \in W : \A x \in W : x.key = r.key => x.sequence <= r.sequence}
  BY Zenon DEF lastRows
<1> HIDE DEF W, WA, WB
<1>6. \A a \in WA, b \in WB : a.sequence \in Nat /\ b.sequence \in Nat
  BY <1>3, SplitAssumption DEF Row
<1>7. \A a \in WA, b \in WB : a.sequence <= b.sequence /\ ~ (b.sequence <= a.sequence)
  BY <1>2, <1>6
<1>8. ASSUME NEW r \in lastRows(A \cup B) PROVE r \in putAll(lastRows(A), lastRows(B))
  <2>1. CASE r \in WB
    BY <1>1, <1>5, <1>8, <2>1, Zenon DEF putAll
  <2>2. CASE r \in WA
    <3>1. r \in lastRows(A)
      BY <1>1, <1>5, <1>8, <2>2, Zenon
    <3>2. \A b \in WB : r.key # b.key
      BY <1>1, <1>5, <1>7, <1>8, <2>2, Zenon
    <3>3. \A b \in lastRows(B) : r.key # b.key
      BY <1>5, <3>2, Zenon
    <3> QED
      BY <3>1, <3>3, Zenon DEF putAll
  <2> QED
    BY <1>1, <1>5, <1>8, <2>1, <2>2, Zenon
<1>9. ASSUME NEW r \in putAll(lastRows(A), lastRows(B)) PROVE r \in lastRows(A \cup B)
  <2>1. CASE r \in lastRows(B)
    BY <1>1, <1>5, <1>7, <2>1, Zenon
  <2>2. CASE r \in lastRows(A) /\ \A b \in lastRows(B) : r.key # b.key
    <3>1. \A b \in WB : b.key # r.key
      BY <1>4, <2>2, Zenon
    <3> QED
      BY <1>1, <1>5, <2>2, <3>1, Zenon
  <2> QED
    BY <1>9, <2>1, <2>2, Zenon DEF putAll
<1> QED
  BY <1>8, <1>9, Zenon

\* The records up to the next record with a greater sequence number.
LEMMA RowsAtNext ==
    ASSUME typesOK, recordsOK, NEW d \in Delta, rowOK(d),
           \A e \in operations : e.sequence < d.sequence
    PROVE  /\ putAll(InitialRows, lastRows(operations \cup {d}))
                = putAll(putAll(InitialRows, lastRows(operations)), d.row)
<1>1. operations \subseteq Delta /\ {d} \subseteq Delta
  BY DEF typesOK
<1>2. \A e \in operations \cup {d} : rowOK(e)
  BY DEF recordsOK
<1>3. lastRows(operations \cup {d}) = putAll(lastRows(operations), lastRows({d}))
  BY <1>1, <1>2, LastUnion
<1> QED
  BY <1>3, LastOfOne, PutPut

-----------------------------------------------------------------------------
(***************************************************************************)
(* Records.                                                                *)
(***************************************************************************)

\* A later record does not change the past.
LEMMA PastStays ==
    ASSUME NEW ops, NEW d, NEW s, ~ (d.sequence <= s)
    PROVE  rowsOf(ops \cup {d}, s) = rowsOf(ops, s)
<1>1. {e \in ops \cup {d} : e.sequence <= s} = {e \in ops : e.sequence <= s}
  OBVIOUS
<1> QED
  BY <1>1, Zenon DEF rowsOf

\* What the record d of a command says of it.
recorded(d, rows, cmd, s) ==
    /\ d \in Delta /\ rowOK(d) /\ d.cmd = cmd /\ d.sequence = s
    /\ \A r \in d.row : r.key = cmd.key
    /\ d.row = IF holds(cmd, rows)
               THEN {[key |-> cmd.key, version |-> cmd.version, sequence |-> s]}
               ELSE {}

\* The record of a command.
LEMMA Evaluated ==
    ASSUME NEW rows, NEW cmd \in Commands, NEW s \in 0 .. MaxSequence
    PROVE  recorded(evaluateTransferCommand(rows, cmd, s), rows, cmd, s)
<1> DEFINE r == [key |-> cmd.key, version |-> cmd.version, sequence |-> s]
           d == evaluateTransferCommand(rows, cmd, s)
<1>1. r \in Row
  BY RowAssumption DEF Row
<1>2. d = [cmd |-> cmd, sequence |-> s, row |-> IF holds(cmd, rows) THEN {r} ELSE {}]
  BY Zenon DEF evaluateTransferCommand
<1>3. d.cmd = cmd /\ d.sequence = s /\ d.row = IF holds(cmd, rows) THEN {r} ELSE {}
  BY <1>2
<1>4. d \in Delta
  BY <1>1, <1>2 DEF Delta
<1>5. rowOK(d) /\ \A x \in d.row : x.key = cmd.key
  BY <1>3 DEF rowOK
<1> QED
  BY <1>3, <1>4, <1>5, Zenon DEF recorded

\* Commands of clients.
LEMMA ClientCommand ==
    ASSUME NEW c \in Clients
    PROVE  Command[c] \in Commands
  BY DEF Commands

\* Every key belongs to the source.
LEMMA SourceHasKeys ==
    /\ \A k \in Key : Contains(Source, k)
    /\ Source \in RangeDescriptor /\ Source.start \in Nat /\ Source.end \in Nat
<1>1. wholeKeyspace({Source})
  BY SplitAssumption DEF wellFormed
<1>2. \A k \in Key : Contains(Source, k)
  BY <1>1 DEF wholeKeyspace
<1>3. Source \in RangeDescriptor /\ LastKey \in Nat
  BY SplitAssumption, CatalogAssumption
<1> QED
  BY <1>2, <1>3 DEF RangeDescriptor, Key, Infinity

LEMMA DataUnchanged ==
    ASSUME dataOK, UNCHANGED source, UNCHANGED operation, UNCHANGED cutover
    PROVE  dataOK'
<1>1. /\ sourceRows' = sourceRows /\ sourceSequence' = sourceSequence
      /\ deltas' = deltas /\ operations' = operations
  BY DEF source
<1>2. recordsOK'
  BY <1>1 DEF dataOK, recordsOK
<1>3. sourceOK'
  BY <1>1 DEF dataOK, sourceOK
<1> QED
  BY <1>1, <1>2, <1>3 DEF dataOK

-----------------------------------------------------------------------------
(***************************************************************************)
(* The steps, action by action.                                            *)
(***************************************************************************)
LEMMA SplitInit == Init => IInv
<1> SUFFICES ASSUME Init PROVE IInv
  OBVIOUS
<1>1. /\ deltas = {} /\ operation = {} /\ operations = {} /\ cutover = FALSE
      /\ sourceRows = InitialRows /\ sourceSequence = initialSequence
      /\ leader = Leader /\ events = 0 /\ catalog = NewRangeCatalog(Source.generation, {Source})
  BY Zenon DEF Init
<1>2. replicas \in [Source.voters -> SUBSET [current: BOOLEAN, available: BOOLEAN]]
  BY DEF Init
<1>3. /\ pc \in [Clients -> {"idle", "checked", "done"}]
      /\ route \in [Clients -> RangeDescriptor]
      /\ answer \in [Clients -> SUBSET Delta]
  BY SourceHasKeys DEF Init
<1>4. catalog \in Catalog
  <2>1. catalog = [version |-> Source.generation, descriptors |-> {Source}, history |-> {Source}]
    BY <1>1 DEF NewRangeCatalog, newest
  <2>2. Source.generation \in Nat /\ {Source} \subseteq RangeDescriptor
    BY SourceHasKeys DEF RangeDescriptor
  <2> QED
    BY <2>1, <2>2 DEF Catalog
<1>a. /\ sourceRows \subseteq Row /\ sourceSequence \in 0 .. MaxSequence
      /\ leader \in Source.voters /\ events \in 0 .. MaxEvents
  BY <1>1, InitialSequenceType, RowAssumption, SplitAssumption
<1>b. IsFiniteSet(deltas) /\ Cardinality(deltas) <= maxSplitDeltas
  BY <1>1, SplitAssumption, FS_EmptySet
<1>5. typesOK
  BY <1>1, <1>2, <1>3, <1>4, <1>a, <1>b, Zenon DEF typesOK
<1>6. recordsOK
  BY <1>1 DEF recordsOK
<1>7. rowsOf(operations, sourceSequence) = InitialRows
  <2>1. {d \in operations : d.sequence <= sourceSequence} = {}
    BY <1>1
  <2> QED
    BY <2>1, LastOfNone, PutNothing, SMTT(20) DEF rowsOf
<1>8. sourceOK
  BY <1>1, <1>7 DEF sourceOK
<1> QED
  BY <1>1, <1>5, <1>6, <1>8 DEF IInv, dataOK

LEMMA MembersStep ==
    ASSUME IInv, NEW v \in Source.voters,
           RegisterSecondary(v) \/ SetLeader(v) \/ SetSecondaryAvailable(v)
    PROVE  IInv'
<1> USE DEF RegisterSecondary, SetLeader, SetSecondaryAvailable
<1>1. /\ UNCHANGED <<catalog, source, operation, cutover, clients>>
      /\ events < MaxEvents /\ events' = events + 1
  BY Zenon
<1>2. /\ sourceRows' = sourceRows /\ sourceSequence' = sourceSequence
      /\ deltas' = deltas /\ operations' = operations
      /\ pc' = pc /\ route' = route /\ answer' = answer
  BY <1>1 DEF source, clients
<1>3. leader' \in Source.voters
  BY DEF IInv, typesOK
<1>4. replicas' \in [Source.voters -> SUBSET [current: BOOLEAN, available: BOOLEAN]]
  <2>1. replicas \in [Source.voters -> SUBSET [current: BOOLEAN, available: BOOLEAN]]
    BY DEF IInv, typesOK
  <2>2. CASE RegisterSecondary(v)
    BY <2>1, <2>2
  <2>3. CASE SetLeader(v)
    BY <2>1, <2>3
  <2>4. CASE SetSecondaryAvailable(v)
    <3>1. PICK b \in BOOLEAN :
            replicas' = [replicas EXCEPT ![v] = {[r EXCEPT !.available = b] : r \in @}]
      BY <2>4, Zenon
    <3>2. {[r EXCEPT !.available = b] : r \in replicas[v]}
            \in SUBSET [current: BOOLEAN, available: BOOLEAN]
      BY <2>1
    <3> QED
      BY <2>1, <3>1, <3>2
  <2> QED
    BY <2>2, <2>3, <2>4
<1>5. events' \in 0 .. MaxEvents
  BY <1>1, SplitAssumption DEF IInv, typesOK
<1>6. typesOK'
  BY <1>1, <1>2, <1>3, <1>4, <1>5, Zenon DEF IInv, typesOK
<1> QED
  BY <1>1, <1>6, DataUnchanged, Zenon DEF IInv

LEMMA RouteStep ==
    ASSUME IInv, NEW c \in Clients, WriteAtOwner(c) \/ WriteAtLeader(c)
    PROVE  IInv'
<1>1. UNCHANGED <<catalog, source, members, operation, cutover>>
  BY Zenon DEF WriteAtOwner, WriteAtLeader
<1>2. /\ sourceRows' = sourceRows /\ sourceSequence' = sourceSequence
      /\ deltas' = deltas /\ operations' = operations
      /\ leader' = leader /\ replicas' = replicas /\ events' = events
  BY <1>1 DEF source, members
<1>3. Check(c) \/ Refresh(c)
  BY Zenon DEF WriteAtOwner, WriteAtLeader
<1>4. /\ pc' \in [Clients -> {"idle", "checked", "done"}]
      /\ route' \in [Clients -> RangeDescriptor] /\ answer' = answer
  <2>1. /\ pc \in [Clients -> {"idle", "checked", "done"}]
        /\ route \in [Clients -> RangeDescriptor]
        /\ catalog.descriptors \subseteq RangeDescriptor
    BY DEF IInv, typesOK, Catalog
  <2>2. CASE Check(c)
    BY <2>1, <2>2 DEF Check
  <2>3. CASE Refresh(c)
    BY <2>1, <2>3 DEF Refresh
  <2> QED
    BY <1>3, <2>2, <2>3
<1>5. typesOK'
  BY <1>1, <1>2, <1>4, Zenon DEF IInv, typesOK
<1> QED
  BY <1>1, <1>5, DataUnchanged, Zenon DEF IInv

LEMMA ChildType ==
    ASSUME NEW id \in RangeIds, NEW start \in Key, NEW end \in 2 .. Infinity, NEW group \in Nat
    PROVE  /\ child(id, start, end, group) \in RangeDescriptor
           /\ child(id, start, end, group).start = start
           /\ child(id, start, end, group).end = end
<1>1. Source \in RangeDescriptor /\ Source.generation + 1 \in Nat /\ Source.ownerEpoch + 1 \in Nat
  BY SourceHasKeys DEF RangeDescriptor
<1>2. "catching_up" \in ServingPhase
  BY DEF ServingPhase
<1> QED
  BY <1>1, <1>2, Zenon DEF child, RangeDescriptor

\* The children of BeginSplit share the keys of the source.
LEMMA ChildrenShareKeys ==
    ASSUME NEW boundary \in Key, Source.start < boundary, boundary < Source.end
    PROVE  LET left == child(LeftId, Source.start, boundary, 2 * Source.group)
               right == child(RightId, boundary, Source.end, 2 * Source.group + 1)
           IN  /\ left \in RangeDescriptor /\ right \in RangeDescriptor
               /\ \A k \in Key : Contains(left, k) <=> ~ Contains(right, k)
<1> DEFINE left == child(LeftId, Source.start, boundary, 2 * Source.group)
           right == child(RightId, boundary, Source.end, 2 * Source.group + 1)
<1>1. /\ Source \in RangeDescriptor /\ Key \subseteq Nat
      /\ Source.start \in Key /\ Source.end \in 2 .. Infinity
      /\ Source.generation \in Nat /\ Source.ownerEpoch \in Nat /\ Source.group \in Nat
      /\ Source.voters \in SUBSET Nodes
  BY SourceHasKeys DEF RangeDescriptor, Key
<1>2. boundary \in 2 .. Infinity
  BY <1>1, CatalogAssumption DEF Key, Infinity
<1>3. LeftId \in RangeIds /\ RightId \in RangeIds
      /\ 2 * Source.group \in Nat /\ 2 * Source.group + 1 \in Nat
  BY <1>1, SplitAssumption
<1>4. \A id \in RangeIds, start \in Key, end \in 2 .. Infinity, group \in Nat :
        /\ child(id, start, end, group) \in RangeDescriptor
        /\ child(id, start, end, group).start = start
        /\ child(id, start, end, group).end = end
  BY ChildType, Zenon
<1>5. left \in RangeDescriptor /\ left.start = Source.start /\ left.end = boundary
  <2>1. Source.start \in Key
    BY <1>1, Zenon
  <2>2. \A end \in 2 .. Infinity, group \in Nat :
          /\ child(LeftId, Source.start, end, group) \in RangeDescriptor
          /\ child(LeftId, Source.start, end, group).start = Source.start
          /\ child(LeftId, Source.start, end, group).end = end
    BY <1>3, <1>4, <2>1, ZenonT(40)
  <2> QED
    BY <1>2, <1>3, <2>2, Zenon
<1>6. right \in RangeDescriptor /\ right.start = boundary /\ right.end = Source.end
  <2>1. Source.end \in 2 .. Infinity
    BY <1>1, Zenon
  <2> QED
    BY <1>3, <1>4, <2>1
<1> HIDE DEF left, right
<1>7. ASSUME NEW k \in Key PROVE Contains(left, k) <=> ~ Contains(right, k)
  <2>1. Source.start <= k /\ k < Source.end /\ k \in Nat
    BY <1>1, SourceHasKeys DEF Contains
  <2> QED
    BY <1>1, <1>2, <1>5, <1>6, <2>1 DEF Contains
<1> QED
  BY <1>5, <1>6, <1>7 DEF left, right

LEMMA BeginSplitStep ==
    ASSUME IInv, NEW boundary \in Key, NEW b, BeginSplit(boundary, b)
    PROVE  IInv'
<1> DEFINE left == child(LeftId, Source.start, boundary, 2 * Source.group)
           right == child(RightId, boundary, Source.end, 2 * Source.group + 1)
           o == [left |-> left, right |-> right, barrier |-> sourceSequence,
                 leftRows |-> within(sourceRows, left), rightRows |-> within(sourceRows, right),
                 leftApplied |-> sourceSequence, rightApplied |-> sourceSequence, deltas |-> {}]
<1>1. /\ operation = {} /\ operation' = {o}
      /\ Source.start < boundary /\ boundary < Source.end
      /\ UNCHANGED <<catalog, source, cutover, clients>>
      /\ leader' = Leader /\ events' = 0 /\ replicas' = [v \in Source.voters |-> {}]
  BY Zenon DEF BeginSplit
<1>2. /\ sourceRows' = sourceRows /\ sourceSequence' = sourceSequence
      /\ deltas' = deltas /\ operations' = operations
      /\ pc' = pc /\ route' = route /\ answer' = answer
  BY <1>1, Zenon DEF source, clients
<1>3. ~ cutover /\ recordsOK /\ sourceOK /\ typesOK
  BY <1>1, Zenon DEF IInv, dataOK
<1>4. /\ left \in RangeDescriptor /\ right \in RangeDescriptor
      /\ \A k \in Key : Contains(left, k) <=> ~ Contains(right, k)
  BY <1>1, ChildrenShareKeys, Zenon
<1> HIDE DEF left, right
<1>5. sourceSequence \in Nat /\ sourceRows \subseteq Row
  BY <1>3, SplitAssumption DEF typesOK
<1>6. o \in Operation
  BY <1>4, <1>5, Zenon DEF Operation, within
<1>7. replicas' \in [Source.voters -> SUBSET [current: BOOLEAN, available: BOOLEAN]]
  BY <1>1
<1>8. leader' \in Source.voters /\ events' \in 0 .. MaxEvents
  BY <1>1, SplitAssumption
<1>9. operation' \subseteq Operation /\ \A p, q \in operation' : p = q
  BY <1>1, <1>6, Zenon
<1>10. typesOK'
  BY <1>1, <1>2, <1>3, <1>7, <1>8, <1>9, Zenon DEF typesOK
<1>11. recordsOK' /\ sourceOK'
  BY <1>1, <1>2, <1>3, Zenon DEF recordsOK, sourceOK
<1>12. childOK(o, cutover, sourceSequence, deltas, operations)
  <2>1. /\ o.deltas = {} /\ o.leftApplied = sourceSequence /\ o.rightApplied = sourceSequence
        /\ o.left = left /\ o.right = right
        /\ o.leftRows = within(sourceRows, left) /\ o.rightRows = within(sourceRows, right)
    OBVIOUS
  <2>2. sourceRows = rowsOf(operations, sourceSequence)
    BY <1>3 DEF sourceOK
  <2>3. /\ \A r \in within(sourceRows, left) : Contains(left, r.key)
        /\ \A r \in within(sourceRows, right) : Contains(right, r.key)
    BY Zenon DEF within
  <2> HIDE DEF o
  <2> QED
    BY <1>3, <1>4, <1>5, <2>1, <2>2, <2>3, SMTT(20) DEF childOK
<1> HIDE DEF o
<1>13. dataOK'
  BY <1>1, <1>2, <1>11, <1>12, Zenon DEF dataOK
<1> QED
  BY <1>10, <1>13 DEF IInv

\* A client gets the record of its operation, or no answer.
LEMMA AnswerTypes ==
    ASSUME typesOK, NEW c \in Clients, operations' \subseteq Delta, Answered(c) \/ Unanswered(c)
    PROVE  /\ pc' \in [Clients -> {"idle", "checked", "done"}]
           /\ route' \in [Clients -> RangeDescriptor]
           /\ answer' \in [Clients -> SUBSET Delta]
<1>1. /\ pc \in [Clients -> {"idle", "checked", "done"}]
      /\ route \in [Clients -> RangeDescriptor]
      /\ answer \in [Clients -> SUBSET Delta]
  BY DEF typesOK
<1>2. CASE Answered(c)
  <2>1. {d \in operations' : d.cmd.op = Command[c].op} \in SUBSET Delta
    OBVIOUS
  <2> QED
    BY <1>1, <1>2, <2>1 DEF Answered
<1>3. CASE Unanswered(c)
  BY <1>1, <1>3 DEF Unanswered
<1> QED
  BY <1>2, <1>3

\* A replay, or a write that is pushed back.
LEMMA WriteNothing ==
    ASSUME IInv, NEW c \in Clients, Answered(c) \/ Unanswered(c),
           UNCHANGED <<source, replicas, operation>>, UNCHANGED <<catalog, leader, events, cutover>>
    PROVE  IInv'
<1>1. /\ sourceRows' = sourceRows /\ sourceSequence' = sourceSequence
      /\ deltas' = deltas /\ operations' = operations
  BY Zenon DEF source
<1>2. operations' \subseteq Delta
  BY <1>1, Zenon DEF IInv, typesOK
<1>3. /\ pc' \in [Clients -> {"idle", "checked", "done"}]
      /\ route' \in [Clients -> RangeDescriptor]
      /\ answer' \in [Clients -> SUBSET Delta]
  BY <1>2, AnswerTypes DEF IInv
<1>4. typesOK'
  BY <1>1, <1>3, Zenon DEF IInv, typesOK
<1> QED
  BY <1>4, DataUnchanged, Zenon DEF IInv

\* A record for an operation that has none.
LEMMA RecordAdded ==
    ASSUME recordsOK, NEW d, rowOK(d), \A e \in operations : e.cmd.op # d.cmd.op,
           operations' = operations \cup {d}, deltas' \subseteq operations'
    PROVE  recordsOK'
  BY Zenon DEF recordsOK

\* The source writes the row of a record.
LEMMA SourceAdvances ==
    ASSUME typesOK, recordsOK, sourceOK, ~ cutover, NEW d \in Delta, rowOK(d),
           d.sequence = sourceSequence + 1
    PROVE  /\ \A e \in operations \cup {d} : e.sequence <= sourceSequence + 1
           /\ \A e, f \in operations \cup {d} : e.sequence = f.sequence => e = f
           /\ putAll(sourceRows, d.row) = rowsOf(operations \cup {d}, sourceSequence + 1)
<1>1. /\ \A e \in operations : e.sequence \in Nat /\ e.sequence <= sourceSequence
      /\ \A e, f \in operations : e.sequence = f.sequence => e = f
      /\ sourceRows = rowsOf(operations, sourceSequence) /\ sourceSequence \in Nat
  BY SplitAssumption DEF typesOK, sourceOK, Delta
<1>2. \A e \in operations : e.sequence < d.sequence
  BY <1>1
<1>3. \A e \in operations \cup {d} : e.sequence <= sourceSequence + 1
  BY <1>1
<1>4. /\ {e \in operations : e.sequence <= sourceSequence} = operations
      /\ {e \in operations \cup {d} : e.sequence <= sourceSequence + 1} = operations \cup {d}
  BY <1>1, <1>3
<1>5. /\ rowsOf(operations, sourceSequence) = putAll(InitialRows, lastRows(operations))
      /\ rowsOf(operations \cup {d}, sourceSequence + 1)
            = putAll(InitialRows, lastRows(operations \cup {d}))
  BY <1>4, Zenon DEF rowsOf
<1>6. putAll(InitialRows, lastRows(operations \cup {d}))
        = putAll(putAll(InitialRows, lastRows(operations)), d.row)
  BY <1>2, RowsAtNext
<1> QED
  <2>1. \A e, f \in operations \cup {d} : e.sequence = f.sequence => e = f
    BY <1>1, <1>2, SMTT(20)
  <2> QED
    BY <1>1, <1>3, <1>5, <1>6, <2>1, Zenon

LEMMA WriteSourceStep ==
    ASSUME IInv, NEW c \in Clients, WriteSource(Command[c]), Answered(c) \/ Unanswered(c),
           UNCHANGED <<catalog, leader, events, cutover>>
    PROVE  IInv'
<1>1. PICK d : d = evaluateTransferCommand(sourceRows, Command[c], sourceSequence + 1)
  BY Zenon
<1>2. /\ ~ cutover /\ \A e \in operations : e.cmd.op # Command[c].op
      /\ operation # {} => Cardinality(deltas) < maxSplitDeltas
      /\ sourceSequence < MaxSequence
      /\ sourceSequence' = d.sequence /\ operations' = operations \cup {d}
      /\ sourceRows' = putAll(sourceRows, d.row)
      /\ deltas' = IF operation # {} THEN deltas \cup {d} ELSE deltas
      /\ advanceReplicas(d) /\ operation' = operation
  BY <1>1, Zenon DEF WriteSource, hasRoom, record
<1>3. typesOK /\ recordsOK /\ sourceOK
  BY Zenon DEF IInv, dataOK
<1>4. sourceSequence \in Nat /\ sourceSequence + 1 \in 0 .. MaxSequence
  BY <1>2, <1>3, SplitAssumption DEF typesOK
<1>5. d \in Delta /\ rowOK(d) /\ d.cmd = Command[c] /\ d.sequence = sourceSequence + 1
  <2>1. Command[c] \in Commands
    BY ClientCommand
  <2>2. recorded(d, sourceRows, Command[c], sourceSequence + 1)
    BY <1>1, <1>4, <2>1, Evaluated, ZenonT(40)
  <2> QED
    BY <2>2, Zenon DEF recorded
<1>6. operations' \subseteq Delta
  BY <1>2, <1>3, <1>5, Zenon DEF typesOK
<1>7. /\ pc' \in [Clients -> {"idle", "checked", "done"}]
      /\ route' \in [Clients -> RangeDescriptor]
      /\ answer' \in [Clients -> SUBSET Delta]
  BY <1>3, <1>6, AnswerTypes, Zenon
<1>8. IsFiniteSet(deltas') /\ Cardinality(deltas') <= maxSplitDeltas
  <2>1. IsFiniteSet(deltas) /\ Cardinality(deltas) <= maxSplitDeltas /\ Cardinality(deltas) \in Nat
    BY <1>3, FS_CardinalityType, Zenon DEF typesOK
  <2>2. /\ IsFiniteSet(deltas \cup {d})
        /\ Cardinality(deltas \cup {d}) = Cardinality(deltas)
           \/ Cardinality(deltas \cup {d}) = Cardinality(deltas) + 1
    BY <2>1, FS_AddElement
  <2> QED
    BY <1>2, <2>1, <2>2, SplitAssumption
<1>9. replicas' \in [Source.voters -> SUBSET [current: BOOLEAN, available: BOOLEAN]]
  <2>1. replicas \in [Source.voters -> SUBSET [current: BOOLEAN, available: BOOLEAN]]
    BY <1>3, Zenon DEF typesOK
  <2>2. ASSUME NEW v \in Source.voters
        PROVE  {[r EXCEPT !.current = r.available /\ d.row # {}] : r \in replicas[v]}
                  \in SUBSET [current: BOOLEAN, available: BOOLEAN]
    <3>1. ASSUME NEW r \in [current: BOOLEAN, available: BOOLEAN], NEW q \in BOOLEAN
          PROVE  [r EXCEPT !.current = q] \in [current: BOOLEAN, available: BOOLEAN]
      OBVIOUS
    <3>2. \A r : (r.available /\ d.row # {}) \in BOOLEAN
      OBVIOUS
    <3>3. \A r \in replicas[v] :
             [r EXCEPT !.current = r.available /\ d.row # {}]
                \in [current: BOOLEAN, available: BOOLEAN]
      BY <2>1, <3>1, <3>2, ZenonT(40)
    <3> QED
      BY <3>3, Zenon
  <2> QED
    BY <1>2, <2>2, Zenon DEF advanceReplicas
<1>10. sourceRows' \subseteq Row
  BY <1>2, <1>3, <1>5, Zenon DEF typesOK, putAll, Delta
<1>11. typesOK'
  <2>1. sourceSequence' \in 0 .. MaxSequence
    BY <1>2, <1>4, <1>5, Zenon
  <2> QED
    BY <1>2, <1>3, <1>6, <1>7, <1>8, <1>9, <1>10, <2>1, ZenonT(40) DEF typesOK
<1>12. recordsOK'
  <2>1. deltas' \subseteq operations'
    BY <1>2, <1>3, Zenon DEF recordsOK
  <2> QED
    BY <1>2, <1>3, <1>5, <2>1, RecordAdded, Zenon
<1>13. sourceOK'
  <2>1. /\ \A e \in operations \cup {d} : e.sequence <= sourceSequence + 1
        /\ \A e, f \in operations \cup {d} : e.sequence = f.sequence => e = f
        /\ putAll(sourceRows, d.row) = rowsOf(operations \cup {d}, sourceSequence + 1)
    BY <1>2, <1>3, <1>5, SourceAdvances, Zenon
  <2> QED
    BY <1>2, <1>5, <2>1, Zenon DEF sourceOK
<1>14. ASSUME NEW o \in operation
       PROVE  childOK(o, cutover, sourceSequence', deltas', operations')
  <2>1. childOK(o, cutover, sourceSequence, deltas, operations) /\ o.leftApplied \in Nat
    BY <1>3, Zenon DEF IInv, dataOK, typesOK, Operation
  <2>2. o.leftApplied <= sourceSequence /\ o.leftApplied <= sourceSequence + 1
        /\ ~ (d.sequence <= o.leftApplied)
    <3>1. o.leftApplied <= sourceSequence
      BY <1>2, <2>1, Zenon DEF childOK
    <3>2. d.sequence = sourceSequence + 1 /\ sourceSequence \in Nat /\ o.leftApplied \in Nat
      BY <1>4, <1>5, <2>1, Zenon
    <3> QED
      BY <3>1, <3>2
  <2>3. rowsOf(operations', o.leftApplied) = rowsOf(operations, o.leftApplied)
    BY <1>2, <2>2, PastStays, Zenon
  <2>4. deltas \subseteq deltas'
    BY <1>2
  <2> QED
    BY <1>2, <1>5, <2>1, <2>2, <2>3, <2>4, Zenon DEF childOK
<1> QED
  BY <1>2, <1>11, <1>12, <1>13, <1>14, Zenon DEF IInv, dataOK

\* A split whose image of one child is written.
LEMMA ChildWritten ==
    ASSUME NEW o \in Operation, NEW rows, rows \subseteq Row
    PROVE  /\ [o EXCEPT !.leftRows = putAll(@, rows)] \in Operation
           /\ [o EXCEPT !.rightRows = putAll(@, rows)] \in Operation
<1>1. putAll(o.leftRows, rows) \in SUBSET Row /\ putAll(o.rightRows, rows) \in SUBSET Row
  BY DEF putAll, Operation
<1> QED
  BY <1>1 DEF Operation

LEMMA WriteChildStep ==
    ASSUME IInv, NEW c \in Clients, WriteChild(Command[c]), Answered(c) \/ Unanswered(c),
           UNCHANGED <<catalog, leader, events, cutover>>
    PROVE  IInv'
<1>1. PICK o \in operation :
        LET target == IF Contains(o.left, Command[c].key) THEN o.leftRows ELSE o.rightRows
            d == evaluateTransferCommand(target, Command[c], successor(sourceSequence))
        IN  /\ record(d)
            /\ operation' =
                 {IF Contains(o.left, Command[c].key)
                  THEN [o EXCEPT !.leftRows = putAll(@, d.row)]
                  ELSE [o EXCEPT !.rightRows = putAll(@, d.row)]}
  BY Zenon DEF WriteChild
<1>2. PICK target :
        target = IF Contains(o.left, Command[c].key) THEN o.leftRows ELSE o.rightRows
  OBVIOUS
<1>3. PICK d : d = evaluateTransferCommand(target, Command[c], successor(sourceSequence))
  BY Zenon
<1>4. PICK p : p = IF Contains(o.left, Command[c].key)
                   THEN [o EXCEPT !.leftRows = putAll(@, d.row)]
                   ELSE [o EXCEPT !.rightRows = putAll(@, d.row)]
  BY Zenon
<1>5. /\ cutover /\ \A e \in operations : e.cmd.op # Command[c].op
      /\ sourceSequence' = d.sequence /\ operations' = operations \cup {d}
      /\ operation' = {p}
      /\ UNCHANGED <<sourceRows, deltas, replicas>>
  BY <1>1, <1>2, <1>3, <1>4, Zenon DEF WriteChild, record
<1>6. typesOK /\ recordsOK /\ o \in Operation
      /\ childOK(o, cutover, sourceSequence, deltas, operations)
  BY Zenon DEF IInv, dataOK, typesOK
<1>7. Command[c] \in Commands /\ Command[c].key \in Key
  BY ClientCommand, RowAssumption
<1>8. recorded(d, target, Command[c], successor(sourceSequence))
  <2>1. successor(sourceSequence) \in 0 .. MaxSequence
    BY <1>6, SuccessorType, Zenon DEF typesOK
  <2> QED
    BY <1>3, <1>7, <2>1, Evaluated, Zenon
<1>9. /\ d \in Delta /\ rowOK(d) /\ d.cmd = Command[c] /\ d.sequence \in 0 .. MaxSequence
      /\ d.row \subseteq Row /\ \A r \in d.row : r.key = Command[c].key
  BY <1>8, Zenon DEF recorded, Delta
<1>10. p \in Operation
  BY <1>4, <1>6, <1>9, ChildWritten, Zenon
<1>11. operations' \subseteq Delta
  BY <1>5, <1>6, <1>9, Zenon DEF typesOK
<1>12. /\ pc' \in [Clients -> {"idle", "checked", "done"}]
       /\ route' \in [Clients -> RangeDescriptor]
       /\ answer' \in [Clients -> SUBSET Delta]
  BY <1>6, <1>11, AnswerTypes
<1>13. typesOK'
  <2>1. operation' \subseteq Operation /\ \A x, y \in operation' : x = y
    BY <1>5, <1>10
  <2> QED
    BY <1>5, <1>6, <1>9, <1>11, <1>12, <2>1, Zenon DEF typesOK
<1>14. recordsOK'
  <2>1. deltas' \subseteq operations'
    BY <1>5, <1>6, Zenon DEF recordsOK
  <2> QED
    BY <1>5, <1>6, <1>9, <2>1, RecordAdded, Zenon
<1>15. childOK(p, TRUE, sourceSequence', deltas, operations')
  <2>1. /\ p.left = o.left /\ p.right = o.right /\ p.deltas = o.deltas
        /\ p.leftApplied = o.leftApplied /\ p.rightApplied = o.rightApplied
    BY <1>4, <1>6, ZenonT(40) DEF Operation
  <2>2. CASE Contains(o.left, Command[c].key)
    <3>1. p.leftRows = putAll(o.leftRows, d.row) /\ p.rightRows = o.rightRows
      BY <1>4, <1>6, <2>2, SMTT(30) DEF Operation
    <3>2. \A r \in p.leftRows : Contains(o.left, r.key)
      BY <1>6, <1>9, <2>2, <3>1, ZenonT(40) DEF childOK, putAll
    <3> QED
      BY <1>5, <1>6, <2>1, <3>1, <3>2, Zenon DEF childOK
  <2>3. CASE ~ Contains(o.left, Command[c].key)
    <3>1. p.rightRows = putAll(o.rightRows, d.row) /\ p.leftRows = o.leftRows
      BY <1>4, <1>6, <2>3, Zenon DEF Operation
    <3>2. Contains(o.right, Command[c].key)
      BY <1>6, <1>7, <2>3, Zenon DEF childOK
    <3>3. \A r \in p.rightRows : Contains(o.right, r.key)
      BY <1>6, <1>9, <3>1, <3>2, Zenon DEF childOK, putAll
    <3> QED
      BY <1>5, <1>6, <2>1, <3>1, <3>3, Zenon DEF childOK
  <2> QED
    BY <2>2, <2>3, Zenon
<1>16. cutover' = TRUE /\ deltas' = deltas
  BY <1>5, <1>6, Zenon DEF typesOK
<1>17. sourceOK'
  BY <1>16 DEF sourceOK
<1> QED
  BY <1>5, <1>13, <1>14, <1>15, <1>16, <1>17, Zenon DEF IInv, dataOK

LEMMA WriteStep ==
    ASSUME IInv, NEW c \in Clients, Write(c)
    PROVE  IInv'
<1>1. UNCHANGED <<catalog, leader, events, cutover>> /\ (Answered(c) \/ Unanswered(c))
  BY Zenon DEF Write
<1>2. CASE Replay(Command[c]) \/ Backpressure(Command[c])
  BY <1>1, <1>2, WriteNothing, Zenon DEF Replay, Backpressure
<1>3. CASE WriteSource(Command[c])
  BY <1>1, <1>3, WriteSourceStep, Zenon
<1>4. CASE WriteChild(Command[c])
  BY <1>1, <1>4, WriteChildStep, Zenon
<1> QED
  BY <1>2, <1>3, <1>4, Zenon DEF Write

\* Only the split changes.
LEMMA SplitChanges ==
    ASSUME IInv, NEW p \in Operation, operation' = {p},
           UNCHANGED <<catalog, source, members, cutover, clients>>,
           childOK(p, cutover, sourceSequence, deltas, operations)
    PROVE  IInv'
<1>1. /\ sourceRows' = sourceRows /\ sourceSequence' = sourceSequence
      /\ deltas' = deltas /\ operations' = operations
      /\ leader' = leader /\ replicas' = replicas /\ events' = events
      /\ pc' = pc /\ route' = route /\ answer' = answer
      /\ catalog' = catalog /\ cutover' = cutover
  BY DEF source, members, clients
<1>2. operation' \subseteq Operation /\ (\A x, y \in operation' : x = y) /\ operation' # {}
  OBVIOUS
<1>3. typesOK'
  BY <1>1, <1>2, Zenon DEF IInv, typesOK
<1>4. recordsOK' /\ sourceOK'
  BY <1>1 DEF IInv, dataOK, recordsOK, sourceOK
<1> QED
  BY <1>1, <1>2, <1>3, <1>4 DEF IInv, dataOK

\* What DeliverDelta takes is a retained delta: an altered copy has a sequence
\* number that is taken.
LEMMA TakenIsRetained ==
    ASSUME IInv, NEW d \in arriving, DeliverDelta(d)
    PROVE  d \in deltas
<1> SUFFICES ASSUME d \notin deltas PROVE FALSE
  OBVIOUS
<1>1. PICK o \in operation : \E e \in deltas \cap o.deltas : d = [e EXCEPT !.row = {}]
  BY DEF arriving
<1>0. PICK e \in deltas \cap o.deltas : d = [e EXCEPT !.row = {}]
  BY <1>1, Zenon
<1>2. e \in Delta
  BY DEF IInv, dataOK, typesOK, recordsOK
<1>3. d.sequence = e.sequence
  BY <1>0, <1>2 DEF Delta
<1>4. \A x \in o.deltas : x.sequence # d.sequence
  BY DEF DeliverDelta, IInv, typesOK
<1> QED
  BY <1>3, <1>4

LEMMA DeliverStep ==
    ASSUME IInv, NEW d \in arriving, DeliverDelta(d)
    PROVE  IInv'
<1>0. d \in deltas
  BY TakenIsRetained
<1>1. PICK o \in operation : operation' = {[o EXCEPT !.deltas = @ \cup {d}]}
  BY Zenon DEF DeliverDelta
<1>2. PICK p : p = [o EXCEPT !.deltas = @ \cup {d}]
  BY Zenon
<1>3. /\ o \in Operation /\ d \in Delta
      /\ childOK(o, cutover, sourceSequence, deltas, operations)
  BY <1>0, Zenon DEF IInv, dataOK, typesOK, recordsOK
<1>4. /\ p \in Operation /\ p.deltas = o.deltas \cup {d}
      /\ p.left = o.left /\ p.right = o.right
      /\ p.leftRows = o.leftRows /\ p.rightRows = o.rightRows
      /\ p.leftApplied = o.leftApplied /\ p.rightApplied = o.rightApplied
  <2>1. o.deltas \cup {d} \in SUBSET Delta
    BY <1>3, ZenonT(40) DEF Operation
  <2> QED
    BY <1>2, <1>3, <2>1 DEF Operation
<1>5. childOK(p, cutover, sourceSequence, deltas, operations)
  BY <1>0, <1>3, <1>4, Zenon DEF childOK
<1>6. operation' = {p} /\ UNCHANGED <<catalog, source, members, cutover, clients>>
  BY <1>1, <1>2, Zenon DEF DeliverDelta
<1> QED
  BY <1>4, <1>5, <1>6, SplitChanges, Zenon

\* Contiguous deltas, until the cutover: with them the rows of the source are
\* those of a later sequence number.
LEMMA DeltasContinue ==
    ASSUME IInv, ~ cutover, NEW o \in operation, contiguous(o)
    PROVE  LET last == o.leftApplied + Cardinality(o.deltas) IN
           /\ last \in Nat /\ last <= sourceSequence
           /\ rowsOf(operations, last) = putAll(rowsOf(operations, o.leftApplied), lastRows(o.deltas))
<1> DEFINE n == o.leftApplied
           B == o.deltas
           last == n + Cardinality(B)
           A == {d \in operations : d.sequence <= n}
<1>1. /\ typesOK /\ recordsOK /\ sourceOK /\ o \in Operation
      /\ childOK(o, cutover, sourceSequence, deltas, operations)
  BY Zenon DEF IInv, dataOK, typesOK
<1>2. /\ B \subseteq operations /\ operations \subseteq Delta /\ n \in Nat
      /\ n <= sourceSequence /\ sourceSequence \in Nat
      /\ \A d \in operations : d.sequence \in Nat /\ d.sequence <= sourceSequence /\ rowOK(d)
      /\ \A d, e \in operations : d.sequence = e.sequence => d = e
  <2>1. \A i \in 0 .. MaxSequence : i \in Nat
    BY SplitAssumption
  <2>2. /\ B \subseteq operations /\ operations \subseteq Delta /\ n \in Nat
        /\ n <= sourceSequence /\ sourceSequence \in 0 .. MaxSequence
    BY <1>1, Zenon DEF childOK, recordsOK, typesOK, Operation
  <2>3. \A d \in Delta : d.sequence \in 0 .. MaxSequence
    BY Zenon DEF Delta
  <2> QED
    BY <1>1, <2>1, <2>2, <2>3, Zenon DEF recordsOK, sourceOK
<1>3. Cardinality(B) \in Nat /\ (Cardinality(B) = 0 <=> B = {})
  <2>1. IsFiniteSet(B)
    BY <1>1, FS_Subset, Zenon DEF childOK, typesOK
  <2> QED
    BY <2>1, FS_CardinalityType, FS_EmptySet, Zenon
<1>4. {d.sequence : d \in B} = n + 1 .. last
  BY SMTT(30) DEF contiguous
<1> HIDE DEF n, B
<1>5. \A b \in B : n < b.sequence /\ b.sequence <= last
  BY <1>2, <1>3, <1>4
<1>6. last \in Nat /\ last <= sourceSequence
  <2>1. CASE B = {}
    BY <1>2, <1>3, <2>1
  <2>2. CASE B # {}
    <3>1. last \in n + 1 .. last
      BY <1>2, <1>3, <2>2
    <3>2. PICK b \in B : b.sequence = last
      BY <1>4, <3>1
    <3> QED
      BY <1>2, <1>3, <3>2
  <2> QED
    BY <2>1, <2>2
<1>7. {d \in operations : d.sequence <= last} = A \cup B
  <2>1. ASSUME NEW d \in operations, d.sequence <= last, ~ (d.sequence <= n) PROVE d \in B
    <3>1. d.sequence \in n + 1 .. last
      BY <1>2, <1>6, <2>1, SMTT(20)
    <3>2. PICK b \in B : b.sequence = d.sequence
      BY <1>4, <3>1
    <3> QED
      BY <1>2, <3>2
  <2>2. \A d \in A : d.sequence <= last
    BY <1>2, <1>3
  <2> QED
    BY <1>2, <1>5, <2>1, <2>2
<1>8. lastRows(A \cup B) = putAll(lastRows(A), lastRows(B))
  <2>1. A \subseteq Delta /\ B \subseteq Delta
    BY <1>2
  <2>2. \A d \in A \cup B : rowOK(d)
    BY <1>2
  <2>3. \A a \in A, b \in B : a.sequence < b.sequence
    BY <1>2, <1>5
  <2> HIDE DEF A
  <2> QED
    BY <2>1, <2>2, <2>3, LastUnion
<1>9. rowsOf(operations, last) = putAll(rowsOf(operations, n), lastRows(B))
  <2>1. rowsOf(operations, last) = putAll(InitialRows, lastRows(A \cup B))
    BY <1>7, Zenon DEF rowsOf
  <2>2. rowsOf(operations, n) = putAll(InitialRows, lastRows(A))
    BY Zenon DEF rowsOf
  <2>3. putAll(putAll(InitialRows, lastRows(A)), lastRows(B))
          = putAll(InitialRows, putAll(lastRows(A), lastRows(B)))
    BY PutPut
  <2> HIDE DEF A, last
  <2> QED
    BY <1>8, <2>1, <2>2, <2>3, Zenon
<1> QED
  BY <1>6, <1>9, Zenon DEF n, B

\* After the cutover the images are ahead of every delta.
LEMMA NoDeltaContinues ==
    ASSUME IInv, cutover, NEW o \in operation, contiguous(o)
    PROVE  o.deltas = {}
<1>1. /\ o \in Operation /\ deltas \subseteq Delta
      /\ childOK(o, cutover, sourceSequence, deltas, operations)
  BY Zenon DEF IInv, dataOK, typesOK, recordsOK
<1>2. ASSUME NEW d \in o.deltas PROVE FALSE
  <2>1. d \in deltas /\ d.sequence \in Nat /\ d.sequence <= o.leftApplied /\ o.leftApplied \in Nat
    <3>1. \A i \in 0 .. MaxSequence : i \in Nat
      BY SplitAssumption
    <3>2. d \in deltas /\ d.sequence <= o.leftApplied /\ o.leftApplied \in Nat
      BY <1>1, <1>2, Zenon DEF childOK, Operation
    <3>3. d.sequence \in 0 .. MaxSequence
      BY <1>1, <3>2, Zenon DEF Delta
    <3> QED
      BY <3>1, <3>2, <3>3, Zenon
  <2>2. d.sequence \in o.leftApplied + 1 .. o.leftApplied + Cardinality(o.deltas)
    BY DEF contiguous
  <2>3. \A i, j \in Nat : \A k : i <= j => i \notin j + 1 .. k
    OBVIOUS
  <2> QED
    BY <2>1, <2>2, <2>3, Zenon
<1> QED
  BY <1>2, SMTT(30)

LEMMA CatchUpStep ==
    ASSUME IInv, CatchUp
    PROVE  IInv'
<1>1. PICK o \in operation :
        /\ contiguous(o)
        /\ LET last == o.leftApplied + Cardinality(o.deltas)
           IN  operation' = {[o EXCEPT !.leftRows = putAll(@, within(lastRows(o.deltas), o.left)),
                                       !.rightRows = putAll(@, within(lastRows(o.deltas), o.right)),
                                       !.leftApplied = last, !.rightApplied = last]}
  BY Zenon DEF CatchUp
<1>2. PICK last : last = o.leftApplied + Cardinality(o.deltas)
  BY Zenon
<1>3. PICK new : new = lastRows(o.deltas)
  BY Zenon
<1>4. PICK p : p = [o EXCEPT !.leftRows = putAll(@, within(new, o.left)),
                             !.rightRows = putAll(@, within(new, o.right)),
                             !.leftApplied = last, !.rightApplied = last]
  OBVIOUS
<1>5. operation' = {p} /\ UNCHANGED <<catalog, source, members, cutover, clients>>
  BY <1>1, <1>2, <1>3, <1>4, ZenonT(40) DEF CatchUp
<1>6. /\ o \in Operation /\ cutover \in BOOLEAN
      /\ childOK(o, cutover, sourceSequence, deltas, operations)
  BY Zenon DEF IInv, dataOK, typesOK
<1>7. ASSUME cutover PROVE new = {} /\ last = o.leftApplied
  <2>1. o.deltas = {}
    BY <1>1, <1>7, NoDeltaContinues
  <2> QED
    BY <1>2, <1>3, <1>6, <2>1, LastOfNone, FS_EmptySet, SMTT(20) DEF Operation
<1>8. ASSUME ~ cutover
      PROVE  /\ last \in Nat /\ last <= sourceSequence
             /\ rowsOf(operations, last) = putAll(rowsOf(operations, o.leftApplied), new)
  BY <1>1, <1>2, <1>3, <1>8, DeltasContinue, Zenon
<1>9. last \in Nat
  BY <1>6, <1>7, <1>8 DEF Operation
<1>10. /\ p \in Operation /\ p.deltas = o.deltas
       /\ p.left = o.left /\ p.right = o.right
       /\ p.leftRows = putAll(o.leftRows, within(new, o.left))
       /\ p.rightRows = putAll(o.rightRows, within(new, o.right))
       /\ p.leftApplied = last /\ p.rightApplied = last
  <2>1. new \subseteq Row
    BY <1>3, <1>6 DEF lastRows, Operation, Delta
  <2>2. /\ putAll(o.leftRows, within(new, o.left)) \in SUBSET Row
        /\ putAll(o.rightRows, within(new, o.right)) \in SUBSET Row
    BY <1>6, <2>1, Zenon DEF putAll, within, Operation
  <2> QED
    BY <1>4, <1>6, <1>9, <2>2, Zenon DEF Operation
<1>11. /\ \A r \in p.leftRows : Contains(p.left, r.key)
       /\ \A r \in p.rightRows : Contains(p.right, r.key)
  BY <1>6, <1>10, Zenon DEF childOK, putAll, within
<1>12. ASSUME ~ cutover
       PROVE  /\ p.leftRows = within(rowsOf(operations, last), p.left)
              /\ p.rightRows = within(rowsOf(operations, last), p.right)
  <2>a. PICK R : R = rowsOf(operations, o.leftApplied)
    BY Zenon
  <2>1. o.leftRows = within(R, o.left) /\ o.rightRows = within(R, o.right)
    BY <1>6, <1>12, <2>a, Zenon DEF childOK
  <2>2. rowsOf(operations, last) = putAll(R, new)
    BY <1>8, <1>12, <2>a, Zenon
  <2>3. /\ within(putAll(R, new), o.left) = putAll(within(R, o.left), within(new, o.left))
        /\ within(putAll(R, new), o.right) = putAll(within(R, o.right), within(new, o.right))
    <3>1. withinPut(R, new, o.left) /\ withinPut(R, new, o.right)
      BY WithinPut, ZenonT(40)
    <3> QED
      BY <3>1, Zenon DEF withinPut
  <2> QED
    BY <1>10, <2>1, <2>2, <2>3, ZenonT(40)
<1>13. childOK(p, cutover, sourceSequence, deltas, operations)
  BY <1>6, <1>7, <1>8, <1>10, <1>11, <1>12, SMTT(20) DEF childOK
<1> QED
  BY <1>5, <1>10, <1>13, SplitChanges, Zenon

\* Serving children have the keys they had.
LEMMA ServingKeeps ==
    ASSUME NEW d \in RangeDescriptor
    PROVE  /\ serving(d) \in RangeDescriptor
           /\ \A k : Contains(serving(d), k) <=> Contains(d, k)
<1>1. "serving" \in ServingPhase
  BY DEF ServingPhase
<1>2. serving(d) \in RangeDescriptor
  BY <1>1, Zenon DEF serving, RangeDescriptor
<1>3. serving(d).start = d.start /\ serving(d).end = d.end
  BY Zenon DEF serving, RangeDescriptor
<1> QED
  BY <1>2, <1>3 DEF Contains

\* A catalog that replaces one.
LEMMA ReplaceType ==
    ASSUME NEW k \in Catalog, NEW v \in Nat, NEW ds, ds \subseteq RangeDescriptor,
           canReplace(k, v, ds), NEW next \in Replace(k, v, ds)
    PROVE  next \in Catalog
<1>1. next = newest(v, ds, absent(k, ds))
  BY DEF Replace
<1>2. \A h \in absent(k, ds) : h \in RangeDescriptor
  BY DEF absent, Catalog
<1>3. \A h \in absent(k, ds) : retire(h) \in RangeDescriptor
  <2>1. "retired" \in ServingPhase
    BY DEF ServingPhase
  <2> QED
    BY <1>2, <2>1, Zenon DEF retire, RangeDescriptor
<1>4. ds \cup {retire(h) : h \in absent(k, ds)} \subseteq RangeDescriptor
  BY <1>3
<1> QED
  BY <1>1, <1>4, Zenon DEF newest, Catalog

LEMMA CutoverStep ==
    ASSUME IInv, Cutover
    PROVE  IInv'
<1>1. PICK o \in operation :
        /\ o.leftApplied = sourceSequence /\ o.rightApplied = sourceSequence
        /\ canReplace(catalog, catalog.version + 1, {serving(o.left), serving(o.right)})
        /\ catalog' \in Replace(catalog, catalog.version + 1, {serving(o.left), serving(o.right)})
        /\ operation' = {[o EXCEPT !.left = serving(@), !.right = serving(@)]}
  BY Zenon DEF Cutover
<1>2. PICK p : p = [o EXCEPT !.left = serving(@), !.right = serving(@)]
  BY Zenon
<1>3. /\ ~ cutover /\ cutover' = TRUE /\ operation' = {p}
      /\ sourceRows' = sourceRows /\ sourceSequence' = sourceSequence
      /\ deltas' = deltas /\ operations' = operations
      /\ leader' = leader /\ replicas' = replicas /\ events' = events
      /\ pc' = pc /\ route' = route /\ answer' = answer
  BY <1>1, <1>2, Zenon DEF Cutover, source, members, clients
<1>4. /\ o \in Operation /\ typesOK /\ recordsOK /\ sourceOK
      /\ childOK(o, cutover, sourceSequence, deltas, operations)
  BY Zenon DEF IInv, dataOK, typesOK
<1>5. o.left \in RangeDescriptor /\ o.right \in RangeDescriptor
  BY <1>4, Zenon DEF Operation
<1>6. /\ serving(o.left) \in RangeDescriptor /\ serving(o.right) \in RangeDescriptor
      /\ \A k : Contains(serving(o.left), k) <=> Contains(o.left, k)
      /\ \A k : Contains(serving(o.right), k) <=> Contains(o.right, k)
  BY <1>5, ServingKeeps, Zenon
<1>7. /\ p \in Operation /\ p.left = serving(o.left) /\ p.right = serving(o.right)
      /\ p.deltas = o.deltas /\ p.leftRows = o.leftRows /\ p.rightRows = o.rightRows
      /\ p.leftApplied = o.leftApplied /\ p.rightApplied = o.rightApplied
  BY <1>2, <1>4, <1>6, Zenon DEF Operation
<1>8. catalog' \in Catalog
  <2>1. catalog \in Catalog /\ catalog.version + 1 \in Nat
    <3>1. catalog \in Catalog /\ catalog.version \in Nat
      BY <1>4, Zenon DEF typesOK, Catalog
    <3>2. \A i \in Nat : i + 1 \in Nat
      OBVIOUS
    <3> QED
      BY <3>1, <3>2, Zenon
  <2>2. {serving(o.left), serving(o.right)} \subseteq RangeDescriptor
    BY <1>6, Zenon
  <2> QED
    BY <1>1, <2>1, <2>2, ReplaceType, Zenon
<1>9. typesOK'
  <2>1. operation' \subseteq Operation /\ \A x, y \in operation' : x = y
    BY <1>3, <1>7, Zenon
  <2> QED
    BY <1>3, <1>4, <1>8, <2>1, Zenon DEF typesOK
<1>10. recordsOK' /\ sourceOK'
  BY <1>3, <1>4, Zenon DEF recordsOK, sourceOK
<1>11. \A d \in deltas : d.sequence <= p.leftApplied
  BY <1>1, <1>3, <1>4, <1>7, Zenon DEF sourceOK, recordsOK
<1>12. childOK(p, TRUE, sourceSequence, deltas, operations)
  BY <1>4, <1>6, <1>7, <1>11, Zenon DEF childOK
<1> QED
  BY <1>3, <1>9, <1>10, <1>12, Zenon DEF IInv, dataOK

\* The invariant is inductive.
LEMMA SplitNext == IInv /\ [Next]_vars => IInv'
<1> SUFFICES ASSUME IInv, [Next]_vars PROVE IInv'
  OBVIOUS
<1>1. CASE UNCHANGED vars
  <2>1. /\ UNCHANGED source /\ operation' = operation /\ cutover' = cutover
        /\ catalog' = catalog
        /\ sourceRows' = sourceRows /\ sourceSequence' = sourceSequence
        /\ deltas' = deltas /\ operations' = operations
        /\ leader' = leader /\ replicas' = replicas /\ events' = events
        /\ pc' = pc /\ route' = route /\ answer' = answer
    BY <1>1 DEF vars, source, members, clients
  <2>2. typesOK'
    BY <2>1, Zenon DEF IInv, typesOK
  <2> QED
    BY <2>1, <2>2, DataUnchanged, Zenon DEF IInv
<1>2. ASSUME NEW v \in Source.voters,
             RegisterSecondary(v) \/ SetLeader(v) \/ SetSecondaryAvailable(v)
      PROVE  IInv'
  BY <1>2, MembersStep, Zenon
<1>3. ASSUME NEW boundary \in Key, NEW b \in BOOLEAN, BeginSplit(boundary, b) PROVE IInv'
  BY <1>3, BeginSplitStep, Zenon
<1>4. ASSUME NEW c \in Clients, WriteAtOwner(c) \/ WriteAtLeader(c) PROVE IInv'
  BY <1>4, RouteStep, Zenon
<1>5. ASSUME NEW c \in Clients, Write(c) PROVE IInv'
  BY <1>5, WriteStep, Zenon
<1>6. ASSUME NEW d \in arriving, DeliverDelta(d) PROVE IInv'
  BY <1>6, DeliverStep, Zenon
<1>7. CASE CatchUp \/ Cutover
  BY <1>7, CatchUpStep, CutoverStep, Zenon
<1> QED
  BY <1>1, <1>2, <1>3, <1>4, <1>5, <1>6, <1>7, Zenon DEF Next

LEMMA SplitInvariant == Spec => []IInv
  BY SplitInit, SplitNext, PTL DEF Spec

-----------------------------------------------------------------------------
\* Every field of the harness keeps its type: in particular the deltas it
\* retains never pass maxSplitDeltas, and there is at most one split
\* (SplitHarness.BeginSplit, Write).
THEOREM SplitTypeCorrect == Spec => []TypeOK
<1>1. IInv => TypeOK
  <2> SUFFICES ASSUME IInv PROVE TypeOK
    BY Zenon
  <2>1. deltas \subseteq Delta
    BY Zenon DEF IInv, dataOK, recordsOK, typesOK
  <2>2. Cardinality(operation) <= 1
    <3>1. \A o, p \in operation : o = p
      BY Zenon DEF IInv, typesOK
    <3>2. CASE operation = {}
      BY <3>2, FS_EmptySet
    <3>3. CASE operation # {}
      <4>1. PICK o : operation = {o}
        BY <3>1, <3>3
      <4>2. Cardinality({o}) = 1
        BY FS_Singleton, Zenon
      <4> QED
        BY <4>1, <4>2
    <3> QED
      BY <3>2, <3>3, Zenon
  <2>3. /\ \A v \in Source.voters : replicas[v] \subseteq [current: BOOLEAN, available: BOOLEAN]
        /\ \A c \in Clients : answer[c] \subseteq Delta
    BY Zenon DEF IInv, typesOK
  <2> QED
    BY <2>1, <2>2, <2>3, Zenon DEF IInv, typesOK, TypeOK
<1> QED
  BY <1>1, SplitInvariant, PTL

\* Until the cutover the images of the children are the rows the source had at
\* the sequence number both claim to have applied, whichever deltas were late,
\* repeated or never delivered (DeliverDelta, CatchUp).
THEOREM SplitChildrenArePast == Spec => []ChildrenAreAPastSource
<1>1. IInv => ChildrenAreAPastSource
  BY Zenon DEF IInv, dataOK, childOK, ChildrenAreAPastSource, rowsAt, rowsOf
<1> QED
  BY <1>1, SplitInvariant, PTL

-----------------------------------------------------------------------------
(***************************************************************************)
(* The split range implements one map.                                     *)
(***************************************************************************)

\* The sequence numbers are used one after the other.
countOK == sourceSequence = initialSequence + Cardinality(operations)

\* No client has more than one record.
LEMMA FewRecords ==
    ASSUME IsFiniteSet(Clients), NEW S, S \subseteq Delta,
           \A d, e \in S : d.cmd.op = e.cmd.op => d = e
    PROVE  IsFiniteSet(S) /\ Cardinality(S) <= Cardinality(Clients)
<1> DEFINE f == [d \in S |-> CHOOSE c \in Clients : Command[c] = d.cmd]
<1>1. ASSUME NEW d \in S PROVE f[d] \in Clients /\ Command[f[d]] = d.cmd
  <2>1. \E c \in Clients : Command[c] = d.cmd
    BY Zenon DEF Delta, Commands
  <2> QED
    BY <2>1, Zenon
<1>2. f \in [S -> Clients]
  BY <1>1
<1>3. \A d, e \in S : f[d] = f[e] => d = e
  BY <1>1
<1> HIDE DEF f
<1>4. f \in Injection(S, Clients)
  BY <1>2, <1>3 DEF Injection, IsInjective
<1> QED
  BY <1>4, FS_Injection, Zenon

\* A sequence number is left for an operation that has no record.
LEMMA NumberLeft ==
    ASSUME IInv, countOK, IsFiniteSet(Clients),
           initialSequence + Cardinality(Clients) <= MaxSequence,
           NEW d \in Delta, \A e \in operations : e.cmd.op # d.cmd.op
    PROVE  /\ sourceSequence < MaxSequence
           /\ Cardinality(operations \cup {d}) = Cardinality(operations) + 1
<1>1. /\ operations \cup {d} \subseteq Delta /\ d \notin operations
      /\ \A e, f \in operations \cup {d} : e.cmd.op = f.cmd.op => e = f
      /\ \A e, f \in operations : e.cmd.op = f.cmd.op => e = f
  BY Zenon DEF IInv, typesOK, dataOK, recordsOK
<1>2. IsFiniteSet(operations)
  BY <1>1, FewRecords, Zenon
<1>3. Cardinality(operations \cup {d}) <= Cardinality(Clients)
  BY <1>1, FewRecords, Zenon
<1>4. Cardinality(operations \cup {d}) = Cardinality(operations) + 1
  BY <1>1, <1>2, FS_AddElement, ZenonT(40)
<1>5. Cardinality(operations) \in Nat /\ Cardinality(Clients) \in Nat
      /\ initialSequence \in Nat /\ MaxSequence \in Nat
  BY <1>2, FS_CardinalityType, InitialSequenceType, SplitAssumption
<1>6. sourceSequence = initialSequence + Cardinality(operations)
  BY DEF countOK
<1> QED
  BY <1>3, <1>4, <1>5, <1>6

\* A record that is made of the served rows is a write of the map.
LEMMA WriteMaps ==
    ASSUME NEW cmd \in Commands, \A x \in operations : x.cmd.op # cmd.op,
           NEW rows, NEW d, recorded(d, rows, cmd, sourceSequence + 1),
           holds(cmd, rows) <=> holds(cmd, servedRows),
           sourceSequence' = sourceSequence + 1, operations' = operations \cup {d},
           servedRows' = putAll(servedRows, d.row)
    PROVE  OneRange!Write(cmd)
<1> DEFINE r == [key |-> cmd.key, version |-> cmd.version, sequence |-> sourceSequence + 1]
<1>1. /\ d \in Delta /\ d.cmd = cmd /\ d.sequence = sourceSequence + 1
      /\ d.row = IF holds(cmd, rows) THEN {r} ELSE {}
  BY Zenon DEF recorded
<1>2. d = [cmd |-> cmd, sequence |-> sourceSequence + 1, row |-> d.row]
  BY <1>1, Zenon DEF Delta
<1>3. holds(cmd, servedRows) <=> OneRange!holds(cmd, servedRows)
  BY Zenon DEF holds, OneRange!holds
<1>4. CASE holds(cmd, rows)
  <2>1. d.row = {r} /\ OneRange!holds(cmd, servedRows)
    BY <1>1, <1>3, <1>4, Zenon
  <2>2. servedRows' = OneRange!put(servedRows, r)
    BY <2>1, Zenon DEF putAll, OneRange!put
  <2> QED
    BY <1>2, <2>1, <2>2, ZenonT(40) DEF OneRange!Write
<1>5. CASE ~ holds(cmd, rows)
  <2>1. d.row = {} /\ ~ OneRange!holds(cmd, servedRows)
    BY <1>1, <1>3, <1>5, ZenonT(40)
  <2>2. servedRows' = servedRows
    BY <2>1, PutNothing, Zenon
  <2> QED
    BY <1>2, <2>1, <2>2, Zenon DEF OneRange!Write
<1> QED
  BY <1>4, <1>5, Zenon

\* After the cutover Read returns the rows of the two children.
LEMMA ServedByChildren ==
    ASSUME NEW o
    PROVE  UNION {p.leftRows \cup p.rightRows : p \in {o}} = o.leftRows \cup o.rightRows
  OBVIOUS

\* Rows of the other child do not decide a command,
LEMMA OtherHolds ==
    ASSUME NEW cmd, NEW L, NEW R, \A r \in R : r.key # cmd.key
    PROVE  holds(cmd, L) <=> holds(cmd, L \cup R)
  BY Zenon DEF holds

\* and are not replaced by it.
LEMMA OtherPut ==
    ASSUME NEW L, NEW R, NEW N, \A r \in R : \A n \in N : r.key # n.key
    PROVE  putAll(L \cup R, N) = putAll(L, N) \cup R
<1>1. \A x : x \in putAll(L, N) \cup R <=> x \in putAll(L \cup R, N)
  BY ZenonT(40) DEF putAll
<1> QED
  BY <1>1, Zenon

\* A write at the source.
LEMMA SourceWriteMaps ==
    ASSUME IInv, NEW c \in Clients, WriteSource(Command[c]), UNCHANGED cutover
    PROVE  /\ OneRange!Write(Command[c])
           /\ \E d \in Delta : /\ \A e \in operations : e.cmd.op # d.cmd.op
                               /\ operations' = operations \cup {d}
           /\ sourceSequence' = sourceSequence + 1
<1>1. PICK d : d = evaluateTransferCommand(sourceRows, Command[c], sourceSequence + 1)
  BY Zenon
<1>2. /\ ~ cutover /\ \A e \in operations : e.cmd.op # Command[c].op
      /\ sourceSequence < MaxSequence
      /\ sourceSequence' = d.sequence /\ operations' = operations \cup {d}
      /\ sourceRows' = putAll(sourceRows, d.row)
  BY <1>1, Zenon DEF WriteSource, hasRoom, record
<1>3. Command[c] \in Commands
  BY ClientCommand
<1>4. recorded(d, sourceRows, Command[c], sourceSequence + 1)
  <2>1. sourceSequence + 1 \in 0 .. MaxSequence
    BY <1>2, SplitAssumption DEF IInv, typesOK
  <2> QED
    BY <1>1, <1>3, <2>1, Evaluated, ZenonT(40)
<1>5. d \in Delta /\ d.cmd = Command[c] /\ d.sequence = sourceSequence + 1
  BY <1>4, Zenon DEF recorded
<1>6. servedRows = sourceRows /\ servedRows' = putAll(servedRows, d.row)
  BY <1>2, Zenon DEF servedRows
<1>7. sourceSequence' = sourceSequence + 1
  BY <1>2, <1>5, Zenon
<1>8. OneRange!Write(Command[c])
  BY <1>2, <1>3, <1>4, <1>6, <1>7, WriteMaps, Zenon
<1> QED
  BY <1>2, <1>5, <1>7, <1>8, Zenon

\* A write at a child.
LEMMA ChildWriteMaps ==
    ASSUME IInv, countOK, IsFiniteSet(Clients),
           initialSequence + Cardinality(Clients) <= MaxSequence,
           NEW c \in Clients, WriteChild(Command[c]), UNCHANGED cutover
    PROVE  /\ OneRange!Write(Command[c])
           /\ \E d \in Delta : /\ \A e \in operations : e.cmd.op # d.cmd.op
                               /\ operations' = operations \cup {d}
           /\ sourceSequence' = sourceSequence + 1
<1> DEFINE cmd == Command[c]
<1>1. PICK o \in operation :
        LET target == IF Contains(o.left, cmd.key) THEN o.leftRows ELSE o.rightRows
            d == evaluateTransferCommand(target, cmd, successor(sourceSequence))
        IN  /\ record(d)
            /\ operation' =
                 {IF Contains(o.left, cmd.key)
                  THEN [o EXCEPT !.leftRows = putAll(@, d.row)]
                  ELSE [o EXCEPT !.rightRows = putAll(@, d.row)]}
  BY Zenon DEF WriteChild
<1>2. PICK target :
        target = IF Contains(o.left, cmd.key) THEN o.leftRows ELSE o.rightRows
  BY Zenon
<1>3. PICK d : d = evaluateTransferCommand(target, cmd, successor(sourceSequence))
  BY Zenon
<1>4. PICK p : p = IF Contains(o.left, cmd.key)
                   THEN [o EXCEPT !.leftRows = putAll(@, d.row)]
                   ELSE [o EXCEPT !.rightRows = putAll(@, d.row)]
  BY Zenon
<1>5. /\ cutover /\ \A e \in operations : e.cmd.op # cmd.op
      /\ sourceSequence' = d.sequence /\ operations' = operations \cup {d}
      /\ operation' = {p}
  BY <1>1, <1>2, <1>3, <1>4, Zenon DEF WriteChild, record
<1>6. /\ o \in Operation /\ operation = {o} /\ sourceSequence \in 0 .. MaxSequence
      /\ childOK(o, cutover, sourceSequence, deltas, operations)
  BY Zenon DEF IInv, dataOK, typesOK
<1>7. cmd \in Commands /\ cmd.key \in Key
  BY ClientCommand, RowAssumption, Zenon
<1>8. recorded(d, target, cmd, successor(sourceSequence))
  <2>1. successor(sourceSequence) \in 0 .. MaxSequence
    BY <1>6, SuccessorType, Zenon
  <2> QED
    BY <1>3, <1>7, <2>1, Evaluated, Zenon
<1>9. d \in Delta /\ d.cmd = cmd /\ d.sequence = successor(sourceSequence)
      /\ \A r \in d.row : r.key = cmd.key
  BY <1>8, Zenon DEF recorded
<1>10. successor(sourceSequence) = sourceSequence + 1
  <2>1. sourceSequence < MaxSequence
    BY <1>5, <1>9, NumberLeft, Zenon
  <2> QED
    BY <1>6, <2>1, SuccessorType, Zenon
<1>11. servedRows = o.leftRows \cup o.rightRows /\ servedRows' = p.leftRows \cup p.rightRows
  BY <1>5, <1>6, ServedByChildren, Zenon DEF servedRows
<1>12. /\ holds(cmd, target) <=> holds(cmd, servedRows)
       /\ servedRows' = putAll(servedRows, d.row)
  <2>1. \A r \in o.leftRows \cup o.rightRows : r.key \in Key
    BY <1>6, Zenon DEF Operation, Row
  <2>2. \A r \in d.row : r.key = cmd.key
    BY <1>9, Zenon
  <2>3. CASE Contains(o.left, cmd.key)
    <3>1. target = o.leftRows
          /\ p.leftRows = putAll(o.leftRows, d.row) /\ p.rightRows = o.rightRows
      BY <1>2, <1>4, <1>6, <2>3, Zenon DEF Operation
    <3>2. \A r \in o.rightRows : r.key # cmd.key
      BY <1>6, <1>7, <2>1, <2>3, ZenonT(40) DEF childOK
    <3>3. holds(cmd, o.leftRows) <=> holds(cmd, o.leftRows \cup o.rightRows)
      BY <3>2, OtherHolds, Zenon
    <3>4. \A r \in o.rightRows : \A n \in d.row : r.key # n.key
      BY <2>2, <3>2, Zenon
    <3>5. putAll(o.leftRows \cup o.rightRows, d.row) = putAll(o.leftRows, d.row) \cup o.rightRows
      BY <3>4, OtherPut, ZenonT(40)
    <3> QED
      BY <1>11, <3>1, <3>3, <3>5, Zenon
  <2>4. CASE ~ Contains(o.left, cmd.key)
    <3>1. target = o.rightRows
          /\ p.rightRows = putAll(o.rightRows, d.row) /\ p.leftRows = o.leftRows
      BY <1>2, <1>4, <1>6, <2>4, Zenon DEF Operation
    <3>2. \A r \in o.leftRows : r.key # cmd.key
      BY <1>6, <1>7, <2>1, <2>4, ZenonT(40) DEF childOK
    <3>3. holds(cmd, o.rightRows) <=> holds(cmd, o.rightRows \cup o.leftRows)
      BY <3>2, OtherHolds, Zenon
    <3>4. \A r \in o.leftRows : \A n \in d.row : r.key # n.key
      BY <2>2, <3>2, Zenon
    <3>5. putAll(o.rightRows \cup o.leftRows, d.row) = putAll(o.rightRows, d.row) \cup o.leftRows
      BY <3>4, OtherPut, Zenon
    <3>6. /\ o.rightRows \cup o.leftRows = o.leftRows \cup o.rightRows
          /\ p.leftRows \cup p.rightRows = p.rightRows \cup p.leftRows
      BY Zenon
    <3> QED
      BY <1>11, <3>1, <3>3, <3>5, <3>6, Zenon
  <2> QED
    BY <2>3, <2>4, Zenon
<1>13. sourceSequence' = sourceSequence + 1
  BY <1>5, <1>9, <1>10, Zenon
<1>14. recorded(d, target, cmd, sourceSequence + 1)
  BY <1>8, <1>10, Zenon
<1> HIDE DEF cmd
<1>15. OneRange!Write(cmd)
  BY <1>5, <1>7, <1>12, <1>13, <1>14, WriteMaps, ZenonT(40)
<1> QED
  BY <1>5, <1>9, <1>13, <1>15, Zenon DEF cmd

\* What Cutover publishes is what the source served.
LEMMA CutoverServes ==
    ASSUME IInv, Cutover
    PROVE  servedRows' = servedRows /\ UNCHANGED source
<1>1. PICK o \in operation :
        /\ o.leftApplied = sourceSequence
        /\ operation' = {[o EXCEPT !.left = serving(@), !.right = serving(@)]}
  BY Zenon DEF Cutover
<1>2. PICK p : p = [o EXCEPT !.left = serving(@), !.right = serving(@)]
  BY Zenon
<1>3. ~ cutover /\ cutover' = TRUE /\ operation' = {p} /\ UNCHANGED source
  BY <1>1, <1>2, Zenon DEF Cutover
<1>4. /\ o \in Operation /\ sourceRows \subseteq Row /\ sourceOK
      /\ childOK(o, cutover, sourceSequence, deltas, operations)
  BY Zenon DEF IInv, dataOK, typesOK
<1>5. p.leftRows = o.leftRows /\ p.rightRows = o.rightRows
  BY <1>2, <1>4 DEF Operation
<1>6. o.leftRows = within(sourceRows, o.left) /\ o.rightRows = within(sourceRows, o.right)
  BY <1>1, <1>3, <1>4, Zenon DEF childOK, sourceOK
<1>7. \A r \in sourceRows : Contains(o.left, r.key) \/ Contains(o.right, r.key)
  BY <1>4, Zenon DEF childOK, Row
<1>8. o.leftRows \cup o.rightRows = sourceRows
  BY <1>6, <1>7, Zenon DEF within
<1> QED
  BY <1>3, <1>5, <1>8, ServedByChildren, Zenon DEF servedRows

\* CatchUp and DeliverDelta change nothing that Read returns.
LEMMA CatchUpServes ==
    ASSUME IInv, CatchUp
    PROVE  servedRows' = servedRows /\ UNCHANGED source
<1>1. PICK o \in operation :
        /\ contiguous(o)
        /\ LET last == o.leftApplied + Cardinality(o.deltas)
           IN  operation' = {[o EXCEPT !.leftRows = putAll(@, within(lastRows(o.deltas), o.left)),
                                       !.rightRows = putAll(@, within(lastRows(o.deltas), o.right)),
                                       !.leftApplied = last, !.rightApplied = last]}
  BY Zenon DEF CatchUp
<1>2. UNCHANGED source /\ cutover' = cutover /\ sourceRows' = sourceRows
  BY DEF CatchUp, source
<1>3. CASE ~ cutover
  BY <1>2, <1>3, Zenon DEF servedRows
<1>4. CASE cutover
  <2>1. PICK p :
          p = [o EXCEPT !.leftRows = putAll(@, within(lastRows(o.deltas), o.left)),
                        !.rightRows = putAll(@, within(lastRows(o.deltas), o.right)),
                        !.leftApplied = o.leftApplied + Cardinality(o.deltas),
                        !.rightApplied = o.leftApplied + Cardinality(o.deltas)]
    OBVIOUS
  <2>2. operation' = {p} /\ o \in Operation /\ operation = {o}
    BY <1>1, <2>1 DEF IInv, typesOK
  <2>3. lastRows(o.deltas) = {}
    BY <1>1, <1>4, NoDeltaContinues, LastOfNone, Zenon
  <2>4. within({}, o.left) = {} /\ within({}, o.right) = {}
    BY Zenon DEF within
  <2>5. p.leftRows = o.leftRows /\ p.rightRows = o.rightRows
    BY <2>1, <2>2, <2>3, <2>4, PutNothing, ZenonT(40) DEF Operation
  <2> QED
    BY <1>2, <1>4, <2>2, <2>5, ServedByChildren, Zenon DEF servedRows
<1> QED
  BY <1>3, <1>4

LEMMA DeliverServes ==
    ASSUME IInv, NEW d \in arriving, DeliverDelta(d)
    PROVE  servedRows' = servedRows /\ UNCHANGED source
<1>1. PICK o \in operation : operation' = {[o EXCEPT !.deltas = @ \cup {d}]}
  BY Zenon DEF DeliverDelta
<1>2. UNCHANGED source /\ cutover' = cutover /\ sourceRows' = sourceRows
  BY DEF DeliverDelta, source
<1>3. PICK p : p = [o EXCEPT !.deltas = @ \cup {d}]
  BY Zenon
<1>4. operation' = {p} /\ o \in Operation /\ operation = {o}
  BY <1>1, <1>3 DEF IInv, typesOK
<1>5. p.leftRows = o.leftRows /\ p.rightRows = o.rightRows
  BY <1>3, <1>4 DEF Operation
<1> QED
  BY <1>2, <1>4, <1>5, ServedByChildren DEF servedRows

\* Every step is a write of the map or changes nothing of it.
LEMMA SplitStepMaps ==
    ASSUME IsFiniteSet(Clients), initialSequence + Cardinality(Clients) <= MaxSequence,
           IInv, countOK, [Next]_vars
    PROVE  [OneRange!Next]_(OneRange!vars) /\ countOK'
<1>1. ASSUME servedRows' = servedRows, UNCHANGED source
      PROVE  [OneRange!Next]_(OneRange!vars) /\ countOK'
  BY <1>1 DEF OneRange!vars, source, countOK
<1>2. ASSUME NEW c \in Clients, OneRange!Write(Command[c]),
             \E d \in Delta : /\ \A e \in operations : e.cmd.op # d.cmd.op
                              /\ operations' = operations \cup {d},
             sourceSequence' = sourceSequence + 1
      PROVE  [OneRange!Next]_(OneRange!vars) /\ countOK'
  <2>1. OneRange!Next
    BY <1>2, ClientCommand, Zenon DEF OneRange!Next
  <2>2. Cardinality(operations') = Cardinality(operations) + 1
    BY <1>2, NumberLeft, Zenon
  <2>3. Cardinality(operations) \in Nat
    <3>1. IsFiniteSet(operations)
      BY FewRecords, Zenon DEF IInv, typesOK, dataOK, recordsOK
    <3> QED
      BY <3>1, FS_CardinalityType, Zenon
  <2>4. countOK'
    <3>1. sourceSequence = initialSequence + Cardinality(operations)
      BY Zenon DEF countOK
    <3>2. initialSequence \in Nat
      BY InitialSequenceType, SplitAssumption
    <3>3. sourceSequence' = initialSequence + Cardinality(operations')
      BY <1>2, <2>2, <2>3, <3>1, <3>2
    <3> QED
      BY <3>3 DEF countOK
  <2> QED
    BY <2>1, <2>4, Zenon
<1>3. CASE UNCHANGED vars
  BY <1>1, <1>3, Zenon DEF vars, source, servedRows
<1>4. ASSUME NEW v \in Source.voters,
             RegisterSecondary(v) \/ SetLeader(v) \/ SetSecondaryAvailable(v)
      PROVE  servedRows' = servedRows /\ UNCHANGED source
  <2>1. UNCHANGED source /\ operation' = operation /\ cutover' = cutover
    BY <1>4, Zenon DEF RegisterSecondary, SetLeader, SetSecondaryAvailable
  <2> QED
    BY <2>1, Zenon DEF source, servedRows
<1>5. ASSUME NEW boundary \in Key, NEW b \in BOOLEAN, BeginSplit(boundary, b)
      PROVE  servedRows' = servedRows /\ UNCHANGED source
  <2>1. operation = {} /\ UNCHANGED source /\ cutover' = cutover
    BY <1>5, Zenon DEF BeginSplit
  <2>2. ~ cutover
    BY <2>1, Zenon DEF IInv, dataOK
  <2> QED
    BY <2>1, <2>2, Zenon DEF source, servedRows
<1>6. ASSUME NEW c \in Clients, WriteAtOwner(c) \/ WriteAtLeader(c)
      PROVE  servedRows' = servedRows /\ UNCHANGED source
  <2>1. UNCHANGED source /\ operation' = operation /\ cutover' = cutover
    BY <1>6, Zenon DEF WriteAtOwner, WriteAtLeader
  <2> QED
    BY <2>1, Zenon DEF source, servedRows
<1>7. ASSUME NEW c \in Clients, Write(c)
      PROVE  [OneRange!Next]_(OneRange!vars) /\ countOK'
  <2>1. cutover' = cutover
    BY <1>7, Zenon DEF Write
  <2>2. CASE Replay(Command[c]) \/ Backpressure(Command[c])
    BY <1>1, <2>1, <2>2, Zenon DEF Replay, Backpressure, source, servedRows
  <2>3. CASE WriteSource(Command[c])
    BY <1>2, <2>1, <2>3, SourceWriteMaps, Zenon
  <2>4. CASE WriteChild(Command[c])
    BY <1>2, <2>1, <2>4, ChildWriteMaps, Zenon
  <2> QED
    BY <1>7, <2>2, <2>3, <2>4, Zenon DEF Write
<1>8. CASE \E d \in arriving : DeliverDelta(d)
  BY <1>1, <1>8, DeliverServes, Zenon
<1>9. CASE CatchUp \/ Cutover
  BY <1>1, <1>9, CatchUpServes, CutoverServes, Zenon
<1> QED
  BY <1>1, <1>3, <1>4, <1>5, <1>6, <1>7, <1>8, <1>9, ZenonT(40) DEF Next

\* A split is invisible: what Read and Write show is at every moment one map
\* of conditional writes, each of which takes effect once, on whichever side
\* of Cutover it is written and whichever deltas are late, lost or repeated.
\* The hypothesis says that the sequence numbers suffice for the commands:
\* Write does not check this after the cutover.
THEOREM SplitRefines ==
    ASSUME IsFiniteSet(Clients), initialSequence + Cardinality(Clients) <= MaxSequence
    PROVE  Spec => SplitIsInvisible
<1>1. Init => OneRange!Init /\ countOK
  <2> SUFFICES ASSUME Init PROVE OneRange!Init /\ countOK
    BY Zenon
  <2>1. /\ ~ cutover /\ sourceRows = InitialRows /\ sourceSequence = initialSequence
        /\ operations = {}
    BY Zenon DEF Init
  <2>2. countOK
    BY <2>1, InitialSequenceType, SplitAssumption, FS_EmptySet DEF countOK
  <2> QED
    BY <2>1, <2>2, Zenon DEF OneRange!Init, servedRows
<1>2. IInv /\ countOK /\ [Next]_vars => [OneRange!Next]_(OneRange!vars) /\ countOK'
  BY SplitStepMaps
<1> QED
  BY <1>1, <1>2, SplitInvariant, PTL DEF Spec, SplitIsInvisible, OneRange!Spec
=============================================================================
