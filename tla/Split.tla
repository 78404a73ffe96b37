-------------------------------- MODULE Split --------------------------------
(***************************************************************************)
(* Splitting a range in two while it serves: SplitHarness of               *)
(* internal/raftstore (split_transfer.go, split_cutover.go) over the       *)
(* catalogs of RangeCatalog.                                               *)
(*                                                                         *)
(* Every method of the harness holds its lock throughout, except           *)
(* WriteAtOwner and WriteAtLeader, which check the caller's route under    *)
(* the lock, let go of it and then call Write: two actions each.  Clients  *)
(* have a frozen command (RetryIdentity) and retry it, with the newest     *)
(* route when they are told RangeMoved, until they have an answer;         *)
(* answers are lost.  Deltas are delivered in any order, repeatedly or     *)
(* never, and altered copies of what was delivered arrive as well.         *)
(*                                                                         *)
(* Values are left to the row version.  The rows of secondaries are left   *)
(* out: nothing reads them, BeginSplit copies the leader's.  Once a split  *)
(* has begun nothing reads the secondaries, and the leader is only         *)
(* compared with the one a caller of WriteAtLeader names: the model        *)
(* forgets both there.                                                     *)
(***************************************************************************)
EXTENDS RangeCatalog

CONSTANTS
    Clients,
    Command,           \* [Clients -> commands]: the frozen command of each
    Source,            \* the descriptor of the range that is split
    InitialRows,       \* the rows it starts with
    Leader,            \* the voter that leads first
    LeftId, RightId,   \* identifiers of the children
    maxSplitDeltas,    \* bound on retained deltas
    MaxEvents,         \* bound on changes of the leader and the secondaries
    MaxSequence        \* the greatest sequence number: they are modulo its successor

ASSUME SplitAssumption ==
    /\ Source \in RangeDescriptor /\ Source.phase = "serving" /\ wellFormed({Source})
    /\ Leader \in Source.voters
    /\ {LeftId, RightId} \subseteq RangeIds
    /\ LeftId # RightId /\ Source.id \notin {LeftId, RightId}
    /\ maxSplitDeltas \in Nat /\ MaxEvents \in Nat /\ MaxSequence \in Nat

VARIABLES
    catalog,
    sourceRows, sourceSequence,
    leader,
    replicas,     \* [voters -> at most one [current, available]]: current is
                  \* SplitReplica.Applied >= sourceSequence
    events,       \* changes of the leader and the secondaries so far
    deltas,       \* deltas the source retains since BeginSplit
    operation,    \* the split: at most one
    operations,   \* the record of every command: its delta
    cutover,
    pc, route, answer  \* of each client

members == <<leader, replicas, events>>
source == <<sourceRows, sourceSequence, deltas, operations>>
clients == <<pc, route, answer>>
vars == <<catalog, source, members, operation, cutover, clients>>

(***************************************************************************)
(* Data.                                                                   *)
(***************************************************************************)
Commands == {Command[c] : c \in Clients}

Row == [key: Key, version: Nat, sequence: 0 .. MaxSequence]

ASSUME RowAssumption ==
    /\ InitialRows \subseteq Row
    /\ \A cmd \in Commands : cmd.key \in Key /\ cmd.version \in Nat

\* A delta is a command and its result at a sequence number; the row is there
\* when the command succeeded.
Delta == [cmd: Commands, sequence: 0 .. MaxSequence, row: SUBSET Row]

Operation ==
    [left: RangeDescriptor, right: RangeDescriptor, barrier: Nat, leftRows: SUBSET Row,
     rightRows: SUBSET Row, leftApplied: Nat, rightApplied: Nat, deltas: SUBSET Delta]

TypeOK ==
    /\ catalog \in Catalog
    /\ sourceRows \subseteq Row /\ sourceSequence \in 0 .. MaxSequence
    /\ leader \in Source.voters /\ events \in 0 .. MaxEvents
    /\ \A v \in Source.voters :
          replicas[v] \subseteq [current: BOOLEAN, available: BOOLEAN]
    /\ deltas \subseteq Delta /\ Cardinality(deltas) <= maxSplitDeltas
    /\ operations \subseteq Delta
    /\ operation \subseteq Operation /\ Cardinality(operation) <= 1
    /\ cutover \in BOOLEAN
    /\ pc \in [Clients -> {"idle", "checked", "done"}]
    /\ route \in [Clients -> RangeDescriptor]
    /\ \A c \in Clients : answer[c] \subseteq Delta

highest(rows) == {r.sequence : r \in rows} \cup {0}

initialSequence == CHOOSE s \in highest(InitialRows) : \A t \in highest(InitialRows) : t <= s

within(rows, d) == {r \in rows : Contains(d, r.key)}

\* validateSplitRows: rows of the source, with distinct versions, sequences
\* and keys, none of them after the barrier.
validateSplitRows(rows, barrier) ==
    /\ \A r \in rows : Contains(Source, r.key) /\ 0 < r.sequence /\ r.sequence <= barrier
    /\ \A r, s \in rows :
          r # s => r.version # s.version /\ r.sequence # s.sequence /\ r.key # s.key

Init ==
    /\ validateSplitRows(InitialRows, MaxSequence)
    /\ catalog = NewRangeCatalog(Source.generation, {Source})
    /\ sourceRows = InitialRows /\ sourceSequence = initialSequence
    /\ leader = Leader /\ events = 0
    /\ replicas = [v \in Source.voters |->
                     IF v = Leader THEN {} ELSE {[current |-> TRUE, available |-> TRUE]}]
    /\ deltas = {} /\ operation = {} /\ operations = {} /\ cutover = FALSE
    /\ pc = [c \in Clients |-> "idle"]
    /\ route = [c \in Clients |-> Source]
    /\ answer = [c \in Clients |-> {}]

(***************************************************************************)
(* The replicas of the source.                                             *)
(***************************************************************************)
RegisterSecondary(v) ==
    /\ operation = {}
    /\ events < MaxEvents /\ events' = events + 1
    /\ v # leader
    /\ \E current, available \in BOOLEAN :
          replicas' = [replicas EXCEPT ![v] = {[current |-> current, available |-> available]}]
    /\ UNCHANGED <<catalog, source, leader, operation, cutover, clients>>

SetLeader(v) ==
    /\ operation = {}
    /\ events < MaxEvents /\ events' = events + 1
    /\ v # leader
    /\ leader' = v
    /\ UNCHANGED <<catalog, source, replicas, operation, cutover, clients>>

SetSecondaryAvailable(v) ==
    /\ operation = {}
    /\ events < MaxEvents /\ events' = events + 1
    /\ \E b \in BOOLEAN :
          replicas' = [replicas EXCEPT ![v] = {[r EXCEPT !.available = b] : r \in @}]
    /\ UNCHANGED <<catalog, source, leader, operation, cutover, clients>>

(***************************************************************************)
(* BeginSplit.                                                             *)
(***************************************************************************)
\* Every registered replica has the leader's term and the source's fence.
safeSecondary ==
    \E v \in Source.voters \ {leader} : \E r \in replicas[v] : r.available /\ r.current

child(id, start, end, group) ==
    [Source EXCEPT !.id = id, !.start = start, !.end = end, !.group = group,
                   !.generation = @ + 1, !.ownerEpoch = @ + 1, !.phase = "catching_up"]

BeginSplit(boundary, allowLeaderFallback) ==
    /\ operation = {}
    /\ Source.start < boundary /\ boundary < Source.end
    /\ safeSecondary \/ allowLeaderFallback
    /\ sourceSequence # 0
    /\ validateSplitRows(sourceRows, sourceSequence)
    /\ LET left == child(LeftId, Source.start, boundary, 2 * Source.group)
           right == child(RightId, boundary, Source.end, 2 * Source.group + 1)
       IN  operation' = {[left |-> left, right |-> right, barrier |-> sourceSequence,
                          leftRows |-> within(sourceRows, left),
                          rightRows |-> within(sourceRows, right),
                          leftApplied |-> sourceSequence, rightApplied |-> sourceSequence,
                          deltas |-> {}]}
    /\ leader' = Leader /\ events' = 0
    /\ replicas' = [v \in Source.voters |-> {}]
    /\ UNCHANGED <<catalog, source, cutover, clients>>

(***************************************************************************)
(* Write, and the two ways to it that check the caller first.              *)
(***************************************************************************)
\* evaluateTransferCommand.
holds(cmd, rows) ==
    /\ cmd.createOnly => \A r \in rows : r.key # cmd.key
    /\ \A v \in cmd.ifMatch : \E r \in rows : r.key = cmd.key /\ r.version = v

evaluateTransferCommand(rows, cmd, sequence) ==
    [cmd |-> cmd, sequence |-> sequence,
     row |-> IF holds(cmd, rows)
             THEN {[key |-> cmd.key, version |-> cmd.version, sequence |-> sequence]}
             ELSE {}]

putAll(rows, new) == {x \in rows : \A r \in new : x.key # r.key} \cup new

\* A new sequence number leaves behind the replicas that do not get the row.
advanceReplicas(d) ==
    replicas' = [v \in Source.voters |->
                   {[r EXCEPT !.current = r.available /\ d.row # {}] : r \in replicas[v]}]

successor(sequence) == (sequence + 1) % (MaxSequence + 1)

record(d) ==
    /\ sourceSequence' = d.sequence
    /\ operations' = operations \cup {d}

\* A command whose operation has a record changes nothing.
Replay(cmd) ==
    /\ \E d \in operations : d.cmd.op = cmd.op
    /\ UNCHANGED <<source, replicas, operation>>

\* Mutant: one delta too many.
hasRoomForOneMore ==
    /\ operation # {} => Cardinality(deltas) <= maxSplitDeltas
    /\ sourceSequence < MaxSequence

hasRoom ==
    /\ operation # {} => Cardinality(deltas) < maxSplitDeltas
    /\ sourceSequence < MaxSequence

Backpressure(cmd) ==
    /\ ~ cutover
    /\ \A d \in operations : d.cmd.op # cmd.op
    /\ ~ hasRoom
    /\ UNCHANGED <<source, replicas, operation>>

WriteSource(cmd) ==
    /\ ~ cutover
    /\ \A d \in operations : d.cmd.op # cmd.op
    /\ hasRoom
    /\ LET d == evaluateTransferCommand(sourceRows, cmd, sourceSequence + 1)
       IN  /\ record(d)
           /\ sourceRows' = putAll(sourceRows, d.row)
           /\ deltas' = IF operation # {} THEN deltas \cup {d} ELSE deltas
           /\ advanceReplicas(d)
    /\ UNCHANGED operation

\* After the cutover the child that has the key is written.  There is no
\* delta, and no check that a sequence number is left.
WriteChild(cmd) ==
    /\ cutover
    /\ \A d \in operations : d.cmd.op # cmd.op
    /\ \E o \in operation :
       LET target == IF Contains(o.left, cmd.key) THEN o.leftRows ELSE o.rightRows
           d == evaluateTransferCommand(target, cmd, successor(sourceSequence))
       IN  /\ record(d)
           /\ operation' =
                 {IF Contains(o.left, cmd.key)
                  THEN [o EXCEPT !.leftRows = putAll(@, d.row)]
                  ELSE [o EXCEPT !.rightRows = putAll(@, d.row)]}
    /\ UNCHANGED <<sourceRows, deltas, replicas>>

\* Mutant: the client keeps its route.
RefreshNothing(c) ==
    /\ RouteAt(catalog, Command[c].key, route[c]) = {}
    /\ UNCHANGED <<pc, route, answer>>

\* RouteAt refused: the error carries the newest route of the key.
Refresh(c) ==
    /\ RouteAt(catalog, Command[c].key, route[c]) = {}
    /\ \E d \in catalog.descriptors :
          Contains(d, Command[c].key) /\ route' = [route EXCEPT ![c] = d]
    /\ UNCHANGED <<pc, answer>>

Check(c) ==
    /\ pc' = [pc EXCEPT ![c] = "checked"]
    /\ UNCHANGED <<route, answer>>

WriteAtOwner(c) ==
    /\ pc[c] = "idle"
    /\ \/ RouteAt(catalog, Command[c].key, route[c]) # {} /\ Check(c)
       \/ Refresh(c)
    /\ UNCHANGED <<catalog, source, members, operation, cutover>>

\* The caller knows the leader, the term and the owner epoch.
WriteAtLeader(c) ==
    /\ pc[c] = "idle"
    /\ ~ cutover
    /\ Check(c)
    /\ UNCHANGED <<catalog, source, members, operation, cutover>>

\* The answer reaches the client or is lost, and the client tries again.
Answered(c) ==
    /\ pc' = [pc EXCEPT ![c] = "done"]
    /\ answer' = [answer EXCEPT ![c] = {d \in operations' : d.cmd.op = Command[c].op}]
    /\ UNCHANGED route

Unanswered(c) ==
    /\ pc' = [pc EXCEPT ![c] = "idle"]
    /\ UNCHANGED <<answer, route>>

Write(c) ==
    /\ pc[c] = "checked"
    /\ \/ /\ Replay(Command[c]) \/ WriteSource(Command[c]) \/ WriteChild(Command[c])
          /\ Answered(c) \/ Unanswered(c)
       \/ Backpressure(Command[c]) /\ Unanswered(c)
    /\ UNCHANGED <<catalog, leader, events, cutover>>

(***************************************************************************)
(* DeliverDelta and CatchUp.                                               *)
(***************************************************************************)
validateSplitDelta(o, d) ==
    /\ Contains(Source, d.cmd.key)
    /\ Contains(o.left, d.cmd.key) \/ Contains(o.right, d.cmd.key)
    /\ \A r \in d.row : r.sequence = d.sequence /\ r.key = d.cmd.key /\ r.version = d.cmd.version

\* What arrives: any retained delta, again and again and in any order, or, after
\* it, a copy of it that was altered on the way and lost its row.
arriving ==
    deltas \cup {[d EXCEPT !.row = {}] : d \in UNION {deltas \cap o.deltas : o \in operation}}

\* Mutant: the digest of a duplicate is not compared, the last copy stays.
DeliverDeltaOverwriting(d) ==
    /\ \E o \in operation :
          /\ o.barrier < d.sequence /\ d.sequence <= sourceSequence
          /\ validateSplitDelta(o, d)
          /\ Cardinality(o.deltas) < maxSplitDeltas
          /\ operation' = {[o EXCEPT !.deltas = {x \in @ : x.sequence # d.sequence} \cup {d}]}
    /\ UNCHANGED <<catalog, source, members, cutover, clients>>

\* A duplicate changes nothing: with another digest it is refused, with the same
\* it was delivered before.
DeliverDelta(d) ==
    /\ \E o \in operation :
          /\ o.barrier < d.sequence /\ d.sequence <= sourceSequence
          /\ validateSplitDelta(o, d)
          /\ \A x \in o.deltas : x.sequence # d.sequence
          /\ Cardinality(o.deltas) < maxSplitDeltas
          /\ operation' = {[o EXCEPT !.deltas = @ \cup {d}]}
    /\ UNCHANGED <<catalog, source, members, cutover, clients>>

\* The delivered deltas, sorted, continue what is applied without a gap.
contiguous(o) ==
    {d.sequence : d \in o.deltas} = o.leftApplied + 1 .. o.leftApplied + Cardinality(o.deltas)

\* The rows that deltas leave: of each key, the one written last.
lastRows(ds) ==
    LET written == UNION {d.row : d \in ds}
    IN  {r \in written : \A x \in written : x.key = r.key => x.sequence <= r.sequence}

\* Both images and both positions are swapped at the end, also when the call
\* then reports ErrSplitBarrier.  With a gap, or with deltas that an earlier
\* call applied (they stay), it reports ErrSplitDeltaOrder.
CatchUp ==
    /\ \E o \in operation :
          /\ contiguous(o)
          /\ \A d \in o.deltas : validateSplitDelta(o, d)
          /\ LET last == o.leftApplied + Cardinality(o.deltas)
             IN  operation' = {[o EXCEPT !.leftRows = putAll(@, within(lastRows(o.deltas), o.left)),
                                         !.rightRows = putAll(@, within(lastRows(o.deltas), o.right)),
                                         !.leftApplied = last, !.rightApplied = last]}
    /\ UNCHANGED <<catalog, source, members, cutover, clients>>

(***************************************************************************)
(* Cutover.                                                                *)
(***************************************************************************)
\* ValidateShape and ValidateWithoutConfState.
targetProof(o) ==
    /\ o.barrier # 0 /\ sourceSequence >= o.barrier
    /\ o.left.phase = "catching_up" /\ o.right.phase = "catching_up"
    /\ o.left.voters = Source.voters /\ o.right.voters = Source.voters
    /\ o.left.start = Source.start /\ o.left.end = o.right.start /\ o.right.end = Source.end

serving(d) == [d EXCEPT !.phase = "serving"]

\* Mutant: the children are published before they have caught up.
CutoverEarly ==
    /\ ~ cutover
    /\ \E o \in operation :
          /\ targetProof(o)
          /\ canReplace(catalog, catalog.version + 1, {serving(o.left), serving(o.right)})
          /\ catalog' \in Replace(catalog, catalog.version + 1, {serving(o.left), serving(o.right)})
          /\ operation' = {[o EXCEPT !.left = serving(@), !.right = serving(@)]}
    /\ cutover' = TRUE
    /\ UNCHANGED <<source, members, clients>>

Cutover ==
    /\ ~ cutover
    /\ \E o \in operation :
          /\ o.leftApplied = sourceSequence /\ o.rightApplied = sourceSequence
          /\ targetProof(o)
          /\ canReplace(catalog, catalog.version + 1, {serving(o.left), serving(o.right)})
          /\ catalog' \in Replace(catalog, catalog.version + 1, {serving(o.left), serving(o.right)})
          /\ operation' = {[o EXCEPT !.left = serving(@), !.right = serving(@)]}
    /\ cutover' = TRUE
    /\ UNCHANGED <<source, members, clients>>

Next ==
    \/ \E v \in Source.voters : RegisterSecondary(v) \/ SetLeader(v) \/ SetSecondaryAvailable(v)
    \/ \E boundary \in Key, b \in BOOLEAN : BeginSplit(boundary, b)
    \/ \E c \in Clients : WriteAtOwner(c) \/ WriteAtLeader(c) \/ Write(c)
    \/ \E d \in arriving : DeliverDelta(d)
    \/ CatchUp \/ Cutover

Spec == Init /\ [][Next]_vars

\* Clients retry: the check is made again, a checked command is written, and
\* of infinitely many answers one is not lost.
Fairness ==
    \A c \in Clients : WF_vars(WriteAtOwner(c)) /\ SF_vars(Write(c) /\ Answered(c))

FairSpec == Spec /\ Fairness

(***************************************************************************)
(* Properties.                                                             *)
(***************************************************************************)
\* The rows Read returns.
servedRows == IF cutover THEN UNION {o.leftRows \cup o.rightRows : o \in operation}
              ELSE sourceRows

OneRange == INSTANCE ConditionalMap WITH
               InitialSequence <- initialSequence, contents <- servedRows,
               sequence <- sourceSequence, results <- operations

\* Clients cannot tell that the range is split: what Read and Write show is
\* at every moment one map of conditional writes, each of which takes effect
\* once, whichever deltas are late, lost or repeated, whoever leads, and on
\* whichever side of Cutover a checked command is written.
SplitIsInvisible == OneRange!Spec

\* The rows the commands up to a sequence number left.
rowsAt(sequence) ==
    putAll(InitialRows, lastRows({d \in operations : d.sequence <= sequence}))

\* Until the cutover the images of the children are together the rows of the
\* source at one of its past sequence numbers, the one both claim to have
\* applied (CatchUp swaps both images or none; "missing or conflicting
\* sequences fail closed", ADR 0006).
ChildrenAreAPastSource ==
    \A o \in operation : ~ cutover =>
        /\ o.leftApplied = o.rightApplied
        /\ o.leftRows = within(rowsAt(o.leftApplied), o.left)
        /\ o.rightRows = within(rowsAt(o.leftApplied), o.right)

\* A client that retries its frozen command, with the newest route whenever
\* it is told RangeMoved, gets an answer before, during or after the cutover,
\* unless the source stays without room for deltas and is never cut over.
RetriesAreAnswered ==
    \A c \in Clients : <>(pc[c] = "done") \/ <>[](~ (cutover \/ hasRoom))
=============================================================================
