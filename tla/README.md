# VBDB: TLA+ models, model checking and proofs

This directory holds TLA+ models of VBDB (the Go code in `src/`), the TLC
configurations that check them on small instances, and TLAPS proofs of their
most important invariants. `PROJECT.json` maps every definition to the source
lines it stands for.

## The system

VBDB is a key/row database built in four milestones.

| Part | Source | Module | State |
|---|---|---|---|
| Storage engine: WAL, memtable, tables in two levels, manifest and `CURRENT`, pinned views | `internal/engine` | `Engine`, `DurableMap`, `EngineRefinement` | modelled |
| Replicated logical state: commands, deduplication, version reservation, history, snapshots | `internal/raftstore/state.go`, `command.go` | `LogicalState` | modelled, proved |
| Replica durability: ready loop, stored raft log, snapshot creation, receipt and installation, restart | `replica.go`, `disk.go`, `state.go` | `ShardReplica` | modelled, proved |
| Replica over engine: the directory check of `openDisk` | `disk.go` | `ReplicaStore` | modelled |
| Proposal admission: pending proposals, waiters, submission, role changes, stop | `replica.go` | `Proposals` | modelled, proved |
| Linearizable reads: ReadIndex contexts, applied-index fence, route check | `read.go`, `replica.go` | `ReadFence` | modelled, proved |
| Range catalog: descriptors, replacement, routing, image, durable installation | `range.go`, `catalog.go`, `replica.go`, `disk.go` | `RangeCatalog`, `CatalogReplica` | modelled, proved |
| Splitting a range while it serves; retrying clients | `split_transfer.go`, `split_cutover.go`, `split_types.go`, `retry.go` | `Split`, `ConditionalMap` | encodings and byte budgets abstracted; proved |
| Raft log as stored, elections over it | `disk.go` | `RaftLog` | raft itself is external |
| Single-node row store | `internal/storage` | `RowStore` | modelled, proved with `Gateway` |
| Gateway process: listener, handlers, shutdown | `cmd/vbdbd`, `internal/httpapi` | `Gateway` | parsing and status codes abstracted; proved |

How they interact: the gateway calls the row store, which writes batches to an
engine. A replica owns an engine of its own; raft (the etcd library, external)
hands it `Ready` values, which `readyLoop` persists, applies and acknowledges.
`Propose` puts commands into raft and waits for the loop to apply them;
`ReadIndex` asks raft for a read index and waits until the loop has applied it.
The catalog decides which range a read belongs to; the split harness replaces one
range of a catalog by two.

## The modules

**LogicalState** is the state machine as pure operators: `applyCommand`
(deduplication by operation, the reserved candidate versions, conditions),
`exportSnapshot`, and `validImage`/`decode`, the checks of `load` and
`decodeSnapshot`. Maps of the code that are keyed by a field of their value are
sets of records; an optional value is a set of at most one element. An operation
id, a version, a value and a node id are opaque.

**ShardReplica** puts replicas around it. Raft is an agreed log; a replica may
learn of entries late, and may be handed any snapshot that was ever published,
also while it creates one of its own. `CreateSnapshot` is two steps: it reads the
applied state and the commit index, and publishes later.
A section that holds the disk lock over several engine batches is one action
plus a crash variant that leaves any prefix of its batches. `Open` re-installs a
persisted snapshot that the logical state has not caught up with. Left out:
the configuration index and the branch that keeps a newer durable configuration
(`state.go` 834-843), and snapshot terms, neither of which an accepted snapshot
reaches; identity and bootstrap records.

**Engine** is one directory and the process that has it open. Each file change is a
step: append, roll, table, WAL rotation, manifest, `CURRENT`, trimming, compaction
outputs, removal of obsolete tables. `interrupted` gives what a step that is cut short
may leave: a torn append leaves a prefix of the frame, a removed file stays removed. A
manifest is two lists of table numbers, L0 oldest first and L1 in key order; replaying
the WAL gives each key what the last batch beyond the checkpoint that writes it says.
`Fail` is an I/O error, which poisons the engine; `Crash` loses memory. The process
lock, temporary files (removed by `Open`) and checksums are left out; views of a
closed engine are dropped. Every file change can be cut short, the creation of the
very first segment included; `stillborn` describes the directory which that leaves
(see Findings).

**DurableMap** is what the engine promises: atomic batches in order, views that
never change, and a stop that loses nothing acknowledged. The batch in progress
may or may not be there after a stop. `EngineRefinement` has the mapping: the
contents are what recovery would find in the files.

**ReplicaStore** adds the directory check of `openDisk` to Engine.

**Proposals** splits `Propose`, `submitProposal`, `awaitProposal` and the loop into
their critical sections. Raft appends a submitted command to its log, refuses it, or
keeps it waiting while there is no leader; a role change may cut the uncommitted log
at any moment. `TakeSoftState` is raft handing over the role it has then, `Observe`
the loop's reaction. A candidate or a leader is made only after the messages of its
last role were sent, because votes are asked for through `Ready`. With `PreVote: true`
(`replica.go:237`) and no leadership transfer a lead that is won and lost within one
`Ready` leaves a SoftState other than the one before, so the loop sees it. The
branches for corrupt accounting and for the submit errors that
`DisableProposalForwarding` and the leader check exclude are left out.

**ReadFence** does the same for `ReadIndex`. Every log entry after the first writes
the key, so a row is the number of writes it contains. Raft answers a request at most
once with a commit index that was current after the request, or loses it. `admitRead`
makes its checks in the code's order: the count, the sequence number (which is used up
even when the bytes then refuse) and the bytes. A replica starts with any sequence
number, standing for the reads it has served. Callers give up at every point at which
the code looks at their context. Committed entries and ReadStates are handled in any
order, which covers every way raft batches them.

**RangeCatalog** has descriptors and catalogs as values, with one operator per
method. Keys are `1 .. LastKey`. `Replace` returns the set of catalogs it may
leave behind, because a refusal leaves traces: the walk over the history retires
ranges on the way, in map order, before it meets the one that is refused. An image
that decodes stands for its catalog; `decodes` is what `UnmarshalRangeCatalog`
asks of it.

**CatalogReplica** is `InstallRangeCatalog` in four steps (encode, check under the
lock, sync, publish), with a second caller, configuration changes, failing
batches, deaths, and the part of `Open` that loads the image. Callers offer
every catalog they can make with `NewRangeCatalog` or obtain from `RangeCatalog()`,
changed by one `Replace` or not, accepted or refused.

**Split** is `SplitHarness`. Its methods are atomic except `WriteAtOwner` and
`WriteAtLeader`, which check under the lock and write after it was free. A delta may
be lost, repeated, reordered, and repeated with other contents once the original was
delivered. Clients retry a frozen command until they have an answer. Rows of
secondaries are left out, since nothing reads them. `StaleOwnerWrite`, which changes
nothing, is left out.

**ConditionalMap** is what a range promises whoever serves it: conditional
commands that take effect once, one after the other.

**RowStore** is the row store over an engine that is a durable map (what `DurableMap`
promises). `validatePersistedRecords` is modelled in full, since it decides whether
the store opens again. **Gateway** extends it with the process: the accept loop and
its slots, connections that the server and the shutdown both close (`releaseOnce`
gives a slot back for the first of them), one request at a time on each connection,
the tracked handler, both ways into shutdown, the hard deadline and deaths. `net/http`
is external. A request is chosen where the handler calls the store.

**RaftLog** has a log per replica, as `persistReady`, `Term`, `LastIndex` and
`Entries` keep it for raft. Elections, replication and commitment are raft's,
reduced to what raft concludes from that storage after a `Ready` is stable. Message
loss and delay are covered: a message is an action that may happen late or never.

## Runs

| Run | Question | Bounds |
|---|---|---|
| `shard_apply` | Do apply, replay and retries follow the log order exactly? | 1 replica, logs of 3 out of conflicting commands, 1 death |
| `shard_snapshot` | Do disk and memory survive snapshot creation, receipt and installation cut at any batch? | 2 replicas that both create and receive, logs of 2, snapshots in 2 chunks, 2 deaths |
| `engine` | Does the engine implement DurableMap, does every directory open again, and does it serve again until it is full? | 3 keys, 3 batches, 1 view, 3 tables, a compaction at every flush, 2 deaths or errors |
| `proposals_safety` | Is accounting exact, does every answer belong to its caller, is nobody dropped? | 3 calls, 4 commands of 3 operations one of which is misused, room for 2 pending, 1 role change |
| `proposals_live` | Does every call return? | 2 calls, 2 role changes, close and fatal error |
| `read_fence` | Are reads linearizable, do late answers do no harm, does a stop release readers? | 2 calls, bytes for one of them, 2 sequence numbers, 1 retired context, 2 entries, 2 catalogs, close and fatal error |
| `catalog` | Does a replica ever forget a fence it routed by, give one epoch to two owners, or revive a retired range? | 2 callers, 6 descriptors over 3 range IDs, versions up to 3, 1 configuration change, 1 death |
| `split` | Can clients tell that a range is split, and does every retry get an answer? | 3 clients, 2 keys, 2 retained deltas, 2 changes of leader or secondaries |
| `gateway` | Does the store outlive its handlers and open again, are slots kept, is no update lost, does shutdown end? | 2 connections and slots, 1 request slot, 1 key, 3 versions, 2 starts |
| `snapshot_race`, `store_reopen`, `raft_log` | Findings, below | 2 replicas and logs of 2 in `snapshot_race`, 3 replicas, 5 terms, 4 entries in `raft_log` |

The bounds are small and deliberately below the code's limits, so that the
limits are met: tables of one entry, a memtable of two, two pending proposals, one
retired context. In `read_fence` the bytes refuse a second reader and the count never
does; that the count is kept is part of the proved `TypeOK`.
Compaction starts at one or two level-0 tables here and at four in the code;
whatever the number, it merges all of them with level 1.
Three log entries are enough for two conflicting commands and a retry of either;
two deaths allow a death during recovery from a death.

Deadlock is not checked: every instance ends when its bounded supply of
commands, calls and deaths is used up. That nothing gets stuck before is what
the liveness properties say.

**Fairness.** Goroutines that can run do run: the ready loop, callers,
submissions, `Close` once called. In ShardReplica raft hands out what is
committed and a dead process is restarted. In Engine the owner closes a
poisoned engine and opens it again. In Proposals raft under a stable leader
commits. Nothing is assumed of callers' contexts, and in ReadFence nothing of raft.
In Split clients try again, and an answer that is sent again and again arrives
once (strong fairness of an answered write); deltas, CatchUp and Cutover need not
happen. In Gateway handlers, the accept loop and the main goroutine proceed, but
closing the store may hang: the hard-exit timer is relied on only there.

## Findings

Each is a run in which TLC finds the code to disagree with what the repository
says of it.

| Run | What happens |
|---|---|
| `snapshot_race` | `persistLocalSnapshot` (`disk.go:737`) publishes the snapshot of `CreateSnapshot` over a newer one that was received meanwhile: committed entries are in neither log nor published snapshot |
| `store_reopen` | `rejectPebbleDirectory` refuses the `CURRENT` and `MANIFEST-*` files that the owned engine writes: the second restart fails |
| `raft_log` | `persistReady` (`disk.go:677`) stores entries by index and keeps stale ones behind them; a replica overwritten by a shorter log compares candidates with its stale last entry and helps to elect a leader that lacks an answered write |

In `snapshot_race` replica 1 has applied index 1 and its `CreateSnapshot` has read
this state and the commit index 1. The ready loop then persists a snapshot of index 2
received from replica 2, and `CreateSnapshot` publishes index 1 over it. Raft finds
no entry 2. `CommittedIsStored` says what is left: the chunks of the newer snapshot,
or its installed state, are still in the engine. `Reopenable` and `EventuallyApplied`
hold for every replica to which this has not happened (`overwritten`).

In `raft_log` replica 1 leads alone and writes up to index 4; replica 2, elected in
a later term, sends it two entries that replace indexes 2 and 3, and commits index
3 with it. Index 4 of replica 1 is still the old entry of a lower term. Replica 3,
which has only index 2 of the new term, campaigns: its last term is higher than
the one replica 1 reports, so it is elected without index 3.

Further observations, which the models show and no run is kept for. The first
four are properties of the modules that do not hold, or hold with an exception:

- After a refused compaction one more durable batch makes the directory impossible
  to open (`lsm.go:47`): the disjunct `full` of `ReopenableUntilFull`.
- A death while the very first WAL segment is created leaves a short file.
  `segmentFirstLSN` (`wal.go:253`) calls it corrupt before `recoverSegment` can
  take it for an empty tail ("No segments, or a lone empty tail, starts at segment
  one", `wal.go:303`), so the fresh directory never opens: the disjunct `stillborn` of
  `ReopenableUntilFull`. Nothing was ever acknowledged in such a directory.
- The error of an abandoned submission is delivered to a newer registration of the
  same command whose entry raft has admitted (`replica.go:1092`):
  `BackpressureMeansNotAdmitted` of Proposals, in `proposals_safety.cfg` with `OneCommand`.
- An entry applied between the check of the applied index and the subscription
  (`replica.go:649`) wakes nobody: `AppliedFenceWakes` in `read_fence.cfg`.
- The goroutine of a cancelled owner submits what a retry of the same command
  registered (`replica.go:1066`), and so does the retry's own: two log entries
  under one leader. Deduplication in `apply` absorbs the second.
- A missing row is reported without looking at the route again
  (`read.go:175`), although the catalog may have moved.
- `Close` empties the pending reads without retiring their contexts
  (`read.go:272`); a ReadState in a `Ready` handled afterwards is unknown, and the
  replica reports corruption instead of a clean stop.
- A response duplicated by the transport is an unknown context too and stops the
  replica, as ADR 0006 says unknown contexts do. ReadFence has at most one answer
  per request.
- `validateCatalogReplacement` (`catalog.go:25`) asks a range that is gone to be in
  the new history exactly as it was, not yet retired. A catalog made by `Replace` from
  the installed one has retired it and is refused; one made afresh is accepted.
- A refused `Replace` may have retired ranges in the history (`range.go:281`) of a
  catalog that is "atomically replaced" (`range.go:183`). `TombstonesStay` and
  `AdmittedDecodes` show that no such catalog does harm once installed.
- A configuration change after the check of the voters, or after installation,
  leaves an image that the next `Open` refuses: the replica stays down.
- Deltas that a `CatchUp` has applied are never removed, so that the next `CatchUp`
  reports `ErrSplitDeltaOrder`. A split with a write between CatchUp and Cutover
  therefore never completes. The source goes on serving until its deltas are full,
  the case `RetriesAreAnswered` excepts: a retry is answered
  unless there is for ever neither a cutover nor room for a delta.
- A write whose route was checked before the cutover is written after it, by a
  caller with a stale route. It lands in the right child, which is why
  `SplitIsInvisible` holds.
- After the cutover the sequence number is not checked for exhaustion
  (`split_transfer.go:205`).
- `Write` of the harness compares operation identities and not commands
  (`split_transfer.go:192`): another command with the same identity gets the stored
  result.

## Proofs

Eight modules hold proofs that TLAPS checks. `ShardReplicaProofs` (the state machine
of `LogicalState`, a replica's disk and memory, answers and outcomes, the stored
log), `ProposalsProofs`, `ReadFenceProofs`, `CatalogProofs`, `SplitProofs` and
`GatewayProofs` each extend the module they are about. `EngineStepProofs` has the
inductive invariant of Engine and the steps up to the publication of a manifest;
`EngineProofs` extends it with the other steps, the refinement and the theorems. The results hold for every value of the constants: any
sets of operations, keys, versions, nodes, replicas, callers and clients, any limits,
any number of entries, deaths and role changes. The bounds of the runs (`MaxLog`,
`MaxCrashes`, `MaxEvents`, ...) are constants too, so a theorem covers them at any
size.

| Property | Theorem | Module |
|---|---|---|
| `apply` keeps the state well formed | *ApplyWellFormed* | ShardReplicaProofs |
| `TypeOK`, `EveryPrefixLoads`, `MemoryIsLogPrefix`, `DurableIsLogPrefix`, `DurableNeverRegresses` | *TypeCorrect*, *PrefixesLoad*, *MemoryCorrect*, *DurableCorrect*, *DurableMonotone*, all from *Inductive* | ShardReplicaProofs |
| `RepliesAgree`, `OutcomesFollowLog`, `CommittedIsStored`, `Reopenable` | *ShardRepliesAgree*, *ShardOutcomesFollowLog*, *ShardCommittedIsStored*, *ShardReopens* | ShardReplicaProofs |
| `TypeOK`, `VisibleIsDurable`, `ReopenableUntilFull`, `ImplementsDurableMap` | *EngineTypeCorrect*, *EngineVisibleIsDurable*, *EngineReopenable*, *EngineRefines*, all from *EngineInvariant* | EngineProofs |
| `AnsweredOnce`, `AccountingExact`, `AppliedIsBound`, `NobodyForgotten` | *ProposalsAnsweredOnce*, *ProposalsAccounting*, *ProposalsAppliedIsBound*, *ProposalsNobodyForgotten* | ProposalsProofs |
| `TypeOK`, `ReadBytesExact`, `ReadsAreLinearizable`, `NoUnknownContext` | *ReadFenceTypeCorrect*, *ReadFenceBytesExact*, *ReadFenceLinearizable*, *ReadFenceNoUnknownContext* | ReadFenceProofs |
| `TypeOK`, `SeenIsDurable`, `EpochIdentifiesOwner`, `AdmittedDecodes`, `TombstonesStay` | *CatalogTypeCorrect*, *CatalogSeenIsDurable*, *CatalogEpochIdentifiesOwner*, *CatalogAdmittedDecodes*, *CatalogTombstonesStay* | CatalogProofs |
| `TypeOK`, `ChildrenAreAPastSource`, `SplitIsInvisible` | *SplitTypeCorrect*, *SplitChildrenArePast*, *SplitRefines* | SplitProofs |
| `SlotsAreHeld`, `StoreOutlivesHandlers`, `Reopens`, `NoLostUpdate`, `HistoryIsImmutable` | *GatewaySlotsAreHeld*, *GatewayStoreOutlivesHandlers*, *GatewayReopens*, *GatewayNoLostUpdate*, *GatewayHistoryIsImmutable* | GatewayProofs |

**Assumptions.** The named ASSUMEs of the modules, which TLC evaluates in the runs.
Most say that constants have their types; `EngineAssumption` also that a batch is not
empty and that `MaxSSTFiles` exceeds the compaction trigger. Others:
`RowStoreAssumption` keeps the two special values of a condition apart from versions;
`CatalogReplicaAssumption` says that descriptors are descriptors of known ranges;
`SplitAssumption` and `RowAssumption` say that the source serves, that the children
have two new range ids, and that rows and commands are about keys of the table. One
theorem has hypotheses of its own: *SplitRefines* assumes finitely many clients and
enough sequence numbers for one write of each: after the cutover the code does not
check for exhaustion.

**The state machine.** A state is well formed when its exported image passes every
check that `load` and `decodeSnapshot` make. *ApplyWellFormed* goes case by case: an
operation already bound changes nothing; a command that fails adds a result without
a row (`AddRowlessResult`); one that succeeds adds a row with a version nobody
reserved, at an index above all others (`AddSuccess`).

**The replica.** `MemoryIsLogPrefix` alone is not inductive: a restart rebuilds memory
from disk, so the disk must be described, and after a death inside an installation
it holds records of a generation that is not yet published. The strengthening
(`IInv` of ShardReplicaProofs) says: the published generation is the image of a log
prefix; records above it belong to the snapshot at the commit index, which `Open`
installs again; chunks and messages in flight are states of the log. It holds even
under the race of `CreateSnapshot`, because a disk with that gap does not load.

**Answers and outcomes.** `repliesOK` says that every answer given is the one the
final state gives; results are only added and one operation has one result, so a
longer log does not change it. `outcomesIn` compares results, history and reserved
versions with what the log says of its own prefix. `kept` is a second invariant,
about the stored raft log: chunks of a snapshot are stored without gaps from the
first, the named snapshot has its last one, and either the entries from it to the
commit index are all there, or (`overwritten`) the race has happened: the log ends
below the commit index and a snapshot of that index is stored whole. Every step keeps
one of the two, and both give `CommittedIsStored`; the first also gives all that
*ShardReopens* needs of the log.

**The engine.** `VisibleIsDurable` speaks of an idle engine; between two idle states
there are many file changes, any of which may be the last. `IInv` of EngineStepProofs
says for each point what the files are good for:

- `walOK`: segments follow each other without gap or overlap, only the last may be
  torn, and every batch beyond the checkpoint is in one of them. This is what makes
  the replay well defined, and what trimming, rotation and repair keep.
- `openedOK`: while the WAL is open the memtable is the replay of the WAL, so it never
  holds more or less than recovery would rebuild.
- `publishedOK` and `filesOK`: the manifest in memory is the one `CURRENT` names, its
  tables exist, L1 ranges do not overlap, and table numbers in use are below
  `nextSST`. With it no write of a table overwrites one that is served.
- `planOK`: a manifest about to be published serves what the current one serves with
  the memtable on top, so a death on either side of the change of `CURRENT` recovers
  the same map. For a flush this holds because the new table is the newest in L0, for
  a compaction because of `outputsOK`: the outputs so far hold the lowest live
  records, in key order, and the rest is still unwritten.
- `viewsOK`: the tables of a view are there. Removal looks at pins, and no table is
  both obsolete and in use.

The recovered memtable is defined by the last writer of each key and not by a fold
over frames, so that no induction is needed: appending a frame adds one writer,
and a checkpoint leaves none. That the greatest of a bounded set of numbers exists
comes from the well-ordering of the naturals (`WellFoundedInduction`); the lemmas
assume it as `wellOrdered` and EngineProofs discharges it. *EngineRefines* maps `contents`
to what recovery would find: an `Apply` changes it when its frame is complete in the
WAL, which may be in the step of the death that cut it short; every other step leaves
it, and what views read, as it was.

**Proposals.** `IInv` ties the pending map to the calls from both sides: every waiter
is a call that waits for this registration, and every unanswered call is a waiter.
That `bytes` is the sum over `pending` needs what a sum over a finite set does when
one member comes or goes (`ReadBytesExact` needs the same for `readBytes`). The sum is
defined by recursion, and induction is out of reach, so the lemma takes the smallest
subset that would be a counterexample (`WFMin` over the strict subset ordering) and
shows there is none.

**Reads.** The commit index a call started at bounds from below its request, its
ReadState, its fence and at last the applied index it reads at. For
`NoUnknownContext`, a request that raft may still answer is pending or retired as
long as no more were abandoned than contexts are retained.

**Catalogs.** `follows(c, e)`: e knows every fence of c, and what is retired or gone in
c is so in e. `validateCatalogReplacement` admits only catalogs that follow; the
invariant says that the durable catalog is the installed one or one admitted over
it, so that everything the replica ever routed by is covered by it.

**Split.** The invariant reads the rows off the operation records: until the cutover
the source has the rows of all of them, and the children those of the records up to
the sequence both have applied, each within its own span. A CatchUp that meets a
gap changes nothing and one that succeeds has met every sequence in between, so
this is kept whatever was lost or repeated. After the cutover no stored delta is
above what the children applied. *SplitRefines* maps `rows` to what `Read` serves and
shows that each step is a step of `ConditionalMap` or changes none of its variables;
`countOK` (one sequence number per record, one record per client) rules out
exhausted sequence numbers.

**Gateway.** The history decides all other records of the row store: heads are its
latest rows, the index names each row once, sequences have no gap. `Put` keeps this
in every case, including one whose batch fails after it became durable, and such
records pass `validatePersistedRecords`. The process part counts slots against
connections and handlers.

**Only model-checked.** Liveness and fairness are outside the prover:
`EventuallyApplied`, `ServesAgain`, `EveryCallReturns`, `StopReleasesReaders`,
`RetriesAreAnswered` and `ShutdownEnds`. `CommittedLogAvailable`, `ReplicaReopens` and
`AnsweredWritesSurvive` do not hold, see Findings.

## Not modelled

- Byte formats: codec, JSON canonicalisation, UUIDv7, snapshot chunks and
  checksums of a split. They are pure functions on bytes; the models have what is
  rejected as a condition on the decoded value.
- Byte budgets of a split (`split_budget.go`): sums of sizes within one call.
- The recovery manifest (`split_recovery.go`): a comparison that no other code calls.
- The clock (`pkg/clock`): no other package uses it yet.
- `SubmitConfChange` and `WaitConfState`: committed changes are in the models, their
  submission is not.
- The transport, failpoints, development commands and scripts: I/O and test tools.
