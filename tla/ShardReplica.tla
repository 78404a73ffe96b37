---------------------------- MODULE ShardReplica ----------------------------
(***************************************************************************)
(* The replicas of one shard: diskStore, readyLoop, CreateSnapshot and     *)
(* Open of internal/raftstore, over the state machine of LogicalState.     *)
(*                                                                         *)
(* raft itself is external.  It is the agreed log of committed entries and *)
(* the Ready values it hands to readyLoop: entries with a commit index, or *)
(* a snapshot another replica published.  Messages are lost, duplicated    *)
(* and delayed: a replica may see any published snapshot at any time, and  *)
(* learn of entries as late as it likes.                                   *)
(*                                                                         *)
(* A section of the code that holds the disk lock over several engine      *)
(* batches is one action; a process that dies, or an engine batch that     *)
(* fails (which is fatal to the replica), leaves a prefix of its batches.  *)
(***************************************************************************)
EXTENDS LogicalState, Sequences

CONSTANTS
    Replicas,
    Entries,        \* the entries raft may commit
    Parts,          \* number of chunk records of an encoded snapshot
    MaxLog,         \* bound on committed entries
    MaxGeneration,  \* bound on published snapshot generations of a replica
    MaxCrashes      \* bound on process deaths

ASSUME ShardAssumption ==
    /\ Entries \subseteq Entry
    /\ Parts \in Nat \ {0}
    /\ MaxLog \in Nat /\ MaxGeneration \in Nat /\ MaxCrashes \in Nat

VARIABLES
    log,       \* committed entries, agreed by raft
    ref,       \* auxiliary: ref[i + 1] is the state after the first i entries
    mem,       \* [Replicas -> State]: Replica.state and the tracker's configuration
    disk,      \* [Replicas -> Disk]: what the engine holds
    pc,        \* where readyLoop is
    upto,      \* last entry of Ready.CommittedEntries
    incoming,  \* Ready.Snapshot between persistReady and installSnapshot
    creating,  \* the snapshot CreateSnapshot exported and has not yet persisted
    sent,      \* snapshots a replica published: MsgSnap messages in flight
    replies,   \* what the waiters of commands have been told
    crashes

vars == <<log, ref, mem, disk, pc, upto, incoming, creating, sent, replies, crashes>>

(***************************************************************************)
(* Data.                                                                   *)
(***************************************************************************)
Index == 0 .. MaxLog
Generation == 0 .. MaxGeneration

Snapshot == [index: Index, image: Image, conf: ConfState]

Chunk == [part: 1 .. Parts, snap: Snapshot]

StoredImage == [rows: SUBSET Row, history: SUBSET Row, results: SUBSET Result,
                dedupe: SUBSET Ops]

Disk == [images: [Generation -> StoredImage], generation: Generation,
         applied: Nat, meta: Nat, conf: ConfState, commit: Nat,
         entries: SUBSET Nat, snapIndex: Nat, chunks: SUBSET Chunk]

emptyImage == [rows |-> {}, history |-> {}, results |-> {}, dedupe |-> {}]

emptyDisk ==
    [images |-> [g \in Generation |-> emptyImage], generation |-> 0,
     applied |-> 0, meta |-> 0, conf |-> newLogicalState.conf, commit |-> 0,
     entries |-> {}, snapIndex |-> 0, chunks |-> {}]

opsOf(results) == {x.cmd.op : x \in results}

\* Batch.Put of records whose engine keys are table/key, and chunk number.
putRows(old, new) ==
    {r \in old : \A n \in new : n.key # r.key} \cup new

putChunks(old, new) ==
    {k \in old : \A n \in new : n.part # k.part \/ n.snap.index # k.snap.index}
    \cup new

putResults(old, new) ==
    {x \in old : \A n \in new : n.cmd.op # x.cmd.op} \cup new

\* The indexes the stored log knows of; lastIndexLocked is their maximum.
indexes(d) == d.entries \cup {d.snapIndex}

\* The snapshots all of whose chunks are stored.
wholeSnapshots(d) ==
    {s \in {k.snap : k \in d.chunks} :
        \A n \in 1 .. Parts : [part |-> n, snap |-> s] \in d.chunks}

\* The one stored under the published index: what Snapshot returns, if
\* decodeSnapshot accepts the bytes.
storedSnapshot(d) == {s \in wholeSnapshots(d) : s.index = d.snapIndex}

(***************************************************************************)
(* Open.                                                                   *)
(***************************************************************************)
imageOf(d) ==
    [rows |-> d.images[d.generation].rows,
     history |-> d.images[d.generation].history,
     results |-> d.images[d.generation].results]

\* snapshotDataLocked: the chunks stored under the published index are
\* numbered without a gap.
chunksContiguous(d) ==
    \A k \in d.chunks : k.snap.index = d.snapIndex =>
        \A n \in 1 .. k.part : \E j \in d.chunks : j.snap.index = d.snapIndex /\ j.part = n

\* diskStore.load, logicalState.load, a decodable snapshot where Open has to
\* install it, and what raft.RestartNode demands of the stored log: the
\* committed entries are there.
loadable(d) ==
    /\ validImage(imageOf(d), d.meta)
    /\ d.images[d.generation].dedupe = opsOf(imageOf(d).results)
    /\ d.meta = d.applied
    /\ chunksContiguous(d)
    /\ d.snapIndex > d.meta => storedSnapshot(d) # {}
    /\ d.snapIndex <= d.commit
    /\ d.applied <= d.commit
    /\ \A i \in d.entries : i > d.snapIndex => d.snapIndex + 1 .. i \subseteq d.entries
    /\ \E i \in indexes(d) : d.commit <= i

\* Mutant: any durable snapshot is installed, ahead of the state or not.
OpenInstallsAlways(r) ==
    /\ pc[r] = "down"
    /\ loadable(disk[r])
    /\ mem' = [mem EXCEPT ![r] = decode(imageOf(disk[r]), disk[r].meta, disk[r].conf)]
    /\ pc' = [pc EXCEPT ![r] = IF disk[r].snapIndex # 0 THEN "install" ELSE "idle"]
    /\ incoming' = [incoming EXCEPT ![r] = storedSnapshot(disk[r])]
    /\ UNCHANGED <<log, ref, disk, upto, creating, sent, replies, crashes>>

\* Mutant: a durable snapshot ahead of the state is left where it is.
OpenInstallsNever(r) ==
    /\ pc[r] = "down"
    /\ loadable(disk[r])
    /\ mem' = [mem EXCEPT ![r] = decode(imageOf(disk[r]), disk[r].meta, disk[r].conf)]
    /\ pc' = [pc EXCEPT ![r] = "idle"]
    /\ UNCHANGED <<log, ref, disk, upto, incoming, creating, sent, replies, crashes>>

\* A durable snapshot ahead of the durable state is installed before the
\* replica serves.
Open(r) ==
    /\ pc[r] = "down"
    /\ loadable(disk[r])
    /\ mem' = [mem EXCEPT ![r] = decode(imageOf(disk[r]), disk[r].meta, disk[r].conf)]
    /\ IF disk[r].snapIndex > disk[r].meta
       THEN /\ pc' = [pc EXCEPT ![r] = "install"]
            /\ \E s \in storedSnapshot(disk[r]) : incoming' = [incoming EXCEPT ![r] = {s}]
       ELSE /\ pc' = [pc EXCEPT ![r] = "idle"]
            /\ incoming' = [incoming EXCEPT ![r] = {}]
    /\ UNCHANGED <<log, ref, disk, upto, creating, sent, replies, crashes>>

(***************************************************************************)
(* Process death: memory is gone, and so is the work in progress.          *)
(***************************************************************************)
Die(r) ==
    /\ crashes < MaxCrashes
    /\ crashes' = crashes + 1
    /\ pc' = [pc EXCEPT ![r] = "down"]
    /\ mem' = [mem EXCEPT ![r] = newLogicalState]
    /\ upto' = [upto EXCEPT ![r] = 0]
    /\ incoming' = [incoming EXCEPT ![r] = {}]
    /\ creating' = [creating EXCEPT ![r] = {}]
    /\ UNCHANGED <<log, ref, sent, replies>>

Crash(r) ==
    /\ pc[r] # "down"
    /\ Die(r)
    /\ UNCHANGED disk

(***************************************************************************)
(* persistReady with entries and a commit index, in one batch.             *)
(***************************************************************************)
CommitEntry(e) ==
    /\ Len(log) < MaxLog
    /\ log' = Append(log, e)
    /\ ref' = Append(ref, apply(ref[Len(ref)], e))
    /\ UNCHANGED <<mem, disk, pc, upto, incoming, creating, sent, replies, crashes>>

\* raft's next entry follows LastIndex, and is not one it knows to be committed.
isNext(d, i) ==
    /\ i - 1 \in indexes(d)
    /\ \A j \in indexes(d) \cup {d.commit} : j < i

persistEntries(d, first, last, commit) ==
    [d EXCEPT !.entries = @ \cup (first .. last), !.commit = commit]

PersistEntries(r) ==
    /\ pc[r] = "idle"
    /\ \E first \in 1 .. Len(log) + 1 :
       \E last \in first - 1 .. Len(log) :
       \E commit \in disk[r].commit .. last :
       \E to \in mem[r].lastApplied .. commit :
          /\ isNext(disk[r], first)
          /\ last >= first \/ to > mem[r].lastApplied
          /\ mem[r].lastApplied + 1 .. to \subseteq disk[r].entries \cup (first .. last)
          /\ disk' = [disk EXCEPT ![r] = persistEntries(@, first, last, commit)]
          /\ upto' = [upto EXCEPT ![r] = to]
          /\ pc' = [pc EXCEPT ![r] = IF to > mem[r].lastApplied THEN "apply" ELSE "idle"]
    /\ UNCHANGED <<log, ref, mem, incoming, creating, sent, replies, crashes>>

(***************************************************************************)
(* logicalState.apply of one committed entry: rows, results and dedupe,    *)
(* history, applied index, state metadata and ConfState in one batch, then *)
(* the new state in memory and the waiter's delivery.                      *)
(***************************************************************************)
applyBatch(d, s, next) ==
    LET image == d.images[d.generation] IN
    [d EXCEPT
        !.images[d.generation] =
            [rows    |-> putRows(image.rows, next.rows \ s.rows),
             history |-> image.history \cup (next.history \ s.history),
             results |-> putResults(image.results, next.results \ s.results),
             dedupe  |-> image.dedupe \cup opsOf(next.results \ s.results)],
        !.applied = next.lastApplied,
        !.meta = next.lastApplied,
        !.conf = next.conf]

applying(r) ==
    /\ pc[r] = "apply"
    /\ creating[r] = {}

ApplyEntry(r) ==
    /\ applying(r)
    /\ LET e    == log[mem[r].lastApplied + 1]
           next == apply(mem[r], e)
       IN  /\ disk' = [disk EXCEPT ![r] = applyBatch(@, mem[r], next)]
           /\ mem' = [mem EXCEPT ![r] = next]
           /\ replies' = IF e.kind = "put"
                         THEN replies \cup {[cmd |-> e.cmd, reply |-> reply(next, e.cmd)]}
                         ELSE replies
           /\ pc' = [pc EXCEPT ![r] = IF next.lastApplied < upto[r] THEN "apply" ELSE "idle"]
    /\ UNCHANGED <<log, ref, upto, incoming, creating, sent, crashes>>

\* The batch is durable, nobody was told, the process is gone.
CrashAfterApplyBatch(r) ==
    /\ applying(r)
    /\ disk' = [disk EXCEPT ![r] =
                   applyBatch(@, mem[r], apply(mem[r], log[mem[r].lastApplied + 1]))]
    /\ Die(r)

(***************************************************************************)
(* Snapshots.                                                              *)
(***************************************************************************)
firstChunks(s, n) == {[part |-> i, snap |-> s] : i \in 1 .. n}

stageChunks(d, s, n) == [d EXCEPT !.chunks = putChunks(@, firstChunks(s, n))]

\* CreateSnapshot up to its commit check.  It holds stateMu shared until it
\* returns, so no entry is applied and no snapshot installed meanwhile; it
\* does not hold the disk lock, so persistReady may run.
BeginCreateSnapshot(r) ==
    /\ pc[r] \in {"idle", "apply"}
    /\ creating[r] = {}
    /\ mem[r].lastApplied # 0
    /\ disk[r].commit = mem[r].lastApplied
    /\ mem[r].lastApplied \in indexes(disk[r])
    /\ creating' = [creating EXCEPT ![r] =
                      {[index |-> mem[r].lastApplied, image |-> exportSnapshot(mem[r]),
                        conf |-> disk[r].conf]}]
    /\ UNCHANGED <<log, ref, mem, disk, pc, upto, incoming, sent, replies, crashes>>

\* persistLocalSnapshot: the chunks, then the metadata.
FinishCreateSnapshot(r) ==
    /\ \E s \in creating[r] :
          /\ disk' = [disk EXCEPT ![r] =
                        [stageChunks(@, s, Parts) EXCEPT !.snapIndex = s.index]]
          /\ sent' = sent \cup {s}
    /\ creating' = [creating EXCEPT ![r] = {}]
    /\ UNCHANGED <<log, ref, mem, pc, upto, incoming, replies, crashes>>

CrashInCreateSnapshot(r) ==
    /\ \E s \in creating[r] : \E n \in 1 .. Parts :
          disk' = [disk EXCEPT ![r] = stageChunks(@, s, n)]
    /\ Die(r)

\* raft hands over a snapshot only if it is ahead of the commit index and of
\* the log.
acceptable(r, s) ==
    /\ pc[r] = "idle"
    /\ \A i \in indexes(disk[r]) \cup {disk[r].commit} : i < s.index
    /\ disk[r].generation < MaxGeneration

\* Mutant: HardState and metadata before the last chunk is there.
PersistSnapshotEarly(r) ==
    /\ \E s \in sent :
          /\ acceptable(r, s)
          /\ disk' = [disk EXCEPT ![r] =
                        [stageChunks(@, s, Parts - 1) EXCEPT !.snapIndex = s.index,
                                                             !.commit = s.index]]
          /\ incoming' = [incoming EXCEPT ![r] = {s}]
    /\ pc' = [pc EXCEPT ![r] = "install"]
    /\ UNCHANGED <<log, ref, mem, upto, creating, sent, replies, crashes>>

\* persistReady with a snapshot: the chunks, then HardState and metadata.
PersistSnapshot(r) ==
    /\ \E s \in sent :
          /\ acceptable(r, s)
          /\ disk' = [disk EXCEPT ![r] =
                        [stageChunks(@, s, Parts) EXCEPT !.snapIndex = s.index,
                                                         !.commit = s.index]]
          /\ incoming' = [incoming EXCEPT ![r] = {s}]
    /\ pc' = [pc EXCEPT ![r] = "install"]
    /\ UNCHANGED <<log, ref, mem, upto, creating, sent, replies, crashes>>

\* Mutant: the metadata before the chunks.
CrashMetadataFirst(r) ==
    /\ \E s \in sent : \E n \in 1 .. Parts :
          /\ acceptable(r, s)
          /\ disk' = [disk EXCEPT ![r] =
                        [stageChunks(@, s, n - 1) EXCEPT !.snapIndex = s.index,
                                                         !.commit = s.index]]
    /\ Die(r)

CrashInPersistSnapshot(r) ==
    /\ \E s \in sent : \E n \in 1 .. Parts :
          /\ acceptable(r, s)
          /\ disk' = [disk EXCEPT ![r] = stageChunks(@, s, n)]
    /\ Die(r)

\* installSnapshot stages the records of the new generation in bounded batches
\* and in this order: rows, history, then each result with its dedupe record.
whole(image) ==
    [rows |-> image.rows, history |-> image.history, results |-> image.results,
     dedupe |-> opsOf(image.results)]

\* What the batches that became durable may hold.
stagedParts(image) ==
    {p \in [rows: SUBSET image.rows, history: SUBSET image.history,
            results: SUBSET image.results, dedupe: SUBSET opsOf(image.results)] :
        /\ p.history # {} => p.rows = image.rows
        /\ p.results # {} => p.rows = image.rows /\ p.history = image.history
        /\ p.dedupe \subseteq opsOf(p.results)
        /\ AtMostOne(opsOf(p.results) \ p.dedupe)}

stageImage(d, p) ==
    LET old == d.images[d.generation + 1] IN
    [d EXCEPT !.images[d.generation + 1] =
        [rows    |-> putRows(old.rows, p.rows),
         history |-> old.history \cup p.history,
         results |-> putResults(old.results, p.results),
         dedupe  |-> old.dedupe \cup p.dedupe]]

\* Mutant: the generation is published before its results are staged.
publishEarly(d, s) ==
    [stageImage(d, [whole(s.image) EXCEPT !.results = {}, !.dedupe = {}]) EXCEPT
        !.generation = d.generation + 1,
        !.applied = s.index,
        !.meta = s.index,
        !.conf = s.conf]

\* The last batch publishes the generation with its applied index and
\* ConfState.
publishImage(d, s) ==
    [stageImage(d, whole(s.image)) EXCEPT
        !.generation = d.generation + 1,
        !.applied = s.index,
        !.meta = s.index,
        !.conf = s.conf]

installing(r) ==
    /\ pc[r] = "install"
    /\ creating[r] = {}
    /\ disk[r].generation < MaxGeneration

InstallSnapshot(r) ==
    /\ installing(r)
    /\ \E s \in incoming[r] :
          /\ disk' = [disk EXCEPT ![r] = publishImage(@, s)]
          /\ mem' = [mem EXCEPT ![r] = decode(s.image, s.index, s.conf)]
    /\ incoming' = [incoming EXCEPT ![r] = {}]
    /\ pc' = [pc EXCEPT ![r] = "idle"]
    /\ UNCHANGED <<log, ref, upto, creating, sent, replies, crashes>>

CrashInInstallSnapshot(r) ==
    /\ installing(r)
    /\ \E s \in incoming[r] :
          \/ \E p \in stagedParts(s.image) : disk' = [disk EXCEPT ![r] = stageImage(@, p)]
          \/ disk' = [disk EXCEPT ![r] = publishImage(@, s)]
    /\ Die(r)

(***************************************************************************)
(* The specification.                                                      *)
(***************************************************************************)
Init ==
    /\ log = <<>>
    /\ ref = <<newLogicalState>>
    /\ mem = [r \in Replicas |-> newLogicalState]
    /\ disk = [r \in Replicas |-> emptyDisk]
    /\ pc = [r \in Replicas |-> "down"]
    /\ upto = [r \in Replicas |-> 0]
    /\ incoming = [r \in Replicas |-> {}]
    /\ creating = [r \in Replicas |-> {}]
    /\ sent = {}
    /\ replies = {}
    /\ crashes = 0

Step(r) ==
    \/ Open(r)
    \/ PersistEntries(r)
    \/ ApplyEntry(r)
    \/ BeginCreateSnapshot(r)
    \/ FinishCreateSnapshot(r)
    \/ PersistSnapshot(r)
    \/ InstallSnapshot(r)

Death(r) ==
    \/ Crash(r)
    \/ CrashAfterApplyBatch(r)
    \/ CrashInCreateSnapshot(r)
    \/ CrashInPersistSnapshot(r)
    \/ CrashInInstallSnapshot(r)

Next ==
    \/ \E e \in Entries : CommitEntry(e)
    \/ \E r \in Replicas : Step(r) \/ Death(r)

Spec == Init /\ [][Next]_vars

\* readyLoop is one goroutine that the scheduler does not starve, an owner
\* reopens a stopped replica, and raft keeps offering the committed log.
Fairness ==
    \A r \in Replicas :
        /\ WF_vars(Open(r))
        /\ WF_vars(PersistEntries(r) /\ upto'[r] = Len(log))
        /\ WF_vars(ApplyEntry(r))
        /\ WF_vars(FinishCreateSnapshot(r))
        /\ WF_vars(InstallSnapshot(r))

FairSpec == Spec /\ Fairness

(***************************************************************************)
(* Properties.                                                             *)
(***************************************************************************)

\* Every variable has its type: what the engine holds and what Replica keeps
\* are rows, results, chunks and indexes.
TypeOK ==
    /\ log \in Seq(Entries) /\ Len(log) <= MaxLog
    /\ ref \in Seq(State) /\ Len(ref) = Len(log) + 1
    /\ mem \in [Replicas -> State]
    /\ disk \in [Replicas -> Disk]
    /\ pc \in [Replicas -> {"down", "idle", "apply", "install"}]
    /\ upto \in [Replicas -> Index]
    /\ incoming \in [Replicas -> SUBSET Snapshot]
    /\ creating \in [Replicas -> SUBSET Snapshot]
    /\ sent \subseteq Snapshot
    /\ replies \subseteq [cmd: Command, reply: SUBSET Result]
    /\ crashes \in 0 .. MaxCrashes

\* The state a running replica serves (Replica.state, rebuilt by load or by
\* installSnapshot as well as by apply) is the state machine's after the
\* committed entries up to lastApplied, its reserved versions included; so
\* two replicas with the same applied index hold the same state.
MemoryIsLogPrefix ==
    \A r \in Replicas :
        pc[r] # "down" =>
            /\ mem[r].lastApplied <= Len(log)
            /\ mem[r] = ref[mem[r].lastApplied + 1]

\* Every state the log can lead to is one load and decodeSnapshot accept: the
\* validation of history, heads, results and reserved versions never reports
\* as corrupt what apply wrote, and it rebuilds exactly the reserved versions.
EveryPrefixLoads == \A i \in DOMAIN ref : wellFormed(ref[i])

\* What the engine holds of the published generation is the whole image of
\* the same prefix, whatever batch a crash cut off: apply writes all of an
\* entry's records with the applied index, installSnapshot publishes a
\* generation only when all of it is staged.
DurableIsLogPrefix ==
    \A r \in Replicas :
        LET d == disk[r] IN
        /\ d.applied <= Len(log) /\ d.meta = d.applied
        /\ decode(imageOf(d), d.applied, d.conf) = ref[d.applied + 1]
        /\ d.images[d.generation].dedupe = opsOf(ref[d.applied + 1].results)

\* persistLocalSnapshot does not look at the metadata it replaces.  When
\* persistReady stores a received snapshot between CreateSnapshot's commit check
\* and persistLocalSnapshot, the metadata ends up naming the older snapshot of
\* the two, although the log between them was never received.
overwritten(d) ==
    /\ d.snapIndex # 0
    /\ \A i \in indexes(d) : i < d.commit
    /\ \E s \in wholeSnapshots(d) : s.index = d.commit

\* A stopped replica can be opened again: no crash leaves records that load
\* reports as corrupt, or a log raft refuses to restart from.  The one
\* exception is a replica whose CreateSnapshot overtook a received snapshot.
Reopenable ==
    \A r \in Replicas : pc[r] = "down" => loadable(disk[r]) \/ overwritten(disk[r])

\* Everything committed is in the engine: the entries from the applied state,
\* or from a snapshot that is stored whole, up to the commit index.  persistReady
\* never makes a commit index durable before what it commits, and neither
\* CreateSnapshot nor a crash takes any of it away.
CommittedIsStored ==
    \A r \in Replicas :
        LET d == disk[r] IN
        \E base \in {d.applied} \cup {s.index : s \in wholeSnapshots(d)} :
            base <= d.commit /\ base + 1 .. d.commit \subseteq d.entries

\* The committed entries above the published snapshot are available to raft:
\* CreateSnapshot keeps the log that goes on from the snapshot it publishes.
CommittedLogAvailable ==
    \A r \in Replicas : disk[r].snapIndex + 1 .. disk[r].commit \subseteq disk[r].entries

\* Every waiter of the same command is told the same thing, on whichever
\* replica, attempt or restart; of two commands with one operation id at most
\* one is ever answered with a result.
RepliesAgree ==
    \A a, b \in replies :
        /\ a.cmd = b.cmd => a.reply = b.reply
        /\ a.cmd.op = b.cmd.op /\ a.cmd # b.cmd => a.reply = {} \/ b.reply = {}

\* The entry that binds an operation id: the first one with that id.
binds(i) ==
    /\ log[i].kind = "put"
    /\ \A j \in 1 .. i - 1 : log[j].kind = "put" => log[j].cmd.op # log[i].cmd.op

latestBefore(history, key, i) ==
    {h \in history : /\ h.key = key /\ h.seq < i
                     /\ \A g \in history : g.key = key /\ g.seq < i => g.seq <= h.seq}

\* What the outcome of each operation must be, read off the log: the first
\* entry with an operation id decides, a candidate version an earlier deciding
\* entry carried is a version conflict (even if that entry failed its
\* condition), and otherwise the write succeeds exactly if its condition holds
\* against the latest earlier row, which it then supersedes at its own index.
OutcomesFollowLog ==
    LET final == ref[Len(ref)] IN
    /\ opsOf(final.results) = {log[i].cmd.op : i \in {j \in DOMAIN log : binds(j)}}
    /\ \A i \in DOMAIN log : binds(i) =>
        LET c      == log[i].cmd
            latest == latestBefore(final.history, c.key, i)
            reused == \E j \in 1 .. i - 1 : binds(j) /\ log[j].cmd.ver = c.ver
            holds  == /\ c.create => latest = {}
                      /\ \A v \in c.match : \E h \in latest : h.ver = v
            row    == [key |-> c.key, ver |-> c.ver, seq |-> i, val |-> c.val]
        IN  /\ result(c, IF reused THEN "versionConflict"
                         ELSE IF holds THEN "success" ELSE "precondition",
                      IF ~reused /\ holds THEN {row} ELSE {},
                      ~reused /\ holds /\ latest = {}) \in final.results
            /\ row \in final.history <=> ~reused /\ holds

\* Nothing durable is taken back by an entry, a snapshot, a crash or a
\* restart: the applied index does not fall, and a published result or
\* history row stays as it is.
DurableNeverRegresses ==
    [][\A r \in Replicas :
          /\ disk[r].applied <= disk'[r].applied
          /\ imageOf(disk[r]).results \subseteq imageOf(disk'[r]).results
          /\ imageOf(disk[r]).history \subseteq imageOf(disk'[r]).history]_vars

\* Every replica ends up with the whole committed log applied, however often
\* it died on the way; unless its CreateSnapshot overtook a received snapshot
\* and no newer one arrives: raft can then neither append to its log nor
\* restart from it.
EventuallyApplied ==
    \A r \in Replicas :
        \/ <>[](pc[r] # "down" /\ mem[r].lastApplied = Len(log))
        \/ <>[]overwritten(disk[r])
=============================================================================
