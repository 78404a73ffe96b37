------------------------------- MODULE Engine -------------------------------
(***************************************************************************)
(* The owned two-level LSM engine of internal/engine: WAL segments, the    *)
(* memtable, SST files, manifests and CURRENT, recovery, compaction and    *)
(* pinned views.                                                           *)
(*                                                                         *)
(* Apply, flush, compaction and Open hold the engine lock throughout, and  *)
(* every change they make to a file is synced before the next begins.  One *)
(* action is one such change; between any two of them the process may die  *)
(* or an I/O error may poison the engine, and a change cut short leaves    *)
(* one of the outcomes of interrupted.  Temporary files, which recovery    *)
(* deletes, are left out.  An append cut short leaves a prefix of its      *)
(* bytes; removed files do not come back.                                  *)
(***************************************************************************)
EXTENDS Naturals, Sequences, FiniteSets

CONSTANTS
    Keys,             \* a set of naturals: keys are ordered
    Values,
    Batches,          \* functions from some keys to a value or "delete"
    Readers,          \* callers that hold snapshots and iterators
    MemtableEntries,  \* entries at which the memtable is flushed (MemtableBytes)
    SegmentFrames,    \* frames that fit a WAL segment (SegmentBytes)
    FileEntries,      \* records that fit an L1 file (MaxSSTBytes)
    L0Trigger,        \* l0CompactionTrigger
    MaxSSTFiles,
    MaxLSN,           \* bound on batches
    MaxStops          \* bound on process deaths and I/O errors

ASSUME EngineAssumption ==
    /\ Keys \subseteq Nat
    /\ \A b \in Batches : DOMAIN b \subseteq Keys /\ DOMAIN b # {}
                          /\ \A k \in DOMAIN b : b[k] \in Values \cup {"delete"}
    /\ {MemtableEntries, SegmentFrames, FileEntries, L0Trigger} \subseteq Nat \ {0}
    /\ MaxSSTFiles \in Nat /\ MaxSSTFiles > L0Trigger
    /\ MaxLSN \in Nat /\ MaxStops \in Nat

VARIABLES
    disk,    \* the files of the data directory
    mem,     \* the fields of Engine, empty when closed
    pc,      \* what the holder of the engine lock does next
    batch,   \* the batch being applied
    views,   \* [Readers -> the set of the reader's engineView, if any]
    stops

vars == <<disk, mem, pc, batch, views, stops>>

(***************************************************************************)
(* Files.                                                                  *)
(***************************************************************************)

\* Records of the memtable or of a table: some keys mapped to values or to
\* the tombstone "delete".
noRecords == [k \in {} |-> "delete"]

over(old, new) ==
    [k \in DOMAIN old \cup DOMAIN new |-> IF k \in DOMAIN new THEN new[k] ELSE old[k]]

greatest(S) == CHOOSE i \in S : \A j \in S : j <= i

\* A segment that holds the frames first, first + 1, ...  Its tail is clean,
\* a torn frame, or (nothing else being there) a torn header.
segment(first) == [first |-> first, frames |-> <<>>, tail |-> "clean"]

tornHeader == [first |-> 0, frames |-> <<>>, tail |-> "header"]

emptyDisk ==
    [segs |-> <<>>, ssts |-> [i \in {} |-> 0], manifests |-> [g \in {} |-> 0], current |-> 0]

\* A manifest lists the ids of its L0 tables, oldest first, and then those of
\* its L1 tables in key order.
noFiles == [l0 |-> <<>>, l1 |-> <<>>]

emptyManifest == [flushed |-> 0, files |-> noFiles]

\* The manifest openManifest reads: CURRENT's, or the highest one there is.
generationOf(d) ==
    IF d.current # 0 THEN d.current
    ELSE IF DOMAIN d.manifests = {} THEN 0
    ELSE greatest(DOMAIN d.manifests)

manifestOf(d) ==
    LET g == generationOf(d) IN
    IF g \in DOMAIN d.manifests THEN d.manifests[g] ELSE emptyManifest

idsOf(files) ==
    {files.l0[i] : i \in DOMAIN files.l0} \cup {files.l1[i] : i \in DOMAIN files.l1}

countOf(files) == Len(files.l0) + Len(files.l1)

\* openSSTReader and its cursor: the records of a table, if it is there.
recordsOf(ssts, id) == IF id \in DOMAIN ssts THEN ssts[id] ELSE noRecords

segmentEnd(s) == s.first + Len(s.frames) - 1

lastSegment(segs) == segs[Len(segs)]

walEnd(segs, flushed) ==
    IF segs = <<>> THEN flushed
    ELSE IF lastSegment(segs).tail # "header" THEN segmentEnd(lastSegment(segs))
    ELSE IF Len(segs) = 1 THEN flushed
    ELSE segmentEnd(segs[Len(segs) - 1])

\* Segment s holds the batch with sequence number n.
holds(s, n) == s.tail # "header" /\ n \in s.first .. segmentEnd(s)

frameAt(segs, n) ==
    LET s == segs[CHOOSE j \in DOMAIN segs : holds(segs[j], n)]
    IN  s.frames[n - s.first + 1]

\* The batches beyond the checkpoint that write key k.
writers(segs, flushed, k) ==
    {n \in flushed + 1 .. walEnd(segs, flushed) : k \in DOMAIN frameAt(segs, n)}

\* The memtable recoverSegment rebuilds, batch by batch: each key as its last
\* writer left it.
replayed(segs, flushed) ==
    [k \in {j \in Keys : writers(segs, flushed, j) # {}} |->
        frameAt(segs, greatest(writers(segs, flushed, k)))[k]]

(***************************************************************************)
(* Reads.                                                                  *)
(***************************************************************************)
inRange(records, k) ==
    /\ \E i \in DOMAIN records : i <= k
    /\ \E i \in DOMAIN records : k <= i

\* The places in a list of the tables that hold key k; in L0 the last is the
\* newest.
holders(ssts, ids, k) == {i \in DOMAIN ids : k \in DOMAIN recordsOf(ssts, ids[i])}

\* A tombstone hides what is below it.
found(records, k) ==
    IF k \notin DOMAIN records THEN "absent"
    ELSE IF records[k] = "delete" THEN "absent" ELSE records[k]

\* lookupView: the memtable, the L0 tables from the newest, the L1 table whose
\* range holds the key.
lookup(ssts, active, files, k) ==
    LET l0 == holders(ssts, files.l0, k)
        l1 == {i \in DOMAIN files.l1 : inRange(recordsOf(ssts, files.l1[i]), k)}
    IN  IF k \in DOMAIN active THEN found(active, k)
        ELSE IF l0 # {} THEN found(recordsOf(ssts, files.l0[greatest(l0)]), k)
        ELSE IF l1 # {}
        THEN found(recordsOf(ssts, files.l1[CHOOSE i \in l1 : \A j \in l1 : i <= j]), k)
        ELSE "absent"

readAll(ssts, active, files) == [k \in Keys |-> lookup(ssts, active, files, k)]

\* buildSources and nextMergedRaw: for each key the record of its newest
\* source.
merged(ssts, files) ==
    LET l0(k) == holders(ssts, files.l0, k)
        l1(k) == holders(ssts, files.l1, k)
        source(k) == IF l0(k) # {} THEN files.l0[greatest(l0(k))]
                     ELSE files.l1[CHOOSE i \in l1(k) : TRUE]
    IN  [k \in {j \in Keys : l0(j) \cup l1(j) # {}} |-> recordsOf(ssts, source(k))[k]]

(***************************************************************************)
(* Changes to the files.                                                   *)
(***************************************************************************)
appendFrame(segs, b) == [segs EXCEPT ![Len(segs)].frames = Append(@, b)]

setTail(segs, tail) == [segs EXCEPT ![Len(segs)].tail = tail]

dropLast(segs) == SubSeq(segs, 1, Len(segs) - 1)

withSegs(d, segs) == [d EXCEPT !.segs = segs]

putSST(d, id, records) == [d EXCEPT !.ssts = over(@, [i \in {id} |-> records])]

removeSSTs(d, ids) == [d EXCEPT !.ssts = [i \in DOMAIN @ \ ids |-> @[i]]]

putManifest(d, g, m) == [d EXCEPT !.manifests = over(@, [h \in {g} |-> m])]

removeManifest(d, g) == [d EXCEPT !.manifests = [h \in DOMAIN @ \ {g} |-> @[h]]]

setCurrent(d, g) == [d EXCEPT !.current = g]

\* The next segment is needed for the frame about to be written.
rollNeeded(segs) ==
    LET n == Len(lastSegment(segs).frames) IN n > 0 /\ n + 1 > SegmentFrames

\* The manifest being published.
newManifest == [flushed |-> mem.lsn, files |-> mem.plan.files]

\* What a change that is cut short may leave.
interrupted ==
    LET appended(s) == withSegs(disk, Append(disk.segs, s)) IN
    {disk} \cup
    CASE pc = "roll"   -> {appended(tornHeader), appended(segment(mem.lsn + 1))}
      [] pc = "append" -> {withSegs(disk, setTail(disk.segs, "torn")),
                           withSegs(disk, appendFrame(disk.segs, batch))}
      [] pc = "rotate" /\ lastSegment(disk.segs).frames # <<>> -> {appended(tornHeader)}
      [] pc = "wal" /\ disk.segs = <<>> -> {appended(tornHeader)}
      [] pc = "current" -> {setCurrent(disk, mem.gen + 1)}
      [] OTHER -> {}

(***************************************************************************)
(* Open: the manifest, orphans, the WAL, and a flush of what was replayed. *)
(***************************************************************************)
noPlan == [files |-> noFiles, nextSST |-> 1, compacting |-> FALSE]

emptyMem ==
    [lsn |-> 0, active |-> noRecords, gen |-> 0, flushed |-> 0, files |-> noFiles,
     nextSST |-> 1, obsolete |-> {}, phase |-> "manifest", plan |-> noPlan]

\* The ranges of these tables are ordered and do not overlap.
ordered(ssts, ids) ==
    \A i, j \in DOMAIN ids : i < j =>
        \A a \in DOMAIN recordsOf(ssts, ids[i]), b \in DOMAIN recordsOf(ssts, ids[j]) : a < b

\* readManifest and validateSSTFiles: the manifest and its tables are there,
\* no more of them than allowed, and L1 ranges do not overlap.
manifestReadable(d) ==
    LET m == manifestOf(d) IN
    /\ d.current # 0 => d.current \in DOMAIN d.manifests
    /\ countOf(m.files) <= MaxSSTFiles
    /\ idsOf(m.files) \subseteq DOMAIN d.ssts
    /\ ordered(d.ssts, m.files.l1)

\* Mutant: a torn frame is refused in the last segment too.
walReadableStrict(segs, flushed) ==
    segs # <<>> => lastSegment(segs).tail = "clean" /\ walEnd(segs, flushed) >= flushed

\* openWAL's checks; only the last segment may be torn.
walReadable(segs, flushed) ==
    segs # <<>> =>
        /\ segs[1].tail # "header"
        /\ segs[1].first \in 1 .. flushed + 1
        /\ \A i \in 1 .. Len(segs) - 1 :
              /\ segs[i].tail = "clean" /\ segs[i].frames # <<>>
              /\ segs[i + 1].tail # "header" => segs[i + 1].first = segmentEnd(segs[i]) + 1
        /\ lastSegment(segs).tail # "header" => walEnd(segs, flushed) >= flushed

nextSSTOf(files) ==
    IF idsOf(files) = {} THEN 1 ELSE 1 + greatest(idsOf(files))

OpenManifest ==
    /\ pc = "closed"
    /\ manifestReadable(disk)
    /\ disk' = setCurrent(disk, generationOf(disk))
    /\ mem' = [emptyMem EXCEPT !.gen = generationOf(disk),
                               !.flushed = manifestOf(disk).flushed,
                               !.files = manifestOf(disk).files,
                               !.nextSST = nextSSTOf(manifestOf(disk).files)]
    /\ pc' = "cleanSST"
    /\ UNCHANGED <<batch, views, stops>>

\* cleanupSSTDirectory
CleanSST ==
    /\ pc = "cleanSST"
    /\ LET orphans == DOMAIN disk.ssts \ idsOf(mem.files) IN
       IF orphans = {}
       THEN pc' = "cleanManifests" /\ UNCHANGED disk
       ELSE /\ \E i \in orphans : disk' = removeSSTs(disk, {i})
            /\ UNCHANGED pc
    /\ UNCHANGED <<mem, batch, views, stops>>

\* The lock is released: Apply or Open returns.
finish == pc' = "idle" /\ mem' = [mem EXCEPT !.phase = "open"]

\* cleanupManifests, in Open and after a compaction
CleanManifests ==
    /\ pc = "cleanManifests"
    /\ LET others == DOMAIN disk.manifests \ {mem.gen} IN
       IF others = {}
       THEN /\ IF mem.phase = "manifest" THEN pc' = "wal" /\ UNCHANGED mem ELSE finish
            /\ UNCHANGED disk
       ELSE /\ \E g \in others : disk' = removeManifest(disk, g)
            /\ UNCHANGED <<pc, mem>>
    /\ UNCHANGED <<batch, views, stops>>

\* openWAL's change of the files: a first segment, a torn one removed or its
\* torn frame cut off.
repaired(segs, flushed) ==
    IF segs = <<>> THEN <<segment(flushed + 1)>>
    ELSE IF lastSegment(segs).tail = "header" THEN dropLast(segs)
    ELSE setTail(segs, "clean")

\* openWAL, and the flush that is due for what it replayed
OpenWAL ==
    /\ pc = "wal"
    /\ walReadable(disk.segs, mem.flushed)
    /\ disk' = withSegs(disk, repaired(disk.segs, mem.flushed))
    /\ LET active == replayed(disk.segs, mem.flushed) IN
       /\ mem' = [mem EXCEPT !.lsn = walEnd(disk.segs, mem.flushed), !.active = active,
                             !.phase = IF active # noRecords THEN "checkpoint" ELSE "open"]
       /\ pc' = IF active # noRecords THEN "sst" ELSE "idle"
    /\ UNCHANGED <<batch, views, stops>>

(***************************************************************************)
(* Apply.                                                                  *)
(***************************************************************************)
Apply(b) ==
    /\ pc = "idle"
    /\ mem.lsn < MaxLSN
    /\ batch' = b
    /\ pc' = IF rollNeeded(disk.segs) THEN "roll" ELSE "append"
    /\ UNCHANGED <<disk, mem, views, stops>>

RollSegment ==
    /\ pc = "roll"
    /\ disk' = withSegs(disk, Append(disk.segs, segment(mem.lsn + 1)))
    /\ pc' = "append"
    /\ UNCHANGED <<mem, batch, views, stops>>

\* Mutant: the batch is published though its frame was not synced.
AppendUnsynced ==
    /\ pc = "append"
    /\ disk' \in {disk, withSegs(disk, appendFrame(disk.segs, batch))}
    /\ mem' = [mem EXCEPT !.lsn = @ + 1, !.active = over(@, batch)]
    /\ pc' = "idle"
    /\ batch' = noRecords
    /\ UNCHANGED <<views, stops>>

\* The synced frame, then the batch in the memtable, which may be due.
AppendFrame ==
    /\ pc = "append"
    /\ disk' = withSegs(disk, appendFrame(disk.segs, batch))
    /\ LET active == over(mem.active, batch) IN
       /\ mem' = [mem EXCEPT !.lsn = @ + 1, !.active = active]
       /\ pc' = IF Cardinality(DOMAIN active) >= MemtableEntries THEN "sst" ELSE "idle"
    /\ batch' = noRecords
    /\ UNCHANGED <<views, stops>>

(***************************************************************************)
(* flushActive.                                                            *)
(***************************************************************************)
WriteSST ==
    /\ pc = "sst"
    /\ disk' = putSST(disk, mem.nextSST, mem.active)
    /\ mem' = [mem EXCEPT !.plan =
                  [files |-> [l0 |-> Append(mem.files.l0, mem.nextSST), l1 |-> mem.files.l1],
                   nextSST |-> mem.nextSST + 1, compacting |-> FALSE]]
    /\ pc' = "rotate"
    /\ UNCHANGED <<batch, views, stops>>

\* wal.rotate: nothing to do for an empty segment
RotateWAL ==
    /\ pc = "rotate"
    /\ disk' = IF lastSegment(disk.segs).frames = <<>> THEN disk
               ELSE withSegs(disk, Append(disk.segs, segment(mem.lsn + 1)))
    /\ pc' = "manifest"
    /\ UNCHANGED <<mem, batch, views, stops>>

\* Mutant: the number of tables is not checked.
PublishUnbounded ==
    /\ pc = "manifest"
    /\ disk' = putManifest(disk, mem.gen + 1, newManifest)
    /\ pc' = "current"
    /\ UNCHANGED <<mem, batch, views, stops>>

\* publishManifest: the manifest, then CURRENT.
PublishManifest ==
    /\ pc = "manifest"
    /\ countOf(mem.plan.files) <= MaxSSTFiles
    /\ disk' = putManifest(disk, mem.gen + 1, newManifest)
    /\ pc' = "current"
    /\ UNCHANGED <<mem, batch, views, stops>>

PublishCurrent ==
    /\ pc = "current"
    /\ disk' = setCurrent(disk, mem.gen + 1)
    /\ mem' = [mem EXCEPT !.gen = @ + 1, !.flushed = mem.lsn, !.active = noRecords,
                          !.files = mem.plan.files, !.nextSST = mem.plan.nextSST,
                          !.obsolete = IF mem.plan.compacting THEN @ \cup idsOf(mem.files) ELSE @]
    /\ pc' = IF mem.plan.compacting THEN "obsolete" ELSE "trim"
    /\ UNCHANGED <<batch, views, stops>>

\* Mutant: the current segment is removed too.
TrimAll ==
    /\ pc = "trim"
    /\ IF disk.segs # <<>>
       THEN disk' = withSegs(disk, Tail(disk.segs)) /\ UNCHANGED <<mem, pc>>
       ELSE finish /\ UNCHANGED disk
    /\ UNCHANGED <<batch, views, stops>>

\* removeBefore, oldest segment first, and the decision to compact.
TrimWAL ==
    /\ pc = "trim"
    /\ IF Len(disk.segs) > 1
       THEN disk' = withSegs(disk, Tail(disk.segs)) /\ UNCHANGED <<mem, pc>>
       ELSE /\ IF Len(mem.files.l0) >= L0Trigger \/ countOf(mem.files) >= MaxSSTFiles
               THEN /\ mem' = [mem EXCEPT !.plan = [files |-> noFiles, nextSST |-> mem.nextSST,
                                                    compacting |-> TRUE]]
                    /\ pc' = "outputs"
               ELSE finish
            /\ UNCHANGED disk
    /\ UNCHANGED <<batch, views, stops>>

(***************************************************************************)
(* compactLevels.                                                          *)
(***************************************************************************)

\* The merged live records that no output holds yet.
unwritten ==
    LET all == merged(disk.ssts, mem.files) IN
    {k \in DOMAIN all : all[k] # "delete"}
        \ UNION {DOMAIN recordsOf(disk.ssts, id) : id \in idsOf(mem.plan.files)}

\* The lowest of these keys, as many as fit a table.
lowest(keys) ==
    {ks \in SUBSET keys :
        /\ \A i \in ks, j \in keys \ ks : i < j
        /\ Cardinality(ks) <= FileEntries
        /\ ks = keys \/ Cardinality(ks) = FileEntries}

\* The next output.
WriteOutput ==
    /\ pc = "outputs" /\ unwritten # {}
    /\ \E ks \in lowest(unwritten) :
          disk' = putSST(disk, mem.plan.nextSST, [k \in ks |-> merged(disk.ssts, mem.files)[k]])
    /\ mem' = [mem EXCEPT !.plan =
                  [files |-> [l0 |-> @.files.l0, l1 |-> Append(@.files.l1, @.nextSST)],
                   nextSST |-> @.nextSST + 1, compacting |-> TRUE]]
    /\ UNCHANGED <<pc, batch, views, stops>>

FinishOutputs ==
    /\ pc = "outputs" /\ unwritten = {}
    /\ countOf(mem.plan.files) <= MaxSSTFiles - L0Trigger
    /\ pc' = "manifest"
    /\ UNCHANGED <<disk, mem, batch, views, stops>>

pinned == \E r \in Readers : views[r] # {}

\* Mutant: pins are not looked at.
removableUnpinned(open) == (mem.obsolete \ idsOf(mem.files)) \cap DOMAIN disk.ssts

\* cleanupObsoleteLocked: the files it removes once nothing is pinned.
removable(open) ==
    IF open THEN {} ELSE (mem.obsolete \ idsOf(mem.files)) \cap DOMAIN disk.ssts

CleanObsolete ==
    /\ pc = "obsolete"
    /\ IF removable(pinned) # {}
       THEN /\ \E i \in removable(pinned) : disk' = removeSSTs(disk, {i})
            /\ UNCHANGED <<mem, pc>>
       ELSE /\ mem' = [mem EXCEPT !.obsolete = IF pinned THEN @ ELSE {}]
            /\ pc' = "cleanManifests"
            /\ UNCHANGED disk
    /\ UNCHANGED <<batch, views, stops>>

(***************************************************************************)
(* Views.  Snapshot and Iterator take the lock to make and release one.    *)
(***************************************************************************)
OpenView(r) ==
    /\ pc = "idle" /\ views[r] = {}
    /\ views' = [views EXCEPT ![r] = {[lsn |-> mem.lsn, active |-> mem.active,
                                       files |-> mem.files]}]
    /\ UNCHANGED <<disk, mem, pc, batch, stops>>

\* releaseView; its error is dropped, so part of the files may stay.
CloseView(r) ==
    /\ pc \in {"idle", "poisoned"} /\ views[r] # {}
    /\ views' = [views EXCEPT ![r] = {}]
    /\ LET unpinned == removable(\E q \in Readers \ {r} : views[q] # {}) IN
       \E removed \in SUBSET unpinned :
          /\ disk' = removeSSTs(disk, removed)
          /\ mem' = IF removed = unpinned /\ unpinned # {} THEN [mem EXCEPT !.obsolete = {}] ELSE mem
    /\ UNCHANGED <<pc, batch, stops>>

(***************************************************************************)
(* Close, process death and errors.                                        *)
(***************************************************************************)
noView == [r \in Readers |-> {}]

\* The engine is gone; its files are d.
gone(d) ==
    /\ disk' = d /\ mem' = emptyMem /\ pc' = "closed"
    /\ batch' = noRecords /\ views' = noView

Close ==
    /\ pc \in {"idle", "poisoned"}
    /\ gone(disk)
    /\ UNCHANGED stops

Crash ==
    /\ pc # "closed" /\ stops < MaxStops
    /\ \E d \in interrupted : gone(d)
    /\ stops' = stops + 1

\* An operation returns an error: Open gives up, Apply poisons the engine.
failed(d) ==
    IF mem.phase # "open" THEN gone(d)
    ELSE /\ disk' = d /\ pc' = "poisoned" /\ batch' = noRecords
         /\ UNCHANGED <<mem, views>>

Fail ==
    /\ pc \notin {"closed", "idle", "poisoned"} /\ stops < MaxStops
    /\ \E d \in interrupted : failed(d)
    /\ stops' = stops + 1

\* openWAL reports corruption, the tables do not fit a manifest, or the outputs
\* not their share of one.
Refuse ==
    /\ \/ pc = "wal" /\ ~ walReadable(disk.segs, mem.flushed)
       \/ pc = "manifest" /\ countOf(mem.plan.files) > MaxSSTFiles
       \/ pc = "outputs" /\ unwritten = {} /\ countOf(mem.plan.files) > MaxSSTFiles - L0Trigger
    /\ failed(disk)
    /\ UNCHANGED stops

Init ==
    /\ disk = emptyDisk /\ mem = emptyMem /\ pc = "closed"
    /\ batch = noRecords /\ views = noView /\ stops = 0

\* The steps of Open and Apply under the lock.
Step ==
    \/ OpenManifest \/ CleanSST \/ CleanManifests \/ OpenWAL
    \/ RollSegment \/ AppendFrame
    \/ WriteSST \/ RotateWAL \/ PublishManifest \/ PublishCurrent \/ TrimWAL
    \/ WriteOutput \/ FinishOutputs \/ CleanObsolete \/ Refuse

Next ==
    \/ Step
    \/ \E b \in Batches : Apply(b)
    \/ \E r \in Readers : OpenView(r) \/ CloseView(r)
    \/ Close \/ Crash \/ Fail

Spec == Init /\ [][Next]_vars

\* A running process finishes what it began; a poisoned engine is closed and
\* a closed one opened again by its owner.
FairSpec == Spec /\ WF_vars(Step) /\ WF_vars(pc = "poisoned" /\ Close)

(***************************************************************************)
(* Properties.                                                             *)
(***************************************************************************)
Records == UNION {[ks -> Values \cup {"delete"}] : ks \in SUBSET Keys}

Files == [l0 : Seq(Nat \ {0}), l1 : Seq(Nat \ {0})]

\* The files and fields have their types; an open WAL has a current segment,
\* and the next table of the engine gets an unused name (writeSST).
TypeOK ==
    /\ \A i \in DOMAIN disk.segs :
          /\ disk.segs[i].first \in Nat /\ disk.segs[i].tail \in {"clean", "torn", "header"}
          /\ \A j \in DOMAIN disk.segs[i].frames : disk.segs[i].frames[j] \in Batches
    /\ \A i \in DOMAIN disk.ssts : i \in Nat \ {0} /\ disk.ssts[i] \in Records
    /\ \A g \in DOMAIN disk.manifests :
          disk.manifests[g].flushed \in Nat /\ disk.manifests[g].files \in Files
    /\ disk.current \in Nat
    /\ mem.active \in Records /\ mem.files \in Files /\ mem.plan.files \in Files
    /\ mem.obsolete \subseteq Nat
    /\ batch \in Batches \cup {noRecords}
    /\ pc \in {"idle", "roll", "append", "sst", "rotate", "manifest", "current", "trim"} =>
          disk.segs # <<>>
    /\ pc \in {"idle", "sst"} => \A i \in DOMAIN disk.ssts : i < mem.nextSST

\* What an Open of these files would serve.
recovered(d) ==
    LET m == manifestOf(d) IN readAll(d.ssts, replayed(d.segs, m.flushed), m.files)

recoveredLSN(d) == walEnd(d.segs, manifestOf(d).flushed)

\* What readers of a healthy engine see (Get, Scan and LSN) is exactly what
\* would be recovered if the process died now: nothing is visible before its
\* WAL sync, nothing acknowledged can be lost.
VisibleIsDurable ==
    pc = "idle" =>
        /\ readAll(disk.ssts, mem.active, mem.files) = recovered(disk)
        /\ mem.lsn = recoveredLSN(disk)

\* Open accepts these files: manifest, tables and WAL pass its checks, and the
\* checkpoint it makes of the replayed batches fits the manifest.
opens(d) ==
    LET m == manifestOf(d) IN
    /\ manifestReadable(d)
    /\ walReadable(d.segs, m.flushed)
    /\ replayed(d.segs, m.flushed) # noRecords => countOf(m.files) < MaxSSTFiles

\* The manifest has no room for the table of another flush.
full(d) == countOf(manifestOf(d).files) >= MaxSSTFiles

\* The creation of the first segment was cut short, and nothing else was ever
\* written: openWAL reads the header of the first segment before it looks for a
\* torn one, and refuses the directory from then on.
stillborn(d) ==
    d.segs = <<tornHeader>> /\ DOMAIN d.ssts = {} /\ DOMAIN d.manifests = {}

\* Whatever change a death, an I/O error or a refusal for lack of room cut
\* short, the files left behind pass the checks of Open, and Open succeeds
\* unless the manifest is full (openManifest, openWAL, flushActive,
\* compactLevels).  The one exception is a directory that was never used: its
\* first segment was torn as it was created.
ReopenableUntilFull ==
    pc = "closed" =>
        \/ stillborn(disk)
        \/ /\ manifestReadable(disk)
           /\ walReadable(disk.segs, manifestOf(disk).flushed)
           /\ full(disk) \/ opens(disk)

\* Every Open and every Apply ends, and a stopped or poisoned engine serves
\* again unless it is full, or was never used and its first segment is torn: no
\* other crash point leaves files that only fail.
ServesAgain == []<>(pc = "idle" \/ full(disk) \/ stillborn(disk))
=============================================================================
