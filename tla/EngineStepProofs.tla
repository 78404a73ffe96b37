-------------------------- MODULE EngineStepProofs --------------------------
(***************************************************************************)
(* The inductive invariant of Engine, and the proof that the steps of Open *)
(* up to the replay of the WAL, of Apply, of a flush and of views, and     *)
(* every stop, keep it.  EngineProofs has the other steps and the theorems.*)
(*                                                                         *)
(* The inductive invariant says of the files that the WAL holds every      *)
(* batch beyond the checkpoint exactly once and in order, that the tables  *)
(* of the manifest are there, and that a manifest about to be published    *)
(* serves what the current one serves with the memtable on top of it.      *)
(***************************************************************************)
EXTENDS Engine, TLAPS

USE ZenonT(30)

(***************************************************************************)
(* The inductive invariant.                                                *)
(***************************************************************************)
Segment == [first : Nat, frames : Seq(Batches), tail : {"clean", "torn", "header"}]

Manifest == [flushed : Nat, files : Files]

isTables(ssts) ==
    DOMAIN ssts \subseteq Nat \ {0} /\ \A i \in DOMAIN ssts : ssts[i] \in Records

isManifests(manifests) ==
    DOMAIN manifests \subseteq Nat \ {0} /\ \A g \in DOMAIN manifests : manifests[g] \in Manifest

isDisk(d) ==
    /\ d = [segs |-> d.segs, ssts |-> d.ssts, manifests |-> d.manifests, current |-> d.current]
    /\ d.segs \in Seq(Segment) /\ isTables(d.ssts) /\ isManifests(d.manifests) /\ d.current \in Nat

Plan == [files : Files, nextSST : Nat \ {0}, compacting : BOOLEAN]

Mem == [lsn : Nat, active : Records, gen : Nat, flushed : Nat, files : Files,
        nextSST : Nat \ {0}, obsolete : SUBSET Nat, phase : {"manifest", "checkpoint", "open"},
        plan : Plan]

View == [lsn : Nat, active : Records, files : Files]

Opening == {"cleanSST", "wal"}

Opened == {"idle", "roll", "append", "sst", "rotate", "manifest", "current", "trim", "outputs",
           "obsolete"}

\* The manifest and the tables are read, the WAL is not.
opening == pc \in Opening \/ (pc = "cleanManifests" /\ mem.phase = "manifest")

\* The WAL is open.
opened == pc \in Opened \/ (pc = "cleanManifests" /\ mem.phase # "manifest")

typed ==
    /\ isDisk(disk) /\ mem \in Mem
    /\ pc \in Opening \cup Opened \cup {"closed", "poisoned", "cleanManifests"}
    /\ batch \in Batches \cup {noRecords}
    /\ pc \in {"roll", "append"} => batch \in Batches
    /\ pc \in Opening => mem.phase = "manifest"
    /\ pc \in Opened => mem.phase # "manifest"
    /\ views \in [Readers -> SUBSET View]

\* Only the last segment may be torn; the others hold frames, and the frames
\* of each follow those of the segments before it.
chained(segs) ==
    /\ \A i \in DOMAIN segs : segs[i].tail # "header" => segs[i].first >= 1
    /\ \A i \in DOMAIN segs : i < Len(segs) => segs[i].tail = "clean" /\ segs[i].frames # <<>>
    /\ \A i, j \in DOMAIN segs : i < j /\ segs[j].tail # "header" =>
                                     segmentEnd(segs[i]) < segs[j].first
    /\ \A i \in DOMAIN segs : i < Len(segs) /\ segs[i + 1].tail # "header" =>
                                  segs[i + 1].first = segmentEnd(segs[i]) + 1

\* Every batch beyond the checkpoint is in some segment.
covers(segs, flushed) ==
    /\ segs[1].tail # "header" /\ segs[1].first <= flushed + 1
    /\ flushed <= walEnd(segs, flushed)
    /\ \A n \in flushed + 1 .. walEnd(segs, flushed) : \E j \in DOMAIN segs : holds(segs[j], n)

walOK(segs, flushed) == segs # <<>> => chained(segs) /\ covers(segs, flushed)

\* The creation of the first segment was cut short.
tornFirst(segs) == segs = <<tornHeader>>

tablesOK(ssts, files) == idsOf(files) \subseteq DOMAIN ssts /\ ordered(ssts, files.l1)

below(ids, top) == \A i \in ids : i < top

bounded(ids) == \E top \in Nat : below(ids, top)

\* A fact about the numbers that most lemmas assume; EngineProofs proves it.
wellOrdered == \A S \in SUBSET Nat : S # {} => \E m \in S : \A t \in S : m <= t

currentOK(d) ==
    /\ d.current # 0 => d.current \in DOMAIN d.manifests
    /\ d.current = 0 => DOMAIN d.manifests \subseteq {1}

\* What an Open of these files relies on.
diskOK(d) ==
    /\ currentOK(d)
    /\ tablesOK(d.ssts, manifestOf(d).files)
    /\ countOf(manifestOf(d).files) <= MaxSSTFiles
    /\ bounded(DOMAIN d.ssts)
    /\ walOK(d.segs, manifestOf(d).flushed) \/ tornFirst(d.segs)

\* The manifest in use.
published == [flushed |-> mem.flushed, files |-> mem.files]

publishedOK ==
    /\ disk.current = mem.gen
    /\ mem.gen # 0 => mem.gen \in DOMAIN disk.manifests /\ disk.manifests[mem.gen] = published
    /\ mem.gen = 0 => /\ published = emptyManifest
                      /\ pc # "current" => DOMAIN disk.manifests = {}
                      /\ pc = "current" => DOMAIN disk.manifests = {1}
    /\ pc = "current" => /\ mem.gen + 1 \in DOMAIN disk.manifests
                         /\ disk.manifests[mem.gen + 1] = newManifest

\* The tables in use are there; no obsolete one is among them, and all are
\* older than the next one.
filesOK ==
    /\ tablesOK(disk.ssts, mem.files)
    /\ countOf(mem.files) <= MaxSSTFiles
    /\ below(idsOf(mem.files), mem.nextSST)
    /\ below(mem.obsolete, mem.nextSST)
    /\ mem.obsolete \cap idsOf(mem.files) = {}

openingOK ==
    /\ walOK(disk.segs, mem.flushed) \/ tornFirst(disk.segs)
    /\ bounded(DOMAIN disk.ssts)
    /\ pc # "cleanSST" => below(DOMAIN disk.ssts, mem.nextSST)

\* The memtable holds the batches beyond the checkpoint.
openedOK ==
    /\ disk.segs # <<>> /\ walOK(disk.segs, mem.flushed)
    /\ lastSegment(disk.segs).tail = "clean"
    /\ mem.lsn = walEnd(disk.segs, mem.flushed)
    /\ mem.active = replayed(disk.segs, mem.flushed)
    /\ pc \notin {"rotate", "manifest", "current", "outputs"} => below(DOMAIN disk.ssts, mem.nextSST)
    /\ pc \in {"trim", "outputs"} => mem.active = noRecords /\ mem.flushed = mem.lsn
    /\ pc = "roll" => lastSegment(disk.segs).frames # <<>>

\* The manifest to be published serves what is served now.
planOK ==
    /\ tablesOK(disk.ssts, mem.plan.files)
    /\ pc = "current" => countOf(mem.plan.files) <= MaxSSTFiles
    /\ below(DOMAIN disk.ssts, mem.plan.nextSST)
    /\ mem.nextSST <= mem.plan.nextSST
    /\ mem.obsolete \cap idsOf(mem.plan.files) = {}
    /\ mem.plan.compacting => idsOf(mem.files) \cap idsOf(mem.plan.files) = {}
    /\ readAll(disk.ssts, noRecords, mem.plan.files) = readAll(disk.ssts, mem.active, mem.files)

\* The live records a compaction keeps.
live(ssts, files) == {k \in DOMAIN merged(ssts, files) : merged(ssts, files)[k] # "delete"}

\* The outputs hold the lowest live records, in key order.
outputsOK ==
    /\ mem.plan.compacting /\ mem.plan.files.l0 = <<>>
    /\ below(DOMAIN disk.ssts, mem.plan.nextSST)
    /\ mem.nextSST <= mem.plan.nextSST
    /\ tablesOK(disk.ssts, mem.plan.files)
    /\ \A id \in idsOf(mem.plan.files) :
          /\ mem.nextSST <= id
          /\ \A k \in DOMAIN disk.ssts[id] :
                /\ k \in live(disk.ssts, mem.files)
                /\ disk.ssts[id][k] = merged(disk.ssts, mem.files)[k]
                /\ \A j \in unwritten : k < j

\* Views pin their tables.
viewsOK ==
    /\ \A r \in Readers : \A v \in views[r] : idsOf(v.files) \subseteq DOMAIN disk.ssts
    /\ pc = "closed" \/ opening => views = noView

IInv ==
    /\ typed
    /\ pc \in {"closed", "poisoned"} => diskOK(disk)
    /\ pc = "poisoned" => mem.obsolete \cap idsOf(manifestOf(disk).files) = {}
    /\ opening \/ opened => publishedOK /\ filesOK
    /\ opening => openingOK
    /\ opened => openedOK
    /\ pc \in {"rotate", "manifest", "current"} => planOK
    /\ pc = "outputs" => outputsOK
    /\ viewsOK

-----------------------------------------------------------------------------
(***************************************************************************)
(* Numbers and fields.                                                     *)
(***************************************************************************)

\* A nonempty bounded set of numbers has a greatest one: the least of its
\* upper bounds.
LEMMA MaxExists ==
    ASSUME wellOrdered, NEW S \in SUBSET Nat, bounded(S), S # {}
    PROVE  \E m \in S : \A t \in S : t <= m
<1> DEFINE U == {u \in Nat : \A t \in S : t <= u}
<1>1. U \in SUBSET Nat /\ U # {}
  BY SMTT(20) DEF bounded, below
<1>2. PICK u \in U : \A w \in U : u <= w
  <2> HIDE DEF U
  <2> QED
    BY <1>1 DEF wellOrdered
<1>3. u \in Nat /\ \A t \in S : t <= u
  OBVIOUS
<1>4. u \in S
  <2> SUFFICES ASSUME u \notin S PROVE FALSE
    OBVIOUS
  <2>1. PICK t \in S : TRUE
    OBVIOUS
  <2>2. u # 0 /\ \A x \in S : x <= u - 1
    BY <1>3, <2>1, SMTT(20)
  <2>3. u - 1 \in U
    BY <1>3, <2>2, SMTT(20)
  <2> QED
    BY <1>2, <1>3, <2>3, SMTT(20)
<1> QED
  BY <1>3, <1>4

\* What each change of the files leaves alone.
LEMMA SegsOnly ==
    ASSUME NEW d, isDisk(d), NEW segs
    PROVE  /\ withSegs(d, segs).segs = segs
           /\ withSegs(d, segs).ssts = d.ssts
           /\ withSegs(d, segs).manifests = d.manifests
           /\ withSegs(d, segs).current = d.current
<1>1. d = [segs |-> d.segs, ssts |-> d.ssts, manifests |-> d.manifests, current |-> d.current]
  BY DEF isDisk
<1> QED
  BY <1>1 DEF withSegs

LEMMA PutSSTOnly ==
    ASSUME NEW d, isDisk(d), NEW id, NEW r
    PROVE  /\ putSST(d, id, r).segs = d.segs
           /\ putSST(d, id, r).manifests = d.manifests
           /\ putSST(d, id, r).current = d.current
<1>1. d = [segs |-> d.segs, ssts |-> d.ssts, manifests |-> d.manifests, current |-> d.current]
  BY DEF isDisk
<1> QED
  BY <1>1 DEF putSST

LEMMA CutSSTsOnly ==
    ASSUME NEW d, isDisk(d), NEW ids
    PROVE  /\ removeSSTs(d, ids).segs = d.segs
           /\ removeSSTs(d, ids).manifests = d.manifests
           /\ removeSSTs(d, ids).current = d.current
<1>1. d = [segs |-> d.segs, ssts |-> d.ssts, manifests |-> d.manifests, current |-> d.current]
  BY DEF isDisk
<1> QED
  BY <1>1 DEF removeSSTs

LEMMA PutManifestOnly ==
    ASSUME NEW d, isDisk(d), NEW g, NEW m
    PROVE  /\ putManifest(d, g, m).segs = d.segs
           /\ putManifest(d, g, m).ssts = d.ssts
           /\ putManifest(d, g, m).current = d.current
<1>1. d = [segs |-> d.segs, ssts |-> d.ssts, manifests |-> d.manifests, current |-> d.current]
  BY DEF isDisk
<1> QED
  BY <1>1 DEF putManifest

LEMMA CutManifestOnly ==
    ASSUME NEW d, isDisk(d), NEW g
    PROVE  /\ removeManifest(d, g).segs = d.segs
           /\ removeManifest(d, g).ssts = d.ssts
           /\ removeManifest(d, g).current = d.current
<1>1. d = [segs |-> d.segs, ssts |-> d.ssts, manifests |-> d.manifests, current |-> d.current]
  BY DEF isDisk
<1> QED
  BY <1>1 DEF removeManifest

LEMMA CurrentOnly ==
    ASSUME NEW d, isDisk(d), NEW g
    PROVE  /\ setCurrent(d, g).current = g
           /\ setCurrent(d, g).segs = d.segs
           /\ setCurrent(d, g).ssts = d.ssts
           /\ setCurrent(d, g).manifests = d.manifests
<1>1. d = [segs |-> d.segs, ssts |-> d.ssts, manifests |-> d.manifests, current |-> d.current]
  BY DEF isDisk
<1> QED
  BY <1>1 DEF setCurrent

-----------------------------------------------------------------------------
(***************************************************************************)
(* The WAL.                                                                *)
(***************************************************************************)

\* The fields of a segment.
LEMMA SegmentFields ==
    ASSUME NEW segs \in Seq(Segment)
    PROVE  /\ Len(segs) \in Nat /\ DOMAIN segs = 1 .. Len(segs)
           /\ segs = <<>> <=> Len(segs) = 0
           /\ \A i \in DOMAIN segs :
                 /\ segs[i].first \in Nat
                 /\ segs[i].frames \in Seq(Batches) /\ Len(segs[i].frames) \in Nat
                 /\ segs[i].frames = <<>> <=> Len(segs[i].frames) = 0
                 /\ segs[i].tail \in {"clean", "torn", "header"}
<1>1. Len(segs) \in Nat /\ DOMAIN segs = 1 .. Len(segs) /\ (segs = <<>> <=> Len(segs) = 0)
  BY SMTT(20)
<1>2. \A i \in DOMAIN segs : segs[i] \in Segment
  BY <1>1, SMTT(20)
<1>3. \A q \in Seq(Batches) : Len(q) \in Nat /\ (q = <<>> <=> Len(q) = 0)
  BY SMTT(20)
<1>4. \A x \in Segment : /\ x.first \in Nat /\ x.frames \in Seq(Batches)
                         /\ x.tail \in {"clean", "torn", "header"}
  BY DEF Segment
<1> QED
  BY <1>1, <1>2, <1>3, <1>4

\* A batch is in one segment only, where recovery finds it.
LEMMA FrameIn ==
    ASSUME NEW segs \in Seq(Segment), chained(segs), NEW j \in DOMAIN segs, NEW n \in Nat,
           holds(segs[j], n)
    PROVE  /\ frameAt(segs, n) = segs[j].frames[n - segs[j].first + 1]
           /\ n - segs[j].first + 1 \in DOMAIN segs[j].frames
           /\ frameAt(segs, n) \in Batches
<1> DEFINE i == CHOOSE x \in DOMAIN segs : holds(segs[x], n)
<1>1. i \in DOMAIN segs /\ holds(segs[i], n)
  OBVIOUS
<1>2. \A a, b \in DOMAIN segs : a < b /\ holds(segs[a], n) => ~ holds(segs[b], n)
  <2> SUFFICES ASSUME NEW a \in DOMAIN segs, NEW b \in DOMAIN segs, a < b, holds(segs[a], n),
                      holds(segs[b], n)
               PROVE  FALSE
    OBVIOUS
  <2>1. segmentEnd(segs[a]) < segs[b].first
    BY DEF chained, holds
  <2>2. n <= segmentEnd(segs[a]) /\ segs[b].first <= n
    BY SegmentFields, SMTT(20) DEF holds, segmentEnd
  <2>3. segs[a].first \in Nat /\ segs[b].first \in Nat /\ Len(segs[a].frames) \in Nat
    BY SegmentFields
  <2> QED
    BY <2>1, <2>2, <2>3, SMTT(20) DEF segmentEnd
<1>3. DOMAIN segs \subseteq Nat
  BY SegmentFields, SMTT(20)
<1>4. i = j
  <2>1. ~ (i < j) /\ ~ (j < i)
    BY <1>1, <1>2
  <2> HIDE DEF i
  <2> QED
    BY <1>1, <1>3, <2>1, SMTT(20)
<1>5. frameAt(segs, n) = segs[j].frames[n - segs[j].first + 1]
  BY <1>4 DEF frameAt
<1>6. /\ segs[j].first \in Nat /\ segs[j].frames \in Seq(Batches)
      /\ n \in segs[j].first .. segs[j].first + Len(segs[j].frames) - 1
  BY SegmentFields DEF holds, segmentEnd
<1>7. n - segs[j].first + 1 \in DOMAIN segs[j].frames
  BY <1>6, SMTT(20)
<1>8. segs[j].frames[n - segs[j].first + 1] \in Batches
  BY <1>6, <1>7, SMTT(20)
<1> QED
  BY <1>5, <1>7, <1>8

\* greatest is the greatest element of a bounded set.
LEMMA Greatest ==
    ASSUME wellOrdered, NEW S \in SUBSET Nat, bounded(S), S # {}
    PROVE  greatest(S) \in S /\ \A t \in S : t <= greatest(S)
<1>1. \E m \in S : \A t \in S : t <= m
  BY MaxExists, SMTT(20)
<1> QED
  BY <1>1 DEF greatest

\* It is the only upper bound in the set.
LEMMA GreatestIs ==
    ASSUME NEW S \in SUBSET Nat, NEW m \in S, \A t \in S : t <= m
    PROVE  greatest(S) = m
<1>1. greatest(S) \in S /\ \A t \in S : t <= greatest(S)
  BY DEF greatest
<1>2. greatest(S) <= m /\ m <= greatest(S) /\ greatest(S) \in Nat /\ m \in Nat
  BY <1>1
<1> QED
  BY <1>2, SMTT(20)

\* The batches beyond the checkpoint can be read.
framesOK(segs, flushed) ==
    /\ walEnd(segs, flushed) \in Nat /\ flushed <= walEnd(segs, flushed)
    /\ \A n \in flushed + 1 .. walEnd(segs, flushed) : frameAt(segs, n) \in Batches

LEMMA WalFrames ==
    ASSUME NEW segs \in Seq(Segment), NEW flushed \in Nat,
           walOK(segs, flushed) \/ tornFirst(segs)
    PROVE  framesOK(segs, flushed)
<1> DEFINE e == walEnd(segs, flushed)
<1>1. ASSUME e = flushed
      PROVE  framesOK(segs, flushed)
  <2>1. flushed + 1 .. e = {} /\ flushed <= flushed
    BY <1>1, SMTT(20)
  <2> QED
    BY <1>1, <2>1 DEF framesOK
<1>2. CASE segs = <<>>
  BY <1>1, <1>2 DEF walEnd
<1>3. CASE tornFirst(segs)
  <2>1. segs = <<tornHeader>>
    BY <1>3 DEF tornFirst
  <2>2. Len(segs) = 1 /\ segs[1].tail = "header"
    BY <2>1, SMTT(20) DEF tornHeader
  <2> QED
    BY <1>1, <2>2 DEF walEnd, lastSegment
<1>4. CASE segs # <<>> /\ ~ tornFirst(segs)
  <2>1. chained(segs) /\ covers(segs, flushed)
    BY <1>4 DEF walOK
  <2>2. flushed <= e /\ \A n \in flushed + 1 .. e : \E j \in DOMAIN segs : holds(segs[j], n)
    BY <2>1 DEF covers
  <2>3. e \in Nat
    <3>1. \A j \in DOMAIN segs : segs[j].tail # "header" => segmentEnd(segs[j]) \in Nat
      <4>1. \A a, b \in Nat : a >= 1 => a + b - 1 \in Nat
        BY SMTT(20)
      <4> QED
        BY <2>1, <4>1, SegmentFields DEF chained, segmentEnd
    <3>2. /\ Len(segs) \in DOMAIN segs
          /\ Len(segs) # 1 => Len(segs) - 1 \in DOMAIN segs /\ Len(segs) - 1 < Len(segs)
      <4>1. Len(segs) \in Nat /\ Len(segs) # 0 /\ DOMAIN segs = 1 .. Len(segs)
        BY <1>4, SegmentFields
      <4> QED
        BY <4>1, SMTT(20)
    <3>3. Len(segs) # 1 => segs[Len(segs) - 1].tail # "header"
      BY <2>1, <3>2 DEF chained
    <3> QED
      BY <1>4, <3>1, <3>2, <3>3 DEF walEnd, lastSegment
  <2>4. \A n \in flushed + 1 .. e : n \in Nat
    BY <2>3, SMTT(20)
  <2>5. \A n \in flushed + 1 .. e : frameAt(segs, n) \in Batches
    BY <2>1, <2>2, <2>4, FrameIn
  <2> QED
    BY <2>2, <2>3, <2>5 DEF framesOK
<1> QED
  BY <1>2, <1>3, <1>4

\* The last writer of a key exists.
LEMMA LastWriter ==
    ASSUME wellOrdered, NEW segs, NEW flushed \in Nat, framesOK(segs, flushed), NEW k,
           writers(segs, flushed, k) # {}
    PROVE  /\ greatest(writers(segs, flushed, k)) \in flushed + 1 .. walEnd(segs, flushed)
           /\ k \in DOMAIN frameAt(segs, greatest(writers(segs, flushed, k)))
           /\ frameAt(segs, greatest(writers(segs, flushed, k))) \in Batches
           /\ \A n \in writers(segs, flushed, k) : n <= greatest(writers(segs, flushed, k))
<1> DEFINE W == writers(segs, flushed, k)
           e == walEnd(segs, flushed)
<1>1. e \in Nat /\ W \subseteq flushed + 1 .. e
  BY DEF framesOK, writers
<1>2. W \in SUBSET Nat /\ \A n \in W : n < e + 1
  <2> HIDE DEF W, e
  <2> QED
    BY <1>1, SMTT(20)
<1>3. bounded(W)
  <2>1. e + 1 \in Nat
    BY <1>1, SMTT(20)
  <2> QED
    BY <1>2, <2>1 DEF bounded, below
<1>4. greatest(W) \in W /\ \A n \in W : n <= greatest(W)
  BY <1>2, <1>3, Greatest
<1> QED
  BY <1>1, <1>4 DEF writers, framesOK

\* A batch holds records of keys.
LEMMA BatchIsRecords ==
    ASSUME NEW b \in Batches
    PROVE  /\ DOMAIN b \subseteq Keys
           /\ \A k \in DOMAIN b : b[k] \in Values \cup {"delete"}
  BY EngineAssumption

\* A function on keys with values or tombstones is a set of records.
LEMMA IsRecords ==
    ASSUME NEW ks \in SUBSET Keys, NEW r, r = [k \in ks |-> r[k]],
           \A k \in ks : r[k] \in Values \cup {"delete"}
    PROVE  r \in Records /\ DOMAIN r = ks
<1>1. r \in [ks -> Values \cup {"delete"}]
  OBVIOUS
<1> QED
  BY <1>1 DEF Records

LEMMA RecordsFields ==
    ASSUME NEW r \in Records
    PROVE  /\ DOMAIN r \subseteq Keys /\ r = [k \in DOMAIN r |-> r[k]]
           /\ \A k \in DOMAIN r : r[k] \in Values \cup {"delete"}
<1>1. PICK ks \in SUBSET Keys : r \in [ks -> Values \cup {"delete"}]
  BY DEF Records
<1> QED
  BY <1>1

LEMMA NoRecordsType ==
    /\ noRecords \in Records /\ DOMAIN noRecords = {}
    /\ \A r \in Records : DOMAIN r = {} => r = noRecords
<1>1. DOMAIN noRecords = {} /\ noRecords = [k \in {} |-> noRecords[k]]
  BY DEF noRecords
<1>2. noRecords \in Records
  BY <1>1, IsRecords
<1>3. ASSUME NEW r \in Records, DOMAIN r = {} PROVE r = noRecords
  <2>1. r = [k \in DOMAIN r |-> r[k]]
    BY RecordsFields
  <2> QED
    BY <1>3, <2>1 DEF noRecords
<1> QED
  BY <1>1, <1>2, <1>3

\* The memtable of a recovery holds records.
LEMMA ReplayedType ==
    ASSUME wellOrdered, NEW segs, NEW flushed \in Nat, framesOK(segs, flushed)
    PROVE  replayed(segs, flushed) \in Records
<1> DEFINE ks == {j \in Keys : writers(segs, flushed, j) # {}}
           r  == replayed(segs, flushed)
<1>1. /\ DOMAIN r = ks /\ r = [k \in ks |-> r[k]]
      /\ \A k \in ks : r[k] = frameAt(segs, greatest(writers(segs, flushed, k)))[k]
  BY DEF replayed
<1>2. \A k \in ks : r[k] \in Values \cup {"delete"}
  <2> SUFFICES ASSUME NEW k \in ks PROVE r[k] \in Values \cup {"delete"}
    OBVIOUS
  <2> DEFINE b == frameAt(segs, greatest(writers(segs, flushed, k)))
  <2>1. b \in Batches /\ k \in DOMAIN b
    BY LastWriter
  <2>2. b[k] \in Values \cup {"delete"}
    BY <2>1, BatchIsRecords
  <2> QED
    BY <1>1, <2>2
<1>3. ks \in SUBSET Keys
  OBVIOUS
<1> HIDE DEF r, ks
<1> QED
  <2>1. r \in Records
    BY <1>1, <1>2, <1>3, IsRecords
  <2> QED
    BY <2>1 DEF r

\* Nothing is replayed when the checkpoint holds every batch.
LEMMA ReplayedNone ==
    ASSUME NEW segs, NEW flushed \in Nat, walEnd(segs, flushed) = flushed
    PROVE  replayed(segs, flushed) = noRecords
<1>1. flushed + 1 .. flushed = {}
  BY SMTT(20)
<1>2. \A k : writers(segs, flushed, k) = {}
  BY <1>1 DEF writers
<1>3. {j \in Keys : writers(segs, flushed, j) # {}} = {}
  BY <1>2
<1> QED
  BY <1>3 DEF replayed, noRecords

\* Two WALs have the same batches beyond the checkpoint.
sameWAL(segs, segs2, flushed) ==
    /\ walEnd(segs2, flushed) = walEnd(segs, flushed)
    /\ \A n \in flushed + 1 .. walEnd(segs, flushed) : frameAt(segs2, n) = frameAt(segs, n)

LEMMA ReplayedSame ==
    ASSUME wellOrdered, NEW segs, NEW segs2, NEW flushed \in Nat, framesOK(segs, flushed),
           sameWAL(segs, segs2, flushed)
    PROVE  replayed(segs2, flushed) = replayed(segs, flushed)
<1>1. \A k : writers(segs2, flushed, k) = writers(segs, flushed, k)
  BY DEF sameWAL, writers
<1>2. \A k : writers(segs, flushed, k) # {} =>
                 frameAt(segs2, greatest(writers(segs, flushed, k)))
                   = frameAt(segs, greatest(writers(segs, flushed, k)))
  BY LastWriter DEF sameWAL
<1> DEFINE ks == {j \in Keys : writers(segs, flushed, j) # {}}
<1>3. ks = {j \in Keys : writers(segs2, flushed, j) # {}}
  BY <1>1
<1>4. \A k \in ks : frameAt(segs2, greatest(writers(segs2, flushed, k)))[k]
                      = frameAt(segs, greatest(writers(segs, flushed, k)))[k]
  BY <1>1, <1>2
<1> QED
  BY <1>3, <1>4 DEF replayed

\* The second WAL has one batch more.
oneMore(segs, segs2, flushed, b) ==
    /\ walEnd(segs2, flushed) = walEnd(segs, flushed) + 1
    /\ \A n \in flushed + 1 .. walEnd(segs, flushed) : frameAt(segs2, n) = frameAt(segs, n)
    /\ frameAt(segs2, walEnd(segs, flushed) + 1) = b

\* Recovery puts it on top of the others.
LEMMA ReplayedMore ==
    ASSUME wellOrdered, NEW segs, NEW segs2, NEW flushed \in Nat, NEW b \in Batches, framesOK(segs, flushed),
           oneMore(segs, segs2, flushed, b)
    PROVE  replayed(segs2, flushed) = over(replayed(segs, flushed), b)
<1> DEFINE e == walEnd(segs, flushed)
           W(k) == writers(segs, flushed, k)
           W2(k) == writers(segs2, flushed, k)
<1>1. /\ e \in Nat /\ flushed <= e /\ walEnd(segs2, flushed) = e + 1
      /\ \A n \in flushed + 1 .. e : frameAt(segs2, n) = frameAt(segs, n)
      /\ frameAt(segs2, e + 1) = b
  BY DEF framesOK, oneMore
<1>2. flushed + 1 .. e + 1 = (flushed + 1 .. e) \cup {e + 1} /\ e + 1 \notin flushed + 1 .. e
  BY <1>1, SMTT(20)
<1>3. ASSUME NEW k, k \in DOMAIN b
      PROVE  W2(k) # {} /\ frameAt(segs2, greatest(W2(k))) = b
  <2>1. e + 1 \in W2(k) /\ W2(k) \subseteq flushed + 1 .. e + 1
    BY <1>1, <1>2, <1>3 DEF writers
  <2>2. \A n \in flushed + 1 .. e + 1 : n \in Nat /\ n <= e + 1
    BY <1>1, SMTT(20)
  <2>3. greatest(W2(k)) = e + 1
    BY <2>1, <2>2, GreatestIs
  <2> QED
    BY <1>1, <2>1, <2>3
<1>4. ASSUME NEW k, k \notin DOMAIN b
      PROVE  W2(k) = W(k)
  BY <1>1, <1>2, <1>4 DEF writers
<1>5. ASSUME NEW k, k \notin DOMAIN b, W(k) # {}
      PROVE  frameAt(segs2, greatest(W2(k))) = frameAt(segs, greatest(W(k)))
  <2>1. W2(k) = W(k)
    BY <1>4, <1>5
  <2>2. greatest(W(k)) \in flushed + 1 .. e
    BY <1>5, LastWriter
  <2> QED
    BY <1>1, <2>1, <2>2
<1> DEFINE ks  == {j \in Keys : W(j) # {}}
           ks2 == {j \in Keys : W2(j) # {}}
<1>6. ks2 = ks \cup DOMAIN b
  <2>1. DOMAIN b \subseteq Keys
    BY BatchIsRecords
  <2>2. \A k : k \in DOMAIN b => W2(k) # {}
    BY <1>3
  <2>3. \A k : k \notin DOMAIN b => W2(k) = W(k)
    BY <1>4
  <2> HIDE DEF W, W2
  <2> QED
    BY <2>1, <2>2, <2>3
<1>7. \A k \in ks2 : frameAt(segs2, greatest(W2(k)))[k]
                       = IF k \in DOMAIN b THEN b[k] ELSE frameAt(segs, greatest(W(k)))[k]
  <2>1. \A k : k \in DOMAIN b => frameAt(segs2, greatest(W2(k))) = b
    BY <1>3
  <2>2. \A k : k \notin DOMAIN b /\ W(k) # {} =>
                   frameAt(segs2, greatest(W2(k))) = frameAt(segs, greatest(W(k)))
    BY <1>5
  <2> HIDE DEF W, W2
  <2> QED
    BY <1>6, <2>1, <2>2
<1>8. /\ DOMAIN replayed(segs, flushed) = ks
      /\ \A k \in ks : replayed(segs, flushed)[k] = frameAt(segs, greatest(W(k)))[k]
  BY DEF replayed
<1>9. replayed(segs2, flushed) = [k \in ks2 |-> frameAt(segs2, greatest(W2(k)))[k]]
  BY DEF replayed
<1> HIDE DEF ks, ks2, W, W2
<1>10. \A k \in ks \cup DOMAIN b :
          frameAt(segs2, greatest(W2(k)))[k]
            = IF k \in DOMAIN b THEN b[k] ELSE replayed(segs, flushed)[k]
  BY <1>6, <1>7, <1>8
<1> QED
  BY <1>6, <1>8, <1>9, <1>10 DEF over

\* The numbers of the segments of a chain.
LEMMA SegmentEnds ==
    ASSUME NEW segs \in Seq(Segment), segs # <<>>, chained(segs),
           lastSegment(segs).tail # "header"
    PROVE  /\ Len(segs) \in DOMAIN segs
           /\ \A i \in DOMAIN segs : /\ segs[i].first \in Nat \ {0} /\ segmentEnd(segs[i]) \in Nat
                                     /\ segs[i].first <= segmentEnd(segs[i]) + 1
                                     /\ segmentEnd(segs[i]) <= segmentEnd(lastSegment(segs))
                                     /\ segs[i].first <= segmentEnd(lastSegment(segs)) + 1
           /\ \A flushed : walEnd(segs, flushed) = segmentEnd(lastSegment(segs))
<1> DEFINE L == Len(segs)
<1>1. L \in Nat /\ L # 0 /\ DOMAIN segs = 1 .. L
  BY SegmentFields
<1>2. L \in DOMAIN segs /\ \A i \in DOMAIN segs : i \in Nat /\ i <= L
  BY <1>1, SMTT(20)
<1>3. \A i \in DOMAIN segs : segs[i].tail # "header"
  <2>1. \A i \in DOMAIN segs : i < L \/ i = L
    BY <1>1, SMTT(20)
  <2> QED
    BY <2>1 DEF chained, lastSegment
<1>4. \A i \in DOMAIN segs : /\ segs[i].first \in Nat /\ segs[i].first >= 1
                             /\ Len(segs[i].frames) \in Nat
  BY <1>3, SegmentFields DEF chained
<1>5. \A i \in DOMAIN segs : /\ segs[i].first \in Nat \ {0} /\ segmentEnd(segs[i]) \in Nat
                             /\ segs[i].first <= segmentEnd(segs[i]) + 1
  <2>1. \A a, b \in Nat : a >= 1 => a \in Nat \ {0} /\ a + b - 1 \in Nat /\ a <= (a + b - 1) + 1
    BY SMTT(20)
  <2> QED
    BY <1>4, <2>1 DEF segmentEnd
<1>6. \A i \in DOMAIN segs : i = L \/ segmentEnd(segs[i]) < segs[L].first
  <2>1. \A i \in DOMAIN segs : i < L \/ i = L
    BY <1>1, SMTT(20)
  <2> QED
    BY <1>2, <1>3, <2>1 DEF chained
<1>7. \A i \in DOMAIN segs : segmentEnd(segs[i]) <= segmentEnd(segs[L])
  <2>1. \A a, b, c \in Nat : a < b /\ b <= c + 1 => a <= c
    BY SMTT(20)
  <2>2. \A a \in Nat : a <= a
    BY SMTT(20)
  <2>3. \A a \in Nat \ {0} : a \in Nat
    BY SMTT(20)
  <2> QED
    BY <1>2, <1>5, <1>6, <2>1, <2>2, <2>3
<1>8. \A i \in DOMAIN segs : segs[i].first <= segmentEnd(segs[L]) + 1
  <2>1. \A a \in Nat \ {0}, b, c \in Nat : a <= b + 1 /\ b <= c => a <= c + 1
    BY SMTT(20)
  <2> QED
    BY <1>2, <1>5, <1>7, <2>1
<1>9. \A flushed : walEnd(segs, flushed) = segmentEnd(lastSegment(segs))
  BY DEF walEnd
<1> QED
  BY <1>2, <1>5, <1>7, <1>8, <1>9 DEF lastSegment

\* A batch found at the same place of the same segment is the same batch.
LEMMA FrameKept ==
    ASSUME NEW segs \in Seq(Segment), NEW segs2 \in Seq(Segment), chained(segs), chained(segs2),
           NEW i \in DOMAIN segs, NEW j \in DOMAIN segs2, NEW n \in Nat,
           holds(segs[i], n), holds(segs2[j], n), segs2[j].first = segs[i].first,
           segs2[j].frames[n - segs[i].first + 1] = segs[i].frames[n - segs[i].first + 1]
    PROVE  frameAt(segs2, n) = frameAt(segs, n)
<1>1. frameAt(segs, n) = segs[i].frames[n - segs[i].first + 1]
  BY FrameIn
<1>2. frameAt(segs2, n) = segs2[j].frames[n - segs2[j].first + 1]
  BY FrameIn
<1> QED
  BY <1>1, <1>2

LEMMA SegmentTypes ==
    /\ tornHeader \in Segment /\ tornHeader.tail = "header" 
    /\ \A n \in Nat : /\ segment(n) \in Segment /\ segment(n).tail = "clean" /\ segment(n).first = n
                      /\ segment(n).frames = <<>> /\ segmentEnd(segment(n + 1)) = n
<1>1. tornHeader \in Segment /\ tornHeader.tail = "header" 
  BY SMTT(20) DEF tornHeader, Segment
<1>2. \A n \in Nat : /\ segment(n) \in Segment /\ segment(n).tail = "clean" /\ segment(n).first = n
                     /\ segment(n).frames = <<>>
  BY SMTT(20) DEF segment, Segment
<1>3. \A n \in Nat : segmentEnd(segment(n + 1)) = n
  BY SMTT(20) DEF segment, segmentEnd
<1> QED
  BY <1>1, <1>2, <1>3

\* The WAL after a change that keeps its batches.
walKept(segs, segs2, flushed) ==
    segs2 \in Seq(Segment) /\ walOK(segs2, flushed) /\ sameWAL(segs, segs2, flushed)

\* A segment, or a torn header, after a full last segment adds nothing.
LEMMA AddSegment ==
    ASSUME NEW segs \in Seq(Segment), segs # <<>>, NEW flushed \in Nat, walOK(segs, flushed),
           lastSegment(segs).tail = "clean", lastSegment(segs).frames # <<>>,
           NEW s \in {tornHeader, segment(walEnd(segs, flushed) + 1)}
    PROVE  walKept(segs, Append(segs, s), flushed)
<1> DEFINE L == Len(segs)
           e == walEnd(segs, flushed)
           segs2 == Append(segs, s)
<1>1. chained(segs) /\ covers(segs, flushed)
  BY DEF walOK
<1>2. /\ L \in Nat /\ L # 0 /\ DOMAIN segs = 1 .. L /\ L \in DOMAIN segs
      /\ e = segmentEnd(segs[L]) /\ e \in Nat
      /\ \A i \in DOMAIN segs : segs[i].first \in Nat \ {0} /\ segmentEnd(segs[i]) <= e
                                /\ segmentEnd(segs[i]) \in Nat
  <2>1. lastSegment(segs).tail # "header"
    BY SMTT(20)
  <2>2. L \in Nat /\ L # 0 /\ DOMAIN segs = 1 .. L
    BY SegmentFields
  <2>3. /\ e = segmentEnd(segs[L]) /\ L \in DOMAIN segs
        /\ \A i \in DOMAIN segs : segs[i].first \in Nat \ {0} /\ segmentEnd(segs[i]) <= e
                                  /\ segmentEnd(segs[i]) \in Nat
    BY <1>1, <2>1, SegmentEnds DEF lastSegment
  <2> QED
    BY <2>2, <2>3
<1>3. s \in Segment /\ (s.tail # "header" => s = segment(e + 1))
  <2>1. e + 1 \in Nat
    BY <1>2, SMTT(20)
  <2> QED
    BY <2>1, SegmentTypes
<1>4. s.tail # "header" => s.first = e + 1 /\ segmentEnd(s) = e
  <2>1. e + 1 \in Nat
    BY <1>2, SMTT(20)
  <2> QED
    BY <1>2, <1>3, <2>1, SegmentTypes
<1>5. /\ segs2 \in Seq(Segment) /\ Len(segs2) = L + 1 /\ DOMAIN segs2 = 1 .. L + 1
      /\ segs2[L + 1] = s /\ \A i \in DOMAIN segs : segs2[i] = segs[i]
  BY <1>3, SMTT(20)
<1>6. /\ L + 1 \in DOMAIN segs2 /\ L + 1 \notin DOMAIN segs
      /\ \A i \in DOMAIN segs2 : i = L + 1 \/ i \in DOMAIN segs
      /\ \A i \in DOMAIN segs : /\ i \in DOMAIN segs2 /\ ~ (L + 1 < i)
                                /\ i < L \/ i = L
                                /\ i < L => i + 1 \in DOMAIN segs
      /\ L < L + 1 /\ ~ (L + 1 < L + 1)
  <2> HIDE DEF L, segs2
  <2> QED
    BY <1>2, <1>5, SMTT(20)
<1>7. \A i \in DOMAIN segs : i < L => i < L + 1
  <2> HIDE DEF L
  <2> QED
    BY <1>2, SMTT(20)
<1> HIDE DEF L, e, segs2
<1>8. chained(segs2)
  <2>1. \A i \in DOMAIN segs2 : segs2[i].tail # "header" => segs2[i].first >= 1
    <3>1. e + 1 >= 1
      BY <1>2, SMTT(20)
    <3> QED
      BY <1>1, <1>4, <1>5, <1>6, <3>1 DEF chained
  <2>2. \A i \in DOMAIN segs2 : i < L + 1 => segs2[i].tail = "clean" /\ segs2[i].frames # <<>>
    <3>1. segs[L].tail = "clean" /\ segs[L].frames # <<>>
      BY DEF lastSegment, L
    <3>2. \A i \in DOMAIN segs : i < L => segs[i].tail = "clean" /\ segs[i].frames # <<>>
      BY <1>1 DEF chained, L
    <3> QED
      BY <1>5, <1>6, <3>1, <3>2
  <2>3. \A i, j \in DOMAIN segs2 : i < j /\ segs2[j].tail # "header" =>
                                       segmentEnd(segs2[i]) < segs2[j].first
    <3>1. \A i \in DOMAIN segs : segmentEnd(segs[i]) < e + 1
      BY <1>2, SMTT(20)
    <3>2. \A i, j \in DOMAIN segs : i < j /\ segs[j].tail # "header" =>
                                        segmentEnd(segs[i]) < segs[j].first
      BY <1>1 DEF chained
    <3> QED
      <4> SUFFICES ASSUME NEW i \in DOMAIN segs2, NEW j \in DOMAIN segs2, i < j,
                          segs2[j].tail # "header"
                   PROVE  segmentEnd(segs2[i]) < segs2[j].first
        OBVIOUS
      <4>1. i \in DOMAIN segs
        BY <1>6
      <4>2. CASE j = L + 1
        BY <1>4, <1>5, <3>1, <4>1, <4>2
      <4>3. CASE j \in DOMAIN segs
        BY <1>5, <3>2, <4>1, <4>3
      <4> QED
        BY <1>6, <4>2, <4>3
  <2>4. \A i \in DOMAIN segs2 : i < L + 1 /\ segs2[i + 1].tail # "header" =>
                                    segs2[i + 1].first = segmentEnd(segs2[i]) + 1
    <3>1. \A i \in DOMAIN segs : i < L /\ segs[i + 1].tail # "header" =>
                                     segs[i + 1].first = segmentEnd(segs[i]) + 1
      BY <1>1 DEF chained, L
    <3> QED
      <4> SUFFICES ASSUME NEW i \in DOMAIN segs2, i < L + 1, segs2[i + 1].tail # "header"
                   PROVE  segs2[i + 1].first = segmentEnd(segs2[i]) + 1
        OBVIOUS
      <4>1. CASE i = L
        BY <1>2, <1>4, <1>5, <4>1
      <4>2. CASE i \in DOMAIN segs /\ i < L
        BY <1>5, <1>6, <3>1, <4>2
      <4> QED
        BY <1>6, <4>1, <4>2
  <2> QED
    BY <1>5, <2>1, <2>2, <2>3, <2>4 DEF chained
<1>9. walEnd(segs2, flushed) = e
  <2>1. segs2 # <<>> /\ Len(segs2) # 1 /\ Len(segs2) - 1 = L
    BY <1>2, <1>5, SMTT(20)
  <2>2. lastSegment(segs2) = s /\ segs2[Len(segs2) - 1] = segs[L]
    BY <1>2, <1>5, <2>1 DEF lastSegment
  <2> QED
    BY <1>2, <1>4, <1>5, <2>1, <2>2 DEF walEnd
<1>10. \A n \in flushed + 1 .. e : \E j \in DOMAIN segs : holds(segs[j], n)
  BY <1>1 DEF covers, e
<1>11. covers(segs2, flushed)
  <2>1. 1 \in DOMAIN segs
    BY <1>2, SMTT(20)
  <2> QED
    BY <1>1, <1>5, <1>6, <1>9, <1>10, <2>1 DEF covers, e
<1>12. \A n \in flushed + 1 .. e : frameAt(segs2, n) = frameAt(segs, n)
  <2>1. \A n \in flushed + 1 .. e : n \in Nat
    BY <1>2, SMTT(20)
  <2> SUFFICES ASSUME NEW n \in flushed + 1 .. e PROVE frameAt(segs2, n) = frameAt(segs, n)
    OBVIOUS
  <2>2. PICK j \in DOMAIN segs : holds(segs[j], n)
    BY <1>10
  <2>3. j \in DOMAIN segs2 /\ segs2[j] = segs[j]
    BY <1>5, <1>6
  <2> QED
    BY <1>1, <1>5, <1>8, <2>1, <2>2, <2>3, FrameKept
<1>13. sameWAL(segs, segs2, flushed)
  BY <1>9, <1>12 DEF sameWAL, e
<1> QED
  BY <1>5, <1>8, <1>11, <1>13 DEF walKept, walOK, segs2

\* The last segment is replaced by one with the same frames or more.
grown(s, s2) ==
    /\ s2 \in Segment /\ s2.first = s.first /\ s2.tail # "header"
    /\ Len(s.frames) <= Len(s2.frames)
    /\ \A i \in DOMAIN s.frames : s2.frames[i] = s.frames[i]

lastGrown(segs, segs2, flushed, s2) ==
    /\ segs2 \in Seq(Segment) /\ segs2 # <<>> /\ lastSegment(segs2) = s2
    /\ walOK(segs2, flushed) /\ walEnd(segs2, flushed) = segmentEnd(s2)
    /\ \A n \in flushed + 1 .. walEnd(segs, flushed) : frameAt(segs2, n) = frameAt(segs, n)

LEMMA GrowLast ==
    ASSUME NEW segs \in Seq(Segment), segs # <<>>, NEW flushed \in Nat, walOK(segs, flushed),
           lastSegment(segs).tail # "header", NEW s2, grown(lastSegment(segs), s2)
    PROVE  lastGrown(segs, [segs EXCEPT ![Len(segs)] = s2], flushed, s2)
<1> DEFINE segs2 == [segs EXCEPT ![Len(segs)] = s2]
           L == Len(segs)
           s == segs[L]
           e == segmentEnd(s)
<1>1. chained(segs) /\ covers(segs, flushed)
  BY DEF walOK
<1>2. L \in Nat /\ L # 0 /\ DOMAIN segs = 1 .. L
  BY SegmentFields
<1>3. /\ walEnd(segs, flushed) = e /\ L \in DOMAIN segs
      /\ \A i \in DOMAIN segs : segs[i].first \in Nat \ {0} /\ segmentEnd(segs[i]) \in Nat
                                /\ segs[i].first <= e + 1
  BY <1>1, SegmentEnds DEF lastSegment
<1>4. /\ segs2 \in Seq(Segment) /\ Len(segs2) = L /\ DOMAIN segs2 = DOMAIN segs
      /\ segs2[L] = s2 /\ \A i \in DOMAIN segs : i # L => segs2[i] = segs[i]
  <2>1. s2 \in Segment
    BY DEF grown
  <2> QED
    BY <1>2, <2>1, SMTT(20)
<1>5. grown(s, s2) /\ s.tail # "header"
  BY DEF lastSegment
<1>6. s2.first = s.first /\ s2.tail # "header" /\ e <= segmentEnd(s2)
      /\ segmentEnd(s2) \in Nat /\ s2.first \in Nat \ {0}
  <2>1. Len(s.frames) \in Nat /\ s.first \in Nat
    BY <1>3, SegmentFields
  <2>2. Len(s2.frames) \in Nat
    <3>1. Len(segs2[L].frames) \in Nat
      BY <1>3, <1>4, SegmentFields
    <3> QED
      BY <1>4, <3>1
  <2>3. s2.first = s.first /\ s2.tail # "header" /\ Len(s.frames) <= Len(s2.frames)
    BY <1>5 DEF grown
  <2>4. s.first \in Nat \ {0}
    BY <1>3
  <2>5. \A a \in Nat \ {0} : \A b, c \in Nat : b <= c => /\ a + b - 1 <= a + c - 1
                                                         /\ a + c - 1 \in Nat
    BY SMTT(20)
  <2> QED
    BY <2>1, <2>2, <2>3, <2>4, <2>5 DEF segmentEnd
<1>7. /\ \A i \in DOMAIN segs : i \in Nat /\ i <= L /\ (i < L \/ i = L)
      /\ \A i, j \in DOMAIN segs : i < j => i # L
      /\ \A i \in DOMAIN segs : i < L => i + 1 \in DOMAIN segs /\ i # L
  <2> HIDE DEF L
  <2> QED
    BY <1>2, SMTT(20)
<1> HIDE DEF L, s, e, segs2
<1>8. \A i \in DOMAIN segs : segs2[i].first = segs[i].first /\ (segs2[i].tail # "header" => segs[i].tail # "header")
  BY <1>4, <1>5, <1>6 DEF s
<1>9. chained(segs2)
  <2>1. \A i \in DOMAIN segs2 : segs2[i].tail # "header" => segs2[i].first >= 1
    <3>1. \A a \in Nat \ {0} : a >= 1
      BY SMTT(20)
    <3> QED
      BY <1>3, <1>4, <1>8, <3>1
  <2>2. \A i \in DOMAIN segs2 : i < Len(segs2) => segs2[i].tail = "clean" /\ segs2[i].frames # <<>>
    BY <1>1, <1>4, <1>7 DEF chained, L
  <2>3. \A i, j \in DOMAIN segs2 : i < j /\ segs2[j].tail # "header" =>
                                       segmentEnd(segs2[i]) < segs2[j].first
    BY <1>1, <1>4, <1>7, <1>8 DEF chained
  <2>4. \A i \in DOMAIN segs2 : i < Len(segs2) /\ segs2[i + 1].tail # "header" =>
                                    segs2[i + 1].first = segmentEnd(segs2[i]) + 1
    <3> SUFFICES ASSUME NEW i \in DOMAIN segs, i < L, segs2[i + 1].tail # "header"
                 PROVE  segs2[i + 1].first = segmentEnd(segs2[i]) + 1
      BY <1>4
    <3>1. i + 1 \in DOMAIN segs /\ segs2[i] = segs[i]
      BY <1>4, <1>7
    <3>2. segs2[i + 1].first = segs[i + 1].first /\ segs[i + 1].tail # "header"
      BY <1>8, <3>1
    <3>3. segs[i + 1].first = segmentEnd(segs[i]) + 1
      BY <1>1, <3>2 DEF chained, L
    <3> QED
      BY <3>1, <3>2, <3>3
  <2> QED
    BY <2>1, <2>2, <2>3, <2>4 DEF chained
<1>10. segs2 # <<>> /\ lastSegment(segs2) = s2
  <2>1. segs2 # <<>>
    BY <1>2, <1>4, SMTT(20)
  <2> QED
    BY <1>4, <2>1 DEF lastSegment
<1>11. walEnd(segs2, flushed) = segmentEnd(s2)
  BY <1>6, <1>10 DEF walEnd
<1>12. \A n \in flushed + 1 .. e :
          /\ \E j \in DOMAIN segs2 : holds(segs2[j], n)
          /\ frameAt(segs2, n) = frameAt(segs, n)
  <2> SUFFICES ASSUME NEW n \in flushed + 1 .. e
               PROVE  /\ \E j \in DOMAIN segs2 : holds(segs2[j], n)
                      /\ frameAt(segs2, n) = frameAt(segs, n)
    OBVIOUS
  <2>1. n \in Nat
    BY <1>3, SMTT(20)
  <2>2. PICK j \in DOMAIN segs : holds(segs[j], n)
    BY <1>1, <1>3 DEF covers
  <2>3. CASE j # L
    <3>1. j \in DOMAIN segs2 /\ segs2[j] = segs[j]
      BY <1>4, <2>3
    <3>2. frameAt(segs2, n) = frameAt(segs, n)
      BY <1>1, <1>4, <1>9, <2>1, <2>2, <3>1, FrameKept
    <3> QED
      BY <2>2, <3>1, <3>2
  <2>4. CASE j = L
    <3>1. n \in s.first .. e
      BY <2>2, <2>4 DEF holds, s, e
    <3>2. n \in s2.first .. segmentEnd(s2)
      <4>1. s.first \in Nat /\ e \in Nat
        BY <1>3 DEF s, e
      <4>2. \A a, b, c \in Nat : b <= c /\ n \in a .. b => n \in a .. c
        BY <2>1, SMTT(20)
      <4> QED
        BY <1>6, <3>1, <4>1, <4>2
    <3>3. L \in DOMAIN segs2 /\ holds(segs2[L], n) /\ segs2[L].first = segs[L].first
      BY <1>3, <1>4, <1>6, <3>2 DEF holds, s
    <3>4. n - segs[L].first + 1 \in DOMAIN segs[L].frames
      BY <1>1, <2>1, <2>2, <2>4, FrameIn
    <3>5. segs2[L].frames[n - segs[L].first + 1] = segs[L].frames[n - segs[L].first + 1]
      BY <1>4, <1>5, <3>4 DEF grown, s
    <3>6. frameAt(segs2, n) = frameAt(segs, n)
      <4>1. holds(segs[L], n)
        BY <2>2, <2>4
      <4> QED
        BY <1>1, <1>3, <1>4, <1>9, <2>1, <3>3, <3>5, <4>1, FrameKept, ZenonT(60)
    <3> QED
      BY <3>3, <3>6
  <2> QED
    BY <2>3, <2>4
<1>13. covers(segs2, flushed)
  <2>1. segs2[1].tail # "header" /\ segs2[1].first <= flushed + 1
    <3>1. 1 \in DOMAIN segs
      BY <1>2, SMTT(20)
    <3> QED
      BY <1>1, <1>4, <1>6, <1>8, <3>1 DEF covers
  <2>2. flushed <= segmentEnd(s2)
    <3>1. flushed <= e
      BY <1>1, <1>3 DEF covers
    <3> QED
      BY <1>3, <1>6, <3>1, SMTT(20) DEF e, s
  <2>3. ASSUME NEW n \in flushed + 1 .. segmentEnd(s2)
        PROVE  \E j \in DOMAIN segs2 : holds(segs2[j], n)
    <3>1. CASE n \in flushed + 1 .. e
      BY <1>12, <3>1
    <3>2. CASE n \in e + 1 .. segmentEnd(s2)
      <4>1. n \in s2.first .. segmentEnd(s2)
        BY <1>3, <1>6, <3>2, SMTT(20) DEF s, e
      <4> QED
        BY <1>3, <1>4, <1>6, <4>1 DEF holds
    <3>3. e \in Nat /\ segmentEnd(s2) \in Nat
      BY <1>3, <1>6 DEF e, s
    <3> QED
      BY <2>3, <3>1, <3>2, <3>3, SMTT(20)
  <2> QED
    BY <1>11, <2>1, <2>2, <2>3 DEF covers
<1> QED
  BY <1>3, <1>4, <1>9, <1>10, <1>11, <1>12, <1>13 DEF walOK, segs2, lastGrown

\* A segment with another tail or other frames.
LEMMA SegmentChange ==
    ASSUME NEW s \in Segment
    PROVE  /\ s.first \in Nat /\ s.frames \in Seq(Batches) /\ s.tail \in {"clean", "torn", "header"}
           /\ \A tail : [s EXCEPT !.tail = tail] = [first |-> s.first, frames |-> s.frames, tail |-> tail]
           /\ \A q : [s EXCEPT !.frames = q] = [first |-> s.first, frames |-> q, tail |-> s.tail]
<1>1. /\ s = [first |-> s.first, frames |-> s.frames, tail |-> s.tail]
      /\ s.first \in Nat /\ s.frames \in Seq(Batches) /\ s.tail \in {"clean", "torn", "header"}
  BY DEF Segment
<1> QED
  BY <1>1, SMTT(20)

\* A torn frame behind the last segment, or its removal, changes no batch.
LEMMA SetTail ==
    ASSUME NEW segs \in Seq(Segment), segs # <<>>, NEW flushed \in Nat, walOK(segs, flushed),
           lastSegment(segs).tail # "header", NEW tail \in {"clean", "torn"}
    PROVE  /\ walKept(segs, setTail(segs, tail), flushed)
           /\ setTail(segs, tail) # <<>> /\ lastSegment(setTail(segs, tail)).tail = tail
<1> DEFINE s  == lastSegment(segs)
           s2 == [s EXCEPT !.tail = tail]
<1>1. Len(segs) \in DOMAIN segs /\ walEnd(segs, flushed) = segmentEnd(s)
  BY SegmentEnds DEF walOK
<1>2. s \in Segment
  BY <1>1, SMTT(20) DEF lastSegment
<1>3. /\ s2 \in Segment /\ s2.first = s.first /\ s2.frames = s.frames /\ s2.tail = tail
      /\ Len(s.frames) \in Nat
  <2> HIDE DEF s
  <2>1. s2 = [first |-> s.first, frames |-> s.frames, tail |-> tail]
    BY <1>2, SegmentChange
  <2>2. s.first \in Nat /\ s.frames \in Seq(Batches)
    BY <1>2, SegmentChange
  <2>3. Len(s.frames) \in Nat
    BY <2>2, SMTT(20)
  <2>4. tail \in {"clean", "torn", "header"}
    BY SMTT(20)
  <2> QED
    BY <2>1, <2>2, <2>3, <2>4 DEF Segment
<1>4. s2.tail # "header" /\ Len(s.frames) <= Len(s2.frames)
  <2> HIDE DEF s, s2
  <2> QED
    BY <1>3, SMTT(20)
<1>5. grown(s, s2)
  BY <1>3, <1>4 DEF grown
<1>6. setTail(segs, tail) = [segs EXCEPT ![Len(segs)] = s2]
  BY <1>1 DEF setTail, lastSegment
<1>7. segmentEnd(s2) = segmentEnd(s)
  BY <1>3 DEF segmentEnd
<1> HIDE DEF s, s2
<1> DEFINE segs2 == setTail(segs, tail)
<1>8. /\ segs2 \in Seq(Segment) /\ segs2 # <<>> /\ lastSegment(segs2) = s2
      /\ walOK(segs2, flushed) /\ walEnd(segs2, flushed) = segmentEnd(s2)
      /\ \A n \in flushed + 1 .. walEnd(segs, flushed) : frameAt(segs2, n) = frameAt(segs, n)
  <2>1. lastGrown(segs, [segs EXCEPT ![Len(segs)] = s2], flushed, s2)
    BY <1>5, GrowLast DEF s
  <2>2. lastGrown(segs, segs2, flushed, s2)
    BY <1>6, <2>1
  <2> QED
    BY <2>2 DEF lastGrown
<1>9. walEnd(segs2, flushed) = walEnd(segs, flushed)
  BY <1>1, <1>7, <1>8
<1> QED
  BY <1>3, <1>8, <1>9 DEF walKept, sameWAL

\* A frame appended to a clean segment is the next batch.
LEMMA AppendOne ==
    ASSUME NEW segs \in Seq(Segment), segs # <<>>, NEW flushed \in Nat, walOK(segs, flushed),
           lastSegment(segs).tail = "clean", NEW b \in Batches
    PROVE  LET segs2 == appendFrame(segs, b) IN
           /\ segs2 \in Seq(Segment) /\ segs2 # <<>> /\ lastSegment(segs2).tail = "clean"
           /\ walOK(segs2, flushed) /\ oneMore(segs, segs2, flushed, b)
<1> DEFINE s  == lastSegment(segs)
           s2 == [s EXCEPT !.frames = Append(@, b)]
           e  == walEnd(segs, flushed)
           n  == Len(s.frames)
<1>1. s.tail # "header"
  BY SMTT(20) DEF lastSegment
<1>2. /\ Len(segs) \in DOMAIN segs /\ e = segmentEnd(s) /\ e \in Nat
      /\ s.first \in Nat \ {0} /\ s.first <= e + 1
  BY <1>1, SegmentEnds DEF walOK, lastSegment
<1>3. s \in Segment
  BY <1>2, SMTT(20) DEF lastSegment
<1>4. s.frames \in Seq(Batches) /\ s2 = [first |-> s.first, frames |-> Append(s.frames, b), tail |-> s.tail]
      /\ s.tail \in {"clean", "torn", "header"}
  <2> HIDE DEF s
  <2> QED
    BY <1>3, SegmentChange
<1> HIDE DEF s, s2
<1>5. /\ n \in Nat /\ Append(s.frames, b) \in Seq(Batches) /\ Len(Append(s.frames, b)) = n + 1
      /\ n <= n + 1 /\ Append(s.frames, b)[n + 1] = b
      /\ \A i \in DOMAIN s.frames : Append(s.frames, b)[i] = s.frames[i]
  BY <1>4, SMTT(20)
<1>6. s2 \in Segment /\ s2.first = s.first /\ s2.frames = Append(s.frames, b) /\ s2.tail = s.tail
  <2>1. s.first \in Nat
    BY <1>2, SMTT(20)
  <2> QED
    BY <1>4, <1>5, <2>1 DEF Segment
<1>7. grown(s, s2)
  BY <1>1, <1>5, <1>6 DEF grown
<1>8. segmentEnd(s2) = e + 1
  <2>1. segmentEnd(s2) = s.first + (n + 1) - 1 /\ e = s.first + n - 1
    BY <1>2, <1>5, <1>6 DEF segmentEnd
  <2> QED
    BY <1>2, <1>5, <2>1, SMTT(15)
<1>9. appendFrame(segs, b) = [segs EXCEPT ![Len(segs)] = s2]
  BY <1>2 DEF appendFrame, lastSegment, s, s2
<1> DEFINE segs2 == appendFrame(segs, b)
<1>10. /\ segs2 \in Seq(Segment) /\ segs2 # <<>> /\ lastSegment(segs2) = s2
       /\ walOK(segs2, flushed) /\ walEnd(segs2, flushed) = e + 1
       /\ \A x \in flushed + 1 .. e : frameAt(segs2, x) = frameAt(segs, x)
  <2>1. lastGrown(segs, [segs EXCEPT ![Len(segs)] = s2], flushed, s2)
    BY <1>1, <1>7, GrowLast DEF s
  <2>2. lastGrown(segs, segs2, flushed, s2)
    BY <1>9, <2>1
  <2> QED
    BY <1>8, <2>2 DEF lastGrown
<1>11. frameAt(segs2, e + 1) = b
  <2> HIDE DEF segs2
  <2>1. lastSegment(segs2).tail # "header" /\ chained(segs2)
    BY <1>1, <1>6, <1>10 DEF walOK
  <2>2. Len(segs2) \in DOMAIN segs2 /\ segs2[Len(segs2)] = s2
    BY <1>10, <2>1, SegmentEnds DEF lastSegment
  <2>3. e + 1 \in s2.first .. segmentEnd(s2) /\ e + 1 \in Nat
    BY <1>2, <1>6, <1>8, SMTT(20)
  <2>4. holds(s2, e + 1)
    BY <1>1, <1>6, <2>3 DEF holds
  <2>5. frameAt(segs2, e + 1) = s2.frames[(e + 1) - s2.first + 1]
    <3>1. PICK x \in Nat : x = e + 1
      BY <2>3
    <3>2. PICK j \in DOMAIN segs2 : segs2[j] = s2
      BY <2>2
    <3>3. holds(segs2[j], x)
      BY <2>4, <3>1, <3>2
    <3>4. frameAt(segs2, x) = segs2[j].frames[x - segs2[j].first + 1]
      BY <1>10, <2>1, <3>3, FrameIn
    <3> QED
      BY <3>1, <3>2, <3>4
  <2>6. (e + 1) - s.first + 1 = n + 1
    <3>1. e = s.first + n - 1
      BY <1>2 DEF segmentEnd
    <3> HIDE DEF e, n
    <3> QED
      BY <1>2, <1>5, <3>1, SMTT(15)
  <2> QED
    BY <1>5, <1>6, <2>5, <2>6
<1> QED
  BY <1>6, <1>10, <1>11 DEF oneMore, s

\* Without its torn last segment the WAL holds the same batches.
LEMMA DropTorn ==
    ASSUME NEW segs \in Seq(Segment), segs # <<>>, NEW flushed \in Nat, walOK(segs, flushed),
           lastSegment(segs).tail = "header"
    PROVE  /\ walKept(segs, dropLast(segs), flushed)
           /\ dropLast(segs) # <<>> /\ lastSegment(dropLast(segs)).tail = "clean"
<1> DEFINE L == Len(segs)
           segs2 == dropLast(segs)
           e == walEnd(segs, flushed)
<1>1. chained(segs) /\ covers(segs, flushed)
  BY DEF walOK
<1>2. L \in Nat /\ L # 0 /\ DOMAIN segs = 1 .. L
  BY SegmentFields
<1>3. segs[L].tail = "header" /\ L # 1
  BY <1>1 DEF covers, lastSegment
<1>4. L - 1 \in Nat /\ L - 1 # 0 /\ L - 1 \in DOMAIN segs /\ L - 1 < L /\ 1 \in DOMAIN segs
  <2> HIDE DEF L
  <2> QED
    BY <1>2, <1>3, SMTT(20)
<1>5. /\ segs2 \in Seq(Segment) /\ Len(segs2) = L - 1 /\ DOMAIN segs2 = 1 .. L - 1
      /\ \A i \in 1 .. L - 1 : segs2[i] = segs[i]
  BY <1>2, <1>4, SMTT(20) DEF dropLast
<1>6. /\ \A i \in DOMAIN segs2 : i \in DOMAIN segs /\ i < L /\ segs2[i] = segs[i]
      /\ \A i \in DOMAIN segs : i # L => i \in DOMAIN segs2
      /\ \A i \in DOMAIN segs2 : i < L - 1 => i + 1 \in DOMAIN segs2
      /\ L - 1 \in DOMAIN segs2 /\ 1 \in DOMAIN segs2
  <2> HIDE DEF L, segs2
  <2> QED
    BY <1>2, <1>4, <1>5, SMTT(20)
<1> HIDE DEF L, segs2, e
<1>7. \A i \in DOMAIN segs : i < L => segs[i].tail = "clean" /\ segs[i].frames # <<>>
  BY <1>1 DEF chained, L
<1>8. chained(segs2)
  <2>1. \A i \in DOMAIN segs2 : segs2[i].tail # "header" => segs2[i].first >= 1
    BY <1>1, <1>6 DEF chained
  <2>2. \A i \in DOMAIN segs2 : segs2[i].tail = "clean" /\ segs2[i].frames # <<>>
    BY <1>6, <1>7
  <2>3. \A i, j \in DOMAIN segs2 : i < j /\ segs2[j].tail # "header" =>
                                       segmentEnd(segs2[i]) < segs2[j].first
    BY <1>1, <1>6 DEF chained
  <2>4. \A i \in DOMAIN segs2 : i < L - 1 /\ segs2[i + 1].tail # "header" =>
                                    segs2[i + 1].first = segmentEnd(segs2[i]) + 1
    BY <1>1, <1>6 DEF chained, L
  <2> QED
    BY <1>5, <2>1, <2>2, <2>3, <2>4 DEF chained
<1>9. segs2 # <<>> /\ lastSegment(segs2) = segs[L - 1] /\ lastSegment(segs2).tail = "clean"
  <2>1. segs2 # <<>>
    BY <1>4, <1>5, SMTT(20)
  <2> QED
    BY <1>4, <1>5, <1>6, <1>7, <2>1 DEF lastSegment
<1>10. walEnd(segs2, flushed) = e
  <2>1. "clean" # "header"
    BY SMTT(20)
  <2>2. walEnd(segs2, flushed) = segmentEnd(segs[L - 1])
    BY <1>9, <2>1 DEF walEnd
  <2>3. e = segmentEnd(segs[L - 1])
    BY <1>3 DEF walEnd, lastSegment, L, e
  <2> QED
    BY <2>2, <2>3
<1>11. \A n \in flushed + 1 .. e : \E j \in DOMAIN segs2 : holds(segs2[j], n) /\ holds(segs[j], n)
  BY <1>1, <1>3, <1>6 DEF covers, holds, e
<1>12. covers(segs2, flushed)
  BY <1>1, <1>6, <1>10, <1>11 DEF covers, e
<1>13. \A n \in flushed + 1 .. e : frameAt(segs2, n) = frameAt(segs, n)
  <2> SUFFICES ASSUME NEW n \in flushed + 1 .. e PROVE frameAt(segs2, n) = frameAt(segs, n)
    OBVIOUS
  <2>1. n \in Nat
    <3>1. e \in Nat
      BY WalFrames DEF framesOK, e
    <3> QED
      BY <3>1, SMTT(20)
  <2>2. PICK j \in DOMAIN segs2 : holds(segs2[j], n) /\ holds(segs[j], n)
    BY <1>11
  <2>3. j \in DOMAIN segs /\ segs2[j] = segs[j]
    BY <1>6
  <2> QED
    BY <1>1, <1>5, <1>8, <2>1, <2>2, <2>3, FrameKept
<1> QED
  BY <1>5, <1>8, <1>9, <1>10, <1>12, <1>13 DEF walKept, walOK, sameWAL, segs2, e

\* The first segment of a fresh WAL.
LEMMA FirstSegment ==
    ASSUME NEW flushed \in Nat
    PROVE  /\ walKept(<<>>, <<segment(flushed + 1)>>, flushed)
           /\ <<segment(flushed + 1)>> # <<>>
           /\ lastSegment(<<segment(flushed + 1)>>).tail = "clean"
<1> DEFINE s == segment(flushed + 1)
           segs2 == <<s>>
<1>1. flushed + 1 \in Nat /\ flushed + 1 >= 1 /\ flushed + 1 <= flushed + 1 /\ flushed <= flushed
      /\ flushed + 1 .. flushed = {}
  BY SMTT(20)
<1>2. s \in Segment /\ s.tail = "clean" /\ s.first = flushed + 1 /\ segmentEnd(s) = flushed
  BY <1>1, SegmentTypes
<1> HIDE DEF s
<1>3. segs2 \in Seq(Segment) /\ Len(segs2) = 1 /\ DOMAIN segs2 = {1} /\ segs2[1] = s /\ segs2 # <<>>
  BY <1>2, SMTT(20)
<1>4. ~ (1 < 1) /\ "clean" # "header"
  BY SMTT(20)
<1> HIDE DEF segs2
<1>5. chained(segs2)
  BY <1>1, <1>2, <1>3, <1>4 DEF chained
<1>6. lastSegment(segs2) = s
  BY <1>3 DEF lastSegment
<1>7. walEnd(segs2, flushed) = flushed /\ walEnd(<<>>, flushed) = flushed
  BY <1>2, <1>3, <1>4, <1>6 DEF walEnd
<1>8. covers(segs2, flushed) /\ sameWAL(<<>>, segs2, flushed)
  BY <1>1, <1>2, <1>3, <1>4, <1>7 DEF covers, sameWAL
<1> QED
  BY <1>2, <1>3, <1>5, <1>6, <1>8 DEF walKept, walOK, segs2, s

\* openWAL keeps the batches it replays and leaves a clean segment.
LEMMA Repaired ==
    ASSUME NEW segs \in Seq(Segment), NEW flushed \in Nat, walOK(segs, flushed)
    PROVE  /\ walKept(segs, repaired(segs, flushed), flushed)
           /\ repaired(segs, flushed) # <<>> /\ lastSegment(repaired(segs, flushed)).tail = "clean"
<1>1. CASE segs = <<>>
  <2>1. repaired(segs, flushed) = <<segment(flushed + 1)>>
    BY <1>1 DEF repaired
  <2> QED
    BY <1>1, <2>1, FirstSegment
<1>2. CASE segs # <<>> /\ lastSegment(segs).tail = "header"
  <2>1. repaired(segs, flushed) = dropLast(segs)
    BY <1>2 DEF repaired
  <2> QED
    BY <1>2, <2>1, DropTorn
<1>3. CASE segs # <<>> /\ lastSegment(segs).tail # "header"
  <2>1. repaired(segs, flushed) = setTail(segs, "clean")
    BY <1>3 DEF repaired
  <2>2. "clean" \in {"clean", "torn"}
    BY SMTT(20)
  <2>3. walKept(segs, setTail(segs, "clean"), flushed) /\ setTail(segs, "clean") # <<>>
        /\ lastSegment(setTail(segs, "clean")).tail = "clean"
    BY <1>3, <2>2, SetTail
  <2> QED
    BY <2>1, <2>3
<1> QED
  BY <1>1, <1>2, <1>3

\* removeBefore removes no batch beyond a checkpoint that holds all of them.
LEMMA TrimFirst ==
    ASSUME NEW segs \in Seq(Segment), Len(segs) > 1, NEW flushed \in Nat, walOK(segs, flushed),
           lastSegment(segs).tail = "clean", walEnd(segs, flushed) = flushed
    PROVE  /\ walKept(segs, Tail(segs), flushed)
           /\ Tail(segs) # <<>> /\ lastSegment(Tail(segs)).tail = "clean"
<1> DEFINE L == Len(segs)
           segs2 == Tail(segs)
<1>1. L \in Nat /\ L > 1 /\ DOMAIN segs = 1 .. L /\ segs # <<>>
  BY SegmentFields, SMTT(20)
<1>2. chained(segs) /\ covers(segs, flushed)
  BY <1>1 DEF walOK
<1>3. /\ segs2 \in Seq(Segment) /\ Len(segs2) = L - 1 /\ DOMAIN segs2 = 1 .. L - 1
      /\ \A i \in 1 .. L - 1 : segs2[i] = segs[i + 1]
  BY <1>1, SMTT(20)
<1>4. /\ \A i \in DOMAIN segs2 : /\ i + 1 \in DOMAIN segs /\ segs2[i] = segs[i + 1]
                                 /\ i < L - 1 => /\ i + 1 < L /\ i + 1 \in DOMAIN segs2
      /\ \A i, j \in DOMAIN segs2 : i < j => i + 1 < j + 1
      /\ L - 1 \in DOMAIN segs2 /\ (L - 1) + 1 = L /\ 1 \in DOMAIN segs2 /\ 2 \in DOMAIN segs
      /\ 2 < L \/ 2 = L
  <2> HIDE DEF L, segs2
  <2> QED
    BY <1>1, <1>3, SMTT(20)
<1> HIDE DEF L, segs2
<1>5. \A i \in DOMAIN segs : i < L => segs[i].tail = "clean" /\ segs[i].frames # <<>>
  BY <1>2 DEF chained, L
<1>6. chained(segs2)
  <2>1. \A i \in DOMAIN segs2 : segs2[i].tail # "header" => segs2[i].first >= 1
    BY <1>2, <1>4, ZenonT(60) DEF chained
  <2>2. \A i \in DOMAIN segs2 : i < L - 1 => segs2[i].tail = "clean" /\ segs2[i].frames # <<>>
    BY <1>4, <1>5
  <2>3. \A i, j \in DOMAIN segs2 : i < j /\ segs2[j].tail # "header" =>
                                       segmentEnd(segs2[i]) < segs2[j].first
    <3> SUFFICES ASSUME NEW i \in DOMAIN segs2, NEW j \in DOMAIN segs2, i < j,
                        segs2[j].tail # "header"
                 PROVE  segmentEnd(segs2[i]) < segs2[j].first
      OBVIOUS
    <3>1. i + 1 \in DOMAIN segs /\ j + 1 \in DOMAIN segs /\ i + 1 < j + 1
      BY <1>4
    <3>2. segs2[i] = segs[i + 1] /\ segs2[j] = segs[j + 1]
      BY <1>4
    <3>3. segmentEnd(segs[i + 1]) < segs[j + 1].first
      BY <1>2, <3>1, <3>2 DEF chained
    <3> QED
      BY <3>2, <3>3
  <2>4. \A i \in DOMAIN segs2 : i < L - 1 /\ segs2[i + 1].tail # "header" =>
                                    segs2[i + 1].first = segmentEnd(segs2[i]) + 1
    <3> SUFFICES ASSUME NEW i \in DOMAIN segs2, i < L - 1, segs2[i + 1].tail # "header"
                 PROVE  segs2[i + 1].first = segmentEnd(segs2[i]) + 1
      OBVIOUS
    <3>1. i + 1 \in DOMAIN segs /\ i + 1 < L /\ i + 1 \in DOMAIN segs2
      BY <1>4
    <3>2. segs2[i] = segs[i + 1] /\ segs2[i + 1] = segs[(i + 1) + 1]
      BY <1>4, <3>1
    <3>3. segs[(i + 1) + 1].first = segmentEnd(segs[i + 1]) + 1
      BY <1>2, <3>1, <3>2 DEF chained, L
    <3> QED
      BY <3>2, <3>3
  <2> QED
    BY <1>3, <2>1, <2>2, <2>3, <2>4 DEF chained
<1>7. segs2 # <<>> /\ lastSegment(segs2) = lastSegment(segs)
  <2>1. segs2 # <<>>
    BY <1>1, <1>3, SMTT(20)
  <2> QED
    BY <1>3, <1>4, <2>1 DEF lastSegment, L
<1>8. lastSegment(segs).tail # "header"
  BY SMTT(20)
<1>9. walEnd(segs2, flushed) = flushed
  BY <1>1, <1>7, <1>8 DEF walEnd
<1>10. segs[2].first <= flushed + 1 /\ segs[2].tail # "header"
  <2>1. \A i \in DOMAIN segs : segs[i].first <= segmentEnd(lastSegment(segs)) + 1
    BY <1>1, <1>2, <1>8, SegmentEnds
  <2>2. segmentEnd(lastSegment(segs)) = flushed
    BY <1>1, <1>8 DEF walEnd
  <2>3. segs[2].tail = "clean"
    BY <1>4, <1>5 DEF lastSegment, L
  <2>4. "clean" # "header"
    BY SMTT(20)
  <2> QED
    BY <1>4, <2>1, <2>2, <2>3, <2>4
<1>11. flushed <= flushed /\ flushed + 1 .. flushed = {} /\ 1 + 1 = 2
  BY SMTT(20)
<1>12. covers(segs2, flushed) /\ sameWAL(segs, segs2, flushed)
  <2>1. segs2[1] = segs[2]
    BY <1>4, <1>11
  <2> QED
    BY <1>9, <1>10, <1>11, <2>1 DEF covers, sameWAL
<1> QED
  BY <1>3, <1>6, <1>7, <1>12 DEF walKept, walOK, segs2

-----------------------------------------------------------------------------
(***************************************************************************)
(* Reads.                                                                  *)
(***************************************************************************)

\* A nonempty set of numbers has a least one.
LEMMA MinExists ==
    ASSUME wellOrdered, NEW S \in SUBSET Nat, S # {}
    PROVE  \E m \in S : \A t \in S : m <= t
  BY DEF wellOrdered

LEMMA FilesFields ==
    ASSUME NEW files \in Files
    PROVE  /\ files.l0 \in Seq(Nat \ {0}) /\ files.l1 \in Seq(Nat \ {0})
           /\ files = [l0 |-> files.l0, l1 |-> files.l1]
           /\ DOMAIN files.l0 \in SUBSET Nat /\ bounded(DOMAIN files.l0)
           /\ DOMAIN files.l1 \in SUBSET Nat
<1>1. /\ files.l0 \in Seq(Nat \ {0}) /\ files.l1 \in Seq(Nat \ {0})
      /\ files = [l0 |-> files.l0, l1 |-> files.l1]
  BY DEF Files
<1>2. \A q \in Seq(Nat \ {0}) : /\ DOMAIN q \in SUBSET Nat
                                /\ Len(q) + 1 \in Nat /\ \A i \in DOMAIN q : i < Len(q) + 1
  BY SMTT(20)
<1> QED
  BY <1>1, <1>2 DEF bounded, below

\* Every table holds records of keys, and keys are numbers.
LEMMA TableRecords ==
    ASSUME NEW ssts, isTables(ssts), NEW id
    PROVE  recordsOf(ssts, id) \in Records /\ DOMAIN recordsOf(ssts, id) \subseteq Nat
<1>1. recordsOf(ssts, id) \in Records
  BY NoRecordsType DEF isTables, recordsOf
<1>2. DOMAIN recordsOf(ssts, id) \subseteq Keys /\ Keys \subseteq Nat
  BY <1>1, RecordsFields, EngineAssumption
<1> QED
  BY <1>1, <1>2

\* Where a read looks: the L1 tables whose range holds key k.
spanning(ssts, ids, k) == {i \in DOMAIN ids : inRange(recordsOf(ssts, ids[i]), k)}

\* Where a read of key k ends.
readFrom(ssts, active, files, k, h, s, value) ==
    /\ k \in DOMAIN active => value = found(active, k)
    /\ k \notin DOMAIN active /\ h # {} =>
          greatest(h) \in h /\ value = found(recordsOf(ssts, files.l0[greatest(h)]), k)
    /\ k \notin DOMAIN active /\ h = {} /\ s # {} =>
          \E i \in s : value = found(recordsOf(ssts, files.l1[i]), k)
    /\ k \notin DOMAIN active /\ h = {} /\ s = {} => value = "absent"

LEMMA LookupCases ==
    ASSUME wellOrdered, NEW ssts, NEW active, NEW files \in Files, NEW k
    PROVE  readFrom(ssts, active, files, k, holders(ssts, files.l0, k),
                    spanning(ssts, files.l1, k), lookup(ssts, active, files, k))
<1> DEFINE h == holders(ssts, files.l0, k)
           s == spanning(ssts, files.l1, k)
           m == CHOOSE i \in s : \A j \in s : i <= j
<1>1. h \in SUBSET Nat /\ bounded(h) /\ s \in SUBSET Nat
  <2>1. h \subseteq DOMAIN files.l0 /\ s \subseteq DOMAIN files.l1
    BY DEF holders, spanning
  <2> HIDE DEF h, s
  <2> QED
    BY <2>1, FilesFields DEF bounded, below
<1>2. h # {} => greatest(h) \in h
  <2> HIDE DEF h
  <2> QED
    BY <1>1, Greatest
<1>3. s # {} => m \in s
  <2> HIDE DEF s
  <2> QED
    BY <1>1, MinExists
<1>4. lookup(ssts, active, files, k)
        = IF k \in DOMAIN active THEN found(active, k)
          ELSE IF h # {} THEN found(recordsOf(ssts, files.l0[greatest(h)]), k)
          ELSE IF s # {} THEN found(recordsOf(ssts, files.l1[m]), k)
          ELSE "absent"
  BY DEF lookup, spanning
<1> HIDE DEF h, s, m
<1> QED
  BY <1>2, <1>3, <1>4 DEF h, s, readFrom

\* In ordered tables one range at most holds a key.
LEMMA OneSpans ==
    ASSUME NEW ssts, isTables(ssts), NEW ids \in Seq(Nat \ {0}), ordered(ssts, ids), NEW k \in Nat,
           NEW i \in spanning(ssts, ids, k), NEW j \in spanning(ssts, ids, k)
    PROVE  i = j
<1>1. ASSUME NEW p \in spanning(ssts, ids, k), NEW q \in spanning(ssts, ids, k), p < q
      PROVE  FALSE
  <2>1. PICK a \in DOMAIN recordsOf(ssts, ids[p]) : k <= a
    BY DEF spanning, inRange
  <2>2. PICK b \in DOMAIN recordsOf(ssts, ids[q]) : b <= k
    BY DEF spanning, inRange
  <2>3. a < b
    BY <1>1 DEF ordered, spanning
  <2>4. a \in Nat /\ b \in Nat
    BY TableRecords
  <2> QED
    BY <2>1, <2>2, <2>3, <2>4, SMTT(20)
<1>2. i \in Nat /\ j \in Nat
  <2>1. i \in DOMAIN ids /\ j \in DOMAIN ids
    BY DEF spanning
  <2> QED
    BY <2>1, SMTT(20)
<1>3. ~ (i < j) /\ ~ (j < i)
  BY <1>1
<1> QED
  BY <1>2, <1>3, SMTT(20)

\* The tables of these lists hold the same in both directories.
sameTables(ssts, ssts2, files) ==
    \A id \in idsOf(files) : recordsOf(ssts2, id) = recordsOf(ssts, id)

least(S) == CHOOSE i \in S : \A j \in S : i <= j

\* A read, given the tables that hold the key or span it.
scan(ssts, active, files, k, h, s) ==
    IF k \in DOMAIN active THEN found(active, k)
    ELSE IF h # {} THEN found(recordsOf(ssts, files.l0[greatest(h)]), k)
    ELSE IF s # {}
    THEN found(recordsOf(ssts, files.l1[least(s)]), k)
    ELSE "absent"

\* A read depends on the listed tables only.
LEMMA ReadAllSame ==
    ASSUME wellOrdered, NEW ssts, NEW ssts2, NEW active, NEW files \in Files, sameTables(ssts, ssts2, files)
    PROVE  readAll(ssts2, active, files) = readAll(ssts, active, files)
<1> SUFFICES ASSUME NEW k \in Keys
             PROVE  lookup(ssts2, active, files, k) = lookup(ssts, active, files, k)
  BY DEF readAll
<1> DEFINE h == holders(ssts, files.l0, k)
           s == spanning(ssts, files.l1, k)
<1>1. /\ \A i \in DOMAIN files.l0 : recordsOf(ssts2, files.l0[i]) = recordsOf(ssts, files.l0[i])
      /\ \A i \in DOMAIN files.l1 : recordsOf(ssts2, files.l1[i]) = recordsOf(ssts, files.l1[i])
  BY DEF sameTables, idsOf
<1>2. holders(ssts2, files.l0, k) = h /\ spanning(ssts2, files.l1, k) = s
  BY <1>1 DEF holders, spanning
<1>3. h \subseteq DOMAIN files.l0 /\ s \subseteq DOMAIN files.l1
  BY DEF holders, spanning
<1>4. h \in SUBSET Nat /\ bounded(h) /\ s \in SUBSET Nat
  <2> HIDE DEF h, s
  <2> QED
    BY <1>3, FilesFields DEF bounded, below
<1>5. h # {} => greatest(h) \in DOMAIN files.l0
  <2> HIDE DEF h
  <2> QED
    BY <1>3, <1>4, Greatest
<1>6. s # {} => least(s) \in DOMAIN files.l1
  <2> HIDE DEF s
  <2> QED
    BY <1>3, <1>4, MinExists DEF least
<1>7. /\ h # {} => recordsOf(ssts2, files.l0[greatest(h)]) = recordsOf(ssts, files.l0[greatest(h)])
      /\ s # {} => recordsOf(ssts2, files.l1[least(s)]) = recordsOf(ssts, files.l1[least(s)])
  <2> HIDE DEF h, s
  <2> QED
    BY <1>1, <1>5, <1>6
<1>8. /\ lookup(ssts, active, files, k) = scan(ssts, active, files, k, h, s)
      /\ lookup(ssts2, active, files, k)
           = scan(ssts2, active, files, k, holders(ssts2, files.l0, k), spanning(ssts2, files.l1, k))
  BY DEF lookup, spanning, scan, least
<1>9. scan(ssts2, active, files, k, h, s) = scan(ssts, active, files, k, h, s)
  <2> HIDE DEF h, s
  <2>1. CASE k \in DOMAIN active
    BY <2>1 DEF scan
  <2>2. CASE k \notin DOMAIN active /\ h # {}
    BY <1>7, <2>2 DEF scan
  <2>3. CASE k \notin DOMAIN active /\ h = {} /\ s # {}
    BY <1>7, <2>3 DEF scan
  <2>4. CASE k \notin DOMAIN active /\ h = {} /\ s = {}
    BY <2>4 DEF scan
  <2> QED
    BY <2>1, <2>2, <2>3, <2>4
<1> HIDE DEF h, s
<1> QED
  BY <1>2, <1>8, <1>9

\* Where the record of key k in a merge comes from.
mergedFrom(ssts, files, k) ==
    LET h == holders(ssts, files.l0, k)
        g == holders(ssts, files.l1, k)
    IN  /\ k \in DOMAIN merged(ssts, files) <=> h # {} \/ g # {}
        /\ h # {} => /\ greatest(h) \in h
                     /\ merged(ssts, files)[k] = recordsOf(ssts, files.l0[greatest(h)])[k]
        /\ h = {} /\ g # {} => \E i \in g : merged(ssts, files)[k] = recordsOf(ssts, files.l1[i])[k]

LEMMA MergedCases ==
    ASSUME wellOrdered, NEW ssts, NEW files \in Files, NEW k \in Keys
    PROVE  mergedFrom(ssts, files, k)
<1> DEFINE h == holders(ssts, files.l0, k)
           g == holders(ssts, files.l1, k)
           m == CHOOSE i \in g : TRUE
<1>1. h \subseteq DOMAIN files.l0
  BY DEF holders
<1>2. h # {} => greatest(h) \in h
  <2> HIDE DEF h
  <2>1. h \in SUBSET Nat /\ bounded(h)
    BY <1>1, FilesFields DEF bounded, below
  <2> QED
    BY <2>1, Greatest
<1>3. g # {} => m \in g
  <2> HIDE DEF g
  <2> QED
    OBVIOUS
<1>4. /\ k \in DOMAIN merged(ssts, files) <=> h \cup g # {}
      /\ h \cup g # {} =>
            merged(ssts, files)[k]
              = recordsOf(ssts, IF h # {} THEN files.l0[greatest(h)] ELSE files.l1[m])[k]
  BY DEF merged
<1>5. mergedFrom(ssts, files, k) <=>
        /\ k \in DOMAIN merged(ssts, files) <=> h # {} \/ g # {}
        /\ h # {} => /\ greatest(h) \in h
                     /\ merged(ssts, files)[k] = recordsOf(ssts, files.l0[greatest(h)])[k]
        /\ h = {} /\ g # {} => \E i \in g : merged(ssts, files)[k] = recordsOf(ssts, files.l1[i])[k]
  BY DEF mergedFrom
<1> HIDE DEF h, g, m
<1> QED
  BY <1>2, <1>3, <1>4, <1>5

\* A merge is a set of records of keys.
LEMMA MergedType ==
    ASSUME wellOrdered, NEW ssts, isTables(ssts), NEW files \in Files
    PROVE  merged(ssts, files) \in Records
<1> DEFINE r == merged(ssts, files)
           ks == {j \in Keys : holders(ssts, files.l0, j) \cup holders(ssts, files.l1, j) # {}}
<1>1. ks \in SUBSET Keys /\ r = [k \in ks |-> r[k]]
  <2>1. ks \in SUBSET Keys
    OBVIOUS
  <2> DEFINE e(k) == recordsOf(ssts, IF holders(ssts, files.l0, k) # {}
                                     THEN files.l0[greatest(holders(ssts, files.l0, k))]
                                     ELSE files.l1[CHOOSE i \in holders(ssts, files.l1, k) : TRUE])[k]
  <2>2. r = [k \in ks |-> e(k)]
    BY DEF merged
  <2> HIDE DEF r, ks, e
  <2> QED
    BY <2>1, <2>2
<1>2. ASSUME NEW k \in ks
      PROVE  r[k] \in Values \cup {"delete"}
  <2> DEFINE h == holders(ssts, files.l0, k)
             g == holders(ssts, files.l1, k)
  <2>1. \E id : k \in DOMAIN recordsOf(ssts, id) /\ r[k] = recordsOf(ssts, id)[k]
    <3>1. h # {} \/ g # {}
      BY <1>2
    <3>2. mergedFrom(ssts, files, k)
      BY <1>2, MergedCases
    <3>3. CASE h # {}
      <4>1. greatest(h) \in h /\ r[k] = recordsOf(ssts, files.l0[greatest(h)])[k]
        BY <3>2, <3>3 DEF mergedFrom
      <4> QED
        BY <4>1 DEF holders
    <3>4. CASE h = {}
      <4>1. PICK i \in g : r[k] = recordsOf(ssts, files.l1[i])[k]
        BY <3>1, <3>2, <3>4 DEF mergedFrom
      <4> QED
        BY <4>1 DEF holders
    <3> QED
      BY <3>3, <3>4
  <2>2. PICK id : k \in DOMAIN recordsOf(ssts, id) /\ r[k] = recordsOf(ssts, id)[k]
    BY <2>1
  <2>3. recordsOf(ssts, id) \in Records
    BY TableRecords
  <2> QED
    BY <2>2, <2>3, RecordsFields
<1> HIDE DEF r, ks
<1>3. r \in Records
  BY <1>1, <1>2, IsRecords
<1> QED
  BY <1>3 DEF r

\* A merge depends on the listed tables only.
LEMMA MergedSame ==
    ASSUME wellOrdered, NEW ssts, NEW ssts2, NEW files \in Files, sameTables(ssts, ssts2, files)
    PROVE  merged(ssts2, files) = merged(ssts, files)
<1> DEFINE H(t, k) == holders(t, files.l0, k)
           G(t, k) == holders(t, files.l1, k)
           from(t, h, g) == recordsOf(t, IF h # {} THEN files.l0[greatest(h)]
                                         ELSE files.l1[CHOOSE i \in g : TRUE])
           keys(t) == {j \in Keys : H(t, j) \cup G(t, j) # {}}
<1>1. \A t : merged(t, files)
               = [k \in keys(t) |-> from(t, H(t, k), G(t, k))[k]]
  BY DEF merged
<1>2. /\ \A i \in DOMAIN files.l0 : recordsOf(ssts2, files.l0[i]) = recordsOf(ssts, files.l0[i])
      /\ \A i \in DOMAIN files.l1 : recordsOf(ssts2, files.l1[i]) = recordsOf(ssts, files.l1[i])
  BY DEF sameTables, idsOf
<1>3. \A k : H(ssts2, k) = H(ssts, k) /\ G(ssts2, k) = G(ssts, k)
  BY <1>2 DEF holders
<1>4. ASSUME NEW k, H(ssts, k) \cup G(ssts, k) # {}
      PROVE  from(ssts2, H(ssts, k), G(ssts, k)) = from(ssts, H(ssts, k), G(ssts, k))
  <2> DEFINE h == H(ssts, k)
             g == G(ssts, k)
  <2>1. h \subseteq DOMAIN files.l0 /\ g \subseteq DOMAIN files.l1
    BY DEF holders
  <2> HIDE DEF H, G
  <2>2. CASE h # {}
    <3>1. h \in SUBSET Nat /\ bounded(h)
      <4> HIDE DEF h
      <4> QED
        BY <2>1, FilesFields DEF bounded, below
    <3>2. greatest(h) \in DOMAIN files.l0
      <4> HIDE DEF h
      <4> QED
        BY <2>1, <2>2, <3>1, Greatest
    <3> HIDE DEF h
    <3>3. recordsOf(ssts2, files.l0[greatest(h)]) = recordsOf(ssts, files.l0[greatest(h)])
      BY <1>2, <3>2
    <3> QED
      BY <2>2, <3>3 DEF h
  <2>3. CASE h = {}
    <3> DEFINE m == CHOOSE i \in g : TRUE
    <3>1. m \in DOMAIN files.l1
      BY <1>4, <2>1, <2>3
    <3>2. \A t : from(t, h, g) = recordsOf(t, files.l1[m])
      BY <2>3
    <3> HIDE DEF m, from
    <3>3. recordsOf(ssts2, files.l1[m]) = recordsOf(ssts, files.l1[m])
      BY <1>2, <3>1
    <3> QED
      BY <3>2, <3>3
  <2> QED
    BY <2>2, <2>3
<1>5. keys(ssts2) = keys(ssts)
  <2> HIDE DEF H, G
  <2>1. \A j : H(ssts2, j) \cup G(ssts2, j) = H(ssts, j) \cup G(ssts, j)
    BY <1>3
  <2> DEFINE U(t, j) == H(t, j) \cup G(t, j)
  <2> HIDE DEF U
  <2>2. {j \in Keys : U(ssts2, j) # {}} = {j \in Keys : U(ssts, j) # {}}
    BY <2>1 DEF U
  <2> QED
    BY <2>2 DEF U
<1>6. \A k \in keys(ssts) : from(ssts2, H(ssts2, k), G(ssts2, k)) = from(ssts, H(ssts, k), G(ssts, k))
  <2> HIDE DEF from, H, G
  <2> QED
    BY <1>3, <1>4
<1> HIDE DEF from, H, G, keys
<1> QED
  BY <1>1, <1>5, <1>6

\* A read of ordered tables finds what a merge of them holds.
LEMMA LookupMerged ==
    ASSUME wellOrdered, NEW ssts, isTables(ssts), NEW files \in Files, ordered(ssts, files.l1), NEW k \in Keys
    PROVE  lookup(ssts, noRecords, files, k) = found(merged(ssts, files), k)
<1> DEFINE h == holders(ssts, files.l0, k)
           g == holders(ssts, files.l1, k)
           s == spanning(ssts, files.l1, k)
           value == lookup(ssts, noRecords, files, k)
           all == merged(ssts, files)
<1>1. /\ h # {} => greatest(h) \in h /\ value = found(recordsOf(ssts, files.l0[greatest(h)]), k)
      /\ h = {} /\ s # {} => \E i \in s : value = found(recordsOf(ssts, files.l1[i]), k)
      /\ h = {} /\ s = {} => value = "absent"
  <2>1. readFrom(ssts, noRecords, files, k, h, s, value)
    BY LookupCases
  <2> HIDE DEF h, s, value
  <2> QED
    BY <2>1, NoRecordsType DEF readFrom
<1>2. /\ k \in DOMAIN all <=> h # {} \/ g # {}
      /\ h # {} => all[k] = recordsOf(ssts, files.l0[greatest(h)])[k]
      /\ h = {} /\ g # {} => \E i \in g : all[k] = recordsOf(ssts, files.l1[i])[k]
  BY MergedCases DEF mergedFrom
<1>3. k \in Nat
  BY EngineAssumption
<1>4. g \subseteq s
  <2>1. k <= k
    BY <1>3, SMTT(20)
  <2> QED
    BY <2>1 DEF holders, spanning, inRange
<1>5. \A r : k \in DOMAIN all /\ k \in DOMAIN r /\ all[k] = r[k] => found(all, k) = found(r, k)
  <2> HIDE DEF all
  <2> QED
    BY DEF found
<1>6. CASE h # {}
  <2>1. k \in DOMAIN recordsOf(ssts, files.l0[greatest(h)])
    BY <1>1, <1>6 DEF holders
  <2> HIDE DEF h, g, s, value, all
  <2> QED
    BY <1>1, <1>2, <1>5, <1>6, <2>1 DEF value, all
<1>7. CASE h = {} /\ g # {}
  <2>1. PICK i \in g : all[k] = recordsOf(ssts, files.l1[i])[k]
    BY <1>2, <1>7
  <2>2. PICK j \in s : value = found(recordsOf(ssts, files.l1[j]), k)
    BY <1>1, <1>4, <1>7
  <2>3. i = j
    <3>1. i \in s /\ files.l1 \in Seq(Nat \ {0})
      BY <1>4, FilesFields
    <3> QED
      BY <1>3, <3>1, OneSpans
  <2>4. k \in DOMAIN recordsOf(ssts, files.l1[i])
    BY <2>1 DEF holders
  <2>5. found(all, k) = found(recordsOf(ssts, files.l1[i]), k)
    <3> HIDE DEF h, g, s, value, all
    <3> QED
      BY <1>2, <1>5, <1>7, <2>1, <2>4
  <2> QED
    BY <2>2, <2>3, <2>5
<1>8. CASE h = {} /\ g = {}
  <2>1. found(all, k) = "absent"
    <3> HIDE DEF h, g, s, value, all
    <3> QED
      BY <1>2, <1>8 DEF found
  <2>2. \A i \in s : found(recordsOf(ssts, files.l1[i]), k) = "absent"
    <3>1. \A i \in s : k \notin DOMAIN recordsOf(ssts, files.l1[i])
      BY <1>8 DEF holders, spanning
    <3> HIDE DEF s
    <3> QED
      BY <3>1 DEF found
  <2>3. value = "absent"
    <3> HIDE DEF h, g, s, value
    <3> QED
      BY <1>1, <1>8, <2>2
  <2> QED
    BY <2>1, <2>3
<1> QED
  BY <1>6, <1>7, <1>8

\* The outputs of a compaction serve what its inputs do: they hold exactly the
\* live records.
LEMMA CompactedReads ==
    ASSUME wellOrdered, NEW ssts, isTables(ssts), NEW files \in Files, NEW plan \in Files,
           ordered(ssts, files.l1), ordered(ssts, plan.l1), plan.l0 = <<>>,
           \A id \in idsOf(plan) : \A k \in DOMAIN recordsOf(ssts, id) :
              k \in live(ssts, files) /\ recordsOf(ssts, id)[k] = merged(ssts, files)[k],
           \A k \in live(ssts, files) : \E id \in idsOf(plan) : k \in DOMAIN recordsOf(ssts, id)
    PROVE  readAll(ssts, noRecords, plan) = readAll(ssts, noRecords, files)
<1> SUFFICES ASSUME NEW k \in Keys
             PROVE  lookup(ssts, noRecords, plan, k) = lookup(ssts, noRecords, files, k)
  BY DEF readAll
<1> DEFINE all == merged(ssts, files)
           out == merged(ssts, plan)
           h == holders(ssts, plan.l0, k)
           g == holders(ssts, plan.l1, k)
<1>1. h = {}
  <2>1. DOMAIN plan.l0 = {}
    BY SMTT(20)
  <2> QED
    BY <2>1 DEF holders
<1>2. /\ k \in DOMAIN out <=> g # {}
      /\ g # {} => \E i \in g : out[k] = recordsOf(ssts, plan.l1[i])[k]
  BY <1>1, MergedCases DEF mergedFrom
<1>3. idsOf(plan) = {plan.l1[i] : i \in DOMAIN plan.l1}
  <2>1. DOMAIN plan.l0 = {}
    BY SMTT(20)
  <2> QED
    BY <2>1 DEF idsOf
<1>4. g # {} <=> k \in live(ssts, files)
  BY <1>3 DEF holders
<1>5. found(out, k) = found(all, k)
  <2>1. CASE k \in live(ssts, files)
    <3>1. PICK i \in g : out[k] = recordsOf(ssts, plan.l1[i])[k]
      BY <1>2, <1>4, <2>1
    <3>2. recordsOf(ssts, plan.l1[i])[k] = all[k]
      BY <1>3, <3>1 DEF holders
    <3>3. k \in DOMAIN out /\ k \in DOMAIN all /\ out[k] = all[k]
      BY <1>2, <1>4, <2>1, <3>1, <3>2 DEF live
    <3> HIDE DEF out, all
    <3> QED
      BY <3>3 DEF found
  <2>2. CASE k \notin live(ssts, files)
    <3>1. k \notin DOMAIN out /\ (k \in DOMAIN all => all[k] = "delete")
      BY <1>2, <1>4, <2>2 DEF live
    <3> HIDE DEF out, all
    <3> QED
      BY <3>1 DEF found
  <2> QED
    BY <2>1, <2>2
<1> QED
  BY <1>5, LookupMerged

\* A table written from the memtable serves what the memtable does.
LEMMA FlushedReads ==
    ASSUME wellOrdered, NEW ssts, NEW active \in Records, NEW files \in Files, NEW id \in Nat \ {0},
           recordsOf(ssts, id) = active
    PROVE  readAll(ssts, noRecords, [l0 |-> Append(files.l0, id), l1 |-> files.l1])
              = readAll(ssts, active, files)
<1> DEFINE l0 == Append(files.l0, id)
           plan == [l0 |-> l0, l1 |-> files.l1]
           n == Len(files.l0) + 1
<1>1. files.l0 \in Seq(Nat \ {0}) /\ files.l1 \in Seq(Nat \ {0})
  BY FilesFields
<1>2. /\ l0 \in Seq(Nat \ {0}) /\ n \in Nat /\ n \in DOMAIN l0 /\ l0[n] = id
      /\ n \notin DOMAIN files.l0
      /\ \A i \in DOMAIN l0 : i \in Nat /\ i <= n /\ (i = n \/ i \in DOMAIN files.l0)
      /\ \A i \in DOMAIN files.l0 : i \in DOMAIN l0 /\ l0[i] = files.l0[i]
  BY <1>1, SMTT(20)
<1> HIDE DEF l0, n
<1>3. plan \in Files /\ plan.l0 = l0 /\ plan.l1 = files.l1
  BY <1>1, <1>2 DEF Files
<1> HIDE DEF plan
<1>4. ASSUME NEW k \in Keys
      PROVE  lookup(ssts, noRecords, plan, k) = lookup(ssts, active, files, k)
  <2> DEFINE h == holders(ssts, files.l0, k)
             h2 == holders(ssts, l0, k)
             s == spanning(ssts, files.l1, k)
  <2>1. /\ lookup(ssts, active, files, k) = scan(ssts, active, files, k, h, s)
        /\ lookup(ssts, noRecords, plan, k) = scan(ssts, noRecords, plan, k, h2, s)
    <3>1. \A a, f : lookup(ssts, a, f, k)
                      = scan(ssts, a, f, k, holders(ssts, f.l0, k), spanning(ssts, f.l1, k))
      BY DEF lookup, spanning, scan, least
    <3> QED
      BY <1>3, <3>1
  <2>2. CASE k \in DOMAIN active
    <3>1. n \in h2 /\ h2 \in SUBSET Nat /\ \A i \in h2 : i <= n
      BY <1>2, <2>2 DEF holders
    <3>2. greatest(h2) = n
      <4> HIDE DEF h2
      <4> QED
        BY <3>1, GreatestIs
    <3> HIDE DEF h2, h, s
    <3>3. recordsOf(ssts, plan.l0[greatest(h2)]) = active /\ h2 # {}
      BY <1>2, <1>3, <3>1, <3>2
    <3>4. scan(ssts, noRecords, plan, k, h2, s) = found(active, k)
      BY <3>3, NoRecordsType DEF scan
    <3> QED
      BY <2>1, <2>2, <3>4 DEF scan
  <2>3. CASE k \notin DOMAIN active
    <3>1. h2 = h
      BY <1>2, <2>3 DEF holders
    <3>2. h \in SUBSET Nat /\ bounded(h) /\ h \subseteq DOMAIN files.l0
      <4>1. h \subseteq DOMAIN files.l0
        BY DEF holders
      <4> HIDE DEF h
      <4> QED
        BY <4>1, FilesFields DEF bounded, below
    <3> HIDE DEF h2, h, s
    <3>3. h # {} => plan.l0[greatest(h)] = files.l0[greatest(h)]
      BY <1>2, <1>3, <3>2, Greatest
    <3>4. scan(ssts, noRecords, plan, k, h, s) = scan(ssts, active, files, k, h, s)
      BY <1>3, <2>3, <3>3, NoRecordsType DEF scan
    <3> QED
      BY <2>1, <3>1, <3>4
  <2> QED
    BY <2>2, <2>3
<1>5. readAll(ssts, noRecords, plan) = readAll(ssts, active, files)
  BY <1>4 DEF readAll
<1> QED
  BY <1>3, <1>5 DEF plan, l0

-----------------------------------------------------------------------------
(***************************************************************************)
(* The directory.                                                          *)
(***************************************************************************)

\* Every change of the files keeps their types.
LEMMA DiskTypes ==
    ASSUME NEW d, isDisk(d)
    PROVE  /\ \A segs \in Seq(Segment) : isDisk(withSegs(d, segs))
           /\ \A ssts : isTables(ssts) => isDisk([d EXCEPT !.ssts = ssts])
           /\ \A ms : isManifests(ms) => isDisk([d EXCEPT !.manifests = ms])
           /\ \A g \in Nat : isDisk(setCurrent(d, g))
<1> DEFINE e(s, t, m, c) == [segs |-> s, ssts |-> t, manifests |-> m, current |-> c]
<1>1. /\ d = e(d.segs, d.ssts, d.manifests, d.current)
      /\ d.segs \in Seq(Segment) /\ isTables(d.ssts) /\ isManifests(d.manifests) /\ d.current \in Nat
  BY DEF isDisk
<1>2. /\ \A segs : withSegs(d, segs) = e(segs, d.ssts, d.manifests, d.current)
      /\ \A ssts : [d EXCEPT !.ssts = ssts] = e(d.segs, ssts, d.manifests, d.current)
      /\ \A ms : [d EXCEPT !.manifests = ms] = e(d.segs, d.ssts, ms, d.current)
      /\ \A g : setCurrent(d, g) = e(d.segs, d.ssts, d.manifests, g)
  BY <1>1, SMTT(20) DEF withSegs, setCurrent
<1>3. \A s, t, m, c : s \in Seq(Segment) /\ isTables(t) /\ isManifests(m) /\ c \in Nat =>
                        isDisk(e(s, t, m, c))
  <2> SUFFICES ASSUME NEW s \in Seq(Segment), NEW t, NEW m, NEW c \in Nat, isTables(t), isManifests(m)
               PROVE  isDisk(e(s, t, m, c))
    OBVIOUS
  <2>1. /\ e(s, t, m, c).segs = s /\ e(s, t, m, c).ssts = t
        /\ e(s, t, m, c).manifests = m /\ e(s, t, m, c).current = c
    OBVIOUS
  <2>2. e(s, t, m, c) = e(e(s, t, m, c).segs, e(s, t, m, c).ssts, e(s, t, m, c).manifests,
                          e(s, t, m, c).current)
    BY <2>1
  <2> QED
    BY <2>1, <2>2, SMTT(20) DEF isDisk
<1>4. \A segs \in Seq(Segment) : isDisk(e(segs, d.ssts, d.manifests, d.current))
  BY <1>1, <1>3
<1>5. \A ssts : isTables(ssts) => isDisk(e(d.segs, ssts, d.manifests, d.current))
  BY <1>1, <1>3
<1>6. \A ms : isManifests(ms) => isDisk(e(d.segs, d.ssts, ms, d.current))
  BY <1>1, <1>3
<1>7. \A g \in Nat : isDisk(e(d.segs, d.ssts, d.manifests, g))
  BY <1>1, <1>3
<1> HIDE DEF e
<1> QED
  BY <1>2, <1>4, <1>5, <1>6, <1>7, SMTT(20)

\* The files after the segments, or the name of the current manifest, changed.
LEMMA SegsChanged ==
    ASSUME isDisk(disk), NEW segs \in Seq(Segment), disk' = withSegs(disk, segs)
    PROVE  /\ isDisk(disk') /\ disk'.segs = segs /\ disk'.ssts = disk.ssts
           /\ disk'.manifests = disk.manifests /\ disk'.current = disk.current
<1>1. isDisk(withSegs(disk, segs))
  BY DiskTypes
<1>2. /\ withSegs(disk, segs).segs = segs /\ withSegs(disk, segs).ssts = disk.ssts
      /\ withSegs(disk, segs).manifests = disk.manifests
      /\ withSegs(disk, segs).current = disk.current
  BY SegsOnly
<1> QED
  BY <1>1, <1>2

LEMMA CurrentChanged ==
    ASSUME isDisk(disk), NEW g \in Nat, disk' = setCurrent(disk, g)
    PROVE  /\ isDisk(disk') /\ disk'.segs = disk.segs /\ disk'.ssts = disk.ssts
           /\ disk'.manifests = disk.manifests /\ disk'.current = g
<1>1. isDisk(setCurrent(disk, g))
  BY DiskTypes
<1>2. /\ setCurrent(disk, g).segs = disk.segs /\ setCurrent(disk, g).ssts = disk.ssts
      /\ setCurrent(disk, g).manifests = disk.manifests
      /\ setCurrent(disk, g).current = g
  BY CurrentOnly
<1> QED
  BY <1>1, <1>2

\* A directory after a table was written.
tablePut(t, t2, id, r) ==
    /\ isTables(t2) /\ DOMAIN t2 = DOMAIN t \cup {id} /\ t2[id] = r /\ recordsOf(t2, id) = r
    /\ \A i \in DOMAIN t \ {id} : t2[i] = t[i] /\ recordsOf(t2, i) = recordsOf(t, i)

LEMMA PutTable ==
    ASSUME NEW d, isDisk(d), NEW id \in Nat \ {0}, NEW r \in Records
    PROVE  isDisk(putSST(d, id, r)) /\ tablePut(d.ssts, putSST(d, id, r).ssts, id, r)
<1> DEFINE t == d.ssts
           t2 == over(t, [i \in {id} |-> r])
<1>1. isTables(t)
  BY DEF isDisk
<1>2. DOMAIN t2 = DOMAIN t \cup {id} /\ t2[id] = r /\ \A i \in DOMAIN t \ {id} : t2[i] = t[i]
  BY DEF over
<1>3. putSST(d, id, r).ssts = t2 /\ putSST(d, id, r) = [d EXCEPT !.ssts = t2]
  <2>1. putSST(d, id, r) = [d EXCEPT !.ssts = t2]
    BY DEF putSST
  <2>2. d = [segs |-> d.segs, ssts |-> d.ssts, manifests |-> d.manifests, current |-> d.current]
    BY DEF isDisk
  <2>3. putSST(d, id, r).ssts = t2
    BY <2>2 DEF putSST
  <2> HIDE DEF t2
  <2> QED
    BY <2>1, <2>3, SMTT(20)
<1> HIDE DEF t, t2
<1>4. isTables(t2)
  BY <1>1, <1>2 DEF isTables
<1>5. tablePut(t, t2, id, r)
  BY <1>2, <1>4 DEF tablePut, recordsOf
<1>6. isDisk([d EXCEPT !.ssts = t2])
  BY <1>4, DiskTypes
<1> QED
  BY <1>3, <1>5, <1>6 DEF t

\* A directory after tables were removed.
tablesCut(t, t2, ids) ==
    /\ isTables(t2) /\ DOMAIN t2 = DOMAIN t \ ids
    /\ \A i \in DOMAIN t \ ids : t2[i] = t[i] /\ recordsOf(t2, i) = recordsOf(t, i)

LEMMA CutTables ==
    ASSUME NEW d, isDisk(d), NEW ids
    PROVE  isDisk(removeSSTs(d, ids)) /\ tablesCut(d.ssts, removeSSTs(d, ids).ssts, ids)
<1> DEFINE t == d.ssts
           t2 == [i \in DOMAIN t \ ids |-> t[i]]
<1>1. isTables(t)
  BY DEF isDisk
<1>2. DOMAIN t2 = DOMAIN t \ ids /\ \A i \in DOMAIN t \ ids : t2[i] = t[i]
  OBVIOUS
<1>3. removeSSTs(d, ids).ssts = t2 /\ removeSSTs(d, ids) = [d EXCEPT !.ssts = t2]
  <2>1. removeSSTs(d, ids) = [d EXCEPT !.ssts = t2]
    BY DEF removeSSTs
  <2>2. d = [segs |-> d.segs, ssts |-> d.ssts, manifests |-> d.manifests, current |-> d.current]
    BY DEF isDisk
  <2>3. removeSSTs(d, ids).ssts = t2
    BY <2>2 DEF removeSSTs
  <2> HIDE DEF t2
  <2> QED
    BY <2>1, <2>3, SMTT(20)
<1> HIDE DEF t, t2
<1>4. isTables(t2)
  BY <1>1, <1>2 DEF isTables
<1>5. tablesCut(t, t2, ids)
  BY <1>2, <1>4 DEF tablesCut, recordsOf
<1>6. isDisk([d EXCEPT !.ssts = t2])
  BY <1>4, DiskTypes
<1> QED
  BY <1>3, <1>5, <1>6 DEF t

\* The listed tables are still there, as they were.
LEMMA TablesKept ==
    ASSUME NEW ssts, NEW ssts2, NEW files \in Files, tablesOK(ssts, files),
           idsOf(files) \subseteq DOMAIN ssts2, sameTables(ssts, ssts2, files)
    PROVE  tablesOK(ssts2, files)
<1>1. \A i \in DOMAIN files.l1 : recordsOf(ssts2, files.l1[i]) = recordsOf(ssts, files.l1[i])
  BY DEF sameTables, idsOf
<1> QED
  BY <1>1 DEF tablesOK, ordered

\* A directory after a manifest was written.
manifestPut(m, m2, g, new) ==
    /\ isManifests(m2) /\ DOMAIN m2 = DOMAIN m \cup {g} /\ m2[g] = new
    /\ \A h \in DOMAIN m \ {g} : m2[h] = m[h]

LEMMA PutManifest ==
    ASSUME NEW d, isDisk(d), NEW g \in Nat \ {0}, NEW new \in Manifest
    PROVE  /\ isDisk(putManifest(d, g, new))
           /\ manifestPut(d.manifests, putManifest(d, g, new).manifests, g, new)
<1> DEFINE t == d.manifests
           t2 == over(t, [h \in {g} |-> new])
<1>1. isManifests(t)
  BY DEF isDisk
<1>2. DOMAIN t2 = DOMAIN t \cup {g} /\ t2[g] = new /\ \A i \in DOMAIN t \ {g} : t2[i] = t[i]
  BY DEF over
<1>3. putManifest(d, g, new).manifests = t2 /\ putManifest(d, g, new) = [d EXCEPT !.manifests = t2]
  <2>1. putManifest(d, g, new) = [d EXCEPT !.manifests = t2]
    BY DEF putManifest
  <2>2. d = [segs |-> d.segs, ssts |-> d.ssts, manifests |-> d.manifests, current |-> d.current]
    BY DEF isDisk
  <2>3. putManifest(d, g, new).manifests = t2
    BY <2>2 DEF putManifest
  <2> HIDE DEF t2
  <2> QED
    BY <2>1, <2>3, SMTT(20)
<1> HIDE DEF t, t2
<1>4. isManifests(t2)
  BY <1>1, <1>2 DEF isManifests
<1>5. manifestPut(t, t2, g, new)
  BY <1>2, <1>4 DEF manifestPut
<1>6. isDisk([d EXCEPT !.manifests = t2])
  BY <1>4, DiskTypes
<1> QED
  BY <1>3, <1>5, <1>6 DEF t

\* A directory after a manifest was removed.
manifestCut(m, m2, g) ==
    isManifests(m2) /\ DOMAIN m2 = DOMAIN m \ {g} /\ \A h \in DOMAIN m \ {g} : m2[h] = m[h]

LEMMA CutManifest ==
    ASSUME NEW d, isDisk(d), NEW g
    PROVE  /\ isDisk(removeManifest(d, g))
           /\ manifestCut(d.manifests, removeManifest(d, g).manifests, g)
<1> DEFINE t == d.manifests
           t2 == [h \in DOMAIN t \ {g} |-> t[h]]
<1>1. isManifests(t)
  BY DEF isDisk
<1>2. DOMAIN t2 = DOMAIN t \ {g} /\ \A i \in DOMAIN t \ {g} : t2[i] = t[i]
  OBVIOUS
<1>3. removeManifest(d, g).manifests = t2 /\ removeManifest(d, g) = [d EXCEPT !.manifests = t2]
  <2>1. removeManifest(d, g) = [d EXCEPT !.manifests = t2]
    BY DEF removeManifest
  <2>2. d = [segs |-> d.segs, ssts |-> d.ssts, manifests |-> d.manifests, current |-> d.current]
    BY DEF isDisk
  <2>3. removeManifest(d, g).manifests = t2
    BY <2>2 DEF removeManifest
  <2> HIDE DEF t2
  <2> QED
    BY <2>1, <2>3, SMTT(20)
<1> HIDE DEF t, t2
<1>4. isManifests(t2)
  BY <1>1, <1>2 DEF isManifests
<1>5. manifestCut(t, t2, g)
  BY <1>2, <1>4 DEF manifestCut
<1>6. isDisk([d EXCEPT !.manifests = t2])
  BY <1>4, DiskTypes
<1> QED
  BY <1>3, <1>5, <1>6 DEF t

\* The manifest Open reads depends on CURRENT and the manifests only.
LEMMA ManifestSame ==
    ASSUME NEW d, NEW d2, d2.current = d.current, d2.manifests = d.manifests
    PROVE  generationOf(d2) = generationOf(d) /\ manifestOf(d2) = manifestOf(d)
<1>1. generationOf(d2) = generationOf(d)
  BY DEF generationOf
<1> QED
  BY <1>1 DEF manifestOf

\* There are no tables in an empty manifest.
LEMMA NoFiles ==
    /\ noFiles \in Files /\ idsOf(noFiles) = {} /\ countOf(noFiles) = 0 /\ emptyManifest \in Manifest
    /\ emptyManifest.files = noFiles /\ emptyManifest.flushed = 0
    /\ noFiles.l0 = <<>> /\ noFiles.l1 = <<>>
    /\ \A ssts : ordered(ssts, noFiles.l1)
<1>1. noFiles.l0 = <<>> /\ noFiles.l1 = <<>>
  BY DEF noFiles
<1>2. <<>> \in Seq(Nat \ {0}) /\ DOMAIN <<>> = {} /\ Len(<<>>) + Len(<<>>) = 0
  BY SMTT(20)
<1>3. noFiles \in Files
  BY <1>2 DEF noFiles, Files
<1>4. idsOf(noFiles) = {} /\ countOf(noFiles) = 0
  <2>1. DOMAIN noFiles.l0 = {} /\ DOMAIN noFiles.l1 = {}
    BY <1>1, <1>2, SMTT(20)
  <2>2. idsOf(noFiles) = {}
    BY <2>1 DEF idsOf
  <2>3. Len(noFiles.l0) + Len(noFiles.l1) = 0
    BY <1>1, SMTT(20)
  <2> QED
    BY <2>2, <2>3 DEF countOf
<1>5. 0 \in Nat
  BY SMTT(20)
<1>6. emptyManifest \in Manifest /\ emptyManifest.files = noFiles /\ emptyManifest.flushed = 0
  BY <1>3, <1>5 DEF emptyManifest, Manifest
<1>7. \A ssts : ordered(ssts, noFiles.l1)
  <2>1. DOMAIN noFiles.l1 = {}
    BY <1>1, <1>2, SMTT(20)
  <2> QED
    BY <2>1 DEF ordered
<1> QED
  BY <1>1, <1>3, <1>4, <1>6, <1>7

\* The manifest Open reads is a manifest.
LEMMA ManifestType ==
    ASSUME NEW d, isDisk(d)
    PROVE  /\ /\ manifestOf(d) \in Manifest
           /\ manifestOf(d).files \in Files
           /\ manifestOf(d).flushed \in Nat
           /\ manifestOf(d) = [flushed |-> manifestOf(d).flushed, files |-> manifestOf(d).files]
<1>1. manifestOf(d) \in Manifest
  <2>1. \A g \in DOMAIN d.manifests : d.manifests[g] \in Manifest
    BY DEF isDisk, isManifests
  <2>2. emptyManifest \in Manifest
    BY NoFiles
  <2> QED
    BY <2>1, <2>2 DEF manifestOf
<1> DEFINE m == manifestOf(d)
<1> HIDE DEF m
<1>2. m \in Manifest
  BY <1>1 DEF m
<1>3. m.files \in Files /\ m.flushed \in Nat /\ m = [flushed |-> m.flushed, files |-> m.files]
  BY <1>2, SMTT(20) DEF Manifest
<1> QED
  BY <1>2, <1>3 DEF m

\* Its number, when CURRENT is sound.
LEMMA GenerationType ==
    ASSUME NEW d, isDisk(d), currentOK(d)
    PROVE  /\ generationOf(d) \in Nat
           /\ generationOf(d) # 0 => generationOf(d) \in DOMAIN d.manifests
           /\ generationOf(d) = 0 => DOMAIN d.manifests = {}
           /\ d.current = 0 => generationOf(d) \in {0, 1}
<1>1. d.current \in Nat /\ DOMAIN d.manifests \subseteq Nat \ {0}
  BY DEF isDisk, isManifests
<1>2. CASE d.current # 0
  BY <1>1, <1>2 DEF generationOf, currentOK
<1>3. CASE d.current = 0 /\ DOMAIN d.manifests = {}
  BY <1>1, <1>3 DEF generationOf
<1>4. CASE d.current = 0 /\ DOMAIN d.manifests # {}
  <2>1. DOMAIN d.manifests = {1}
    BY <1>4 DEF currentOK
  <2>2. 1 \in {1} /\ {1} \in SUBSET Nat /\ (\A t \in {1} : t <= 1) /\ 1 # 0 /\ 1 \in Nat
    BY SMTT(20)
  <2>3. greatest({1}) = 1
    BY <2>2, GreatestIs
  <2> QED
    BY <1>4, <2>1, <2>2, <2>3 DEF generationOf
<1> QED
  BY <1>2, <1>3, <1>4

-----------------------------------------------------------------------------
(***************************************************************************)
(* The engine.                                                             *)
(***************************************************************************)
LEMMA MemFields ==
    ASSUME NEW m \in Mem
    PROVE  /\ m = [lsn |-> m.lsn, active |-> m.active, gen |-> m.gen, flushed |-> m.flushed,
                   files |-> m.files, nextSST |-> m.nextSST, obsolete |-> m.obsolete,
                   phase |-> m.phase, plan |-> m.plan]
           /\ m.lsn \in Nat /\ m.active \in Records /\ m.gen \in Nat /\ m.flushed \in Nat
           /\ m.files \in Files /\ m.nextSST \in Nat \ {0} /\ m.obsolete \in SUBSET Nat
           /\ m.phase \in {"manifest", "checkpoint", "open"}
           /\ m.plan \in Plan /\ m.plan.files \in Files /\ m.plan.nextSST \in Nat \ {0}
           /\ m.plan.compacting \in BOOLEAN
<1>1. m = [lsn |-> m.lsn, active |-> m.active, gen |-> m.gen, flushed |-> m.flushed,
           files |-> m.files, nextSST |-> m.nextSST, obsolete |-> m.obsolete,
           phase |-> m.phase, plan |-> m.plan]
  BY SMTT(20) DEF Mem
<1>2. /\ m.lsn \in Nat /\ m.active \in Records /\ m.gen \in Nat /\ m.flushed \in Nat
      /\ m.files \in Files /\ m.nextSST \in Nat \ {0} /\ m.obsolete \in SUBSET Nat
      /\ m.phase \in {"manifest", "checkpoint", "open"} /\ m.plan \in Plan
  BY DEF Mem
<1>3. \A p \in Plan : p.files \in Files /\ p.nextSST \in Nat \ {0} /\ p.compacting \in BOOLEAN
  BY DEF Plan
<1> QED
  BY <1>1, <1>2, <1>3

\* An engine with these fields.
LEMMA IsMem ==
    ASSUME NEW lsn \in Nat, NEW active \in Records, NEW gen \in Nat, NEW flushed \in Nat,
           NEW files \in Files, NEW nextSST \in Nat \ {0}, NEW obsolete \in SUBSET Nat,
           NEW phase \in {"manifest", "checkpoint", "open"}, NEW plan \in Plan
    PROVE  [lsn |-> lsn, active |-> active, gen |-> gen, flushed |-> flushed, files |-> files,
            nextSST |-> nextSST, obsolete |-> obsolete, phase |-> phase, plan |-> plan] \in Mem
  BY DEF Mem

LEMMA EmptyMem == emptyMem \in Mem /\ emptyMem.obsolete = {}
<1>1. /\ noRecords \in Records /\ noFiles \in Files /\ 0 \in Nat /\ 1 \in Nat \ {0}
      /\ {} \in SUBSET Nat /\ "manifest" \in {"manifest", "checkpoint", "open"}
  <2>1. 0 \in Nat /\ 1 \in Nat \ {0} /\ {} \in SUBSET Nat
    BY SMTT(20)
  <2> QED
    BY <2>1, NoRecordsType, NoFiles
<1>2. noPlan \in Plan
  BY <1>1 DEF noPlan, Plan
<1>3. emptyMem \in Mem
  BY <1>1, <1>2, IsMem DEF emptyMem
<1> QED
  BY <1>3 DEF emptyMem

\* The tables a directory needs are below some number.
LEMMA DiskEmpty == isDisk(emptyDisk) /\ diskOK(emptyDisk)
<1>1. /\ emptyDisk.segs = <<>> /\ emptyDisk.current = 0
      /\ emptyDisk.ssts = [i \in {} |-> 0] /\ emptyDisk.manifests = [g \in {} |-> 0]
  BY DEF emptyDisk
<1>2. /\ <<>> \in Seq(Segment) /\ 0 \in Nat
      /\ DOMAIN [i \in {} |-> 0] = {}
  BY SMTT(20)
<1>3. isDisk(emptyDisk)
  <2>1. isTables([i \in {} |-> 0]) /\ isManifests([g \in {} |-> 0])
    BY <1>2 DEF isTables, isManifests
  <2>2. emptyDisk = [segs |-> emptyDisk.segs, ssts |-> emptyDisk.ssts,
                     manifests |-> emptyDisk.manifests, current |-> emptyDisk.current]
    BY <1>1 DEF emptyDisk
  <2> QED
    BY <1>1, <1>2, <2>1, <2>2 DEF isDisk
<1>4. DOMAIN emptyDisk.ssts = {} /\ DOMAIN emptyDisk.manifests = {}
  BY <1>1
<1>5. manifestOf(emptyDisk) = emptyManifest
  BY <1>4 DEF manifestOf
<1>6. currentOK(emptyDisk)
  BY <1>1, <1>4 DEF currentOK
<1>7. tablesOK(emptyDisk.ssts, noFiles) /\ bounded(DOMAIN emptyDisk.ssts)
  BY <1>2, <1>4, NoFiles DEF tablesOK, bounded, below
<1>8. countOf(noFiles) <= MaxSSTFiles
  <2>1. 0 <= MaxSSTFiles
    BY EngineAssumption, SMTT(20)
  <2> QED
    BY <2>1, NoFiles
<1>9. walOK(emptyDisk.segs, 0)
  BY <1>1 DEF walOK
<1> QED
  BY <1>3, <1>5, <1>6, <1>7, <1>8, <1>9, NoFiles DEF diskOK

\* A stopped engine is as well as the files it left.
LEMMA Gone ==
    ASSUME NEW d, isDisk(d), diskOK(d), gone(d)
    PROVE  IInv'
<1>1. /\ disk' = d /\ mem' = emptyMem /\ pc' = "closed" /\ batch' = noRecords /\ views' = noView
  BY DEF gone
<1>2. ~ opening' /\ ~ opened'
  BY <1>1 DEF opening, opened, Opening, Opened
<1>3. typed'
  <2>1. noView \in [Readers -> SUBSET View]
    BY DEF noView
  <2>2. /\ pc' \in Opening \cup Opened \cup {"closed", "poisoned", "cleanManifests"}
        /\ pc' \notin {"roll", "append"} /\ pc' \notin Opening /\ pc' \notin Opened
    BY <1>1 DEF Opening, Opened
  <2>3. isDisk(disk') /\ mem' \in Mem /\ batch' \in Batches \cup {noRecords}
    BY <1>1, EmptyMem
  <2> QED
    BY <1>1, <2>1, <2>2, <2>3 DEF typed
<1>4. viewsOK'
  <2>1. \A r \in Readers : noView[r] = {}
    BY DEF noView
  <2> QED
    BY <1>1, <2>1 DEF viewsOK
<1>5. diskOK(disk')
  BY <1>1
<1>6. pc' \notin {"poisoned", "rotate", "manifest", "current", "outputs"}
  BY <1>1
<1> QED
  BY <1>2, <1>3, <1>4, <1>5, <1>6 DEF IInv

\* The engine starts on an empty directory.
LEMMA InitOK ==
    ASSUME Init
    PROVE  IInv
<1>1. /\ disk = emptyDisk /\ mem = emptyMem /\ pc = "closed" /\ batch = noRecords /\ views = noView
  BY DEF Init
<1>2. ~ opening /\ ~ opened
  BY <1>1 DEF opening, opened, Opening, Opened
<1>3. typed
  <2>1. noView \in [Readers -> SUBSET View]
    BY DEF noView
  <2>2. /\ pc \in Opening \cup Opened \cup {"closed", "poisoned", "cleanManifests"}
        /\ pc \notin {"roll", "append"} /\ pc \notin Opening /\ pc \notin Opened
    BY <1>1 DEF Opening, Opened
  <2>3. isDisk(disk) /\ mem \in Mem /\ batch \in Batches \cup {noRecords}
    BY <1>1, EmptyMem, DiskEmpty
  <2> QED
    BY <1>1, <2>1, <2>2, <2>3 DEF typed
<1>4. viewsOK
  <2>1. \A r \in Readers : noView[r] = {}
    BY DEF noView
  <2> QED
    BY <1>1, <2>1 DEF viewsOK
<1>5. diskOK(disk)
  BY <1>1, DiskEmpty
<1>6. pc \notin {"poisoned", "rotate", "manifest", "current", "outputs"}
  BY <1>1
<1> QED
  BY <1>2, <1>3, <1>4, <1>5, <1>6 DEF IInv

\* The WAL after a checkpoint of all it holds.
LEMMA CheckpointWAL ==
    ASSUME NEW segs \in Seq(Segment), segs # <<>>, NEW flushed \in Nat, walOK(segs, flushed),
           lastSegment(segs).tail = "clean"
    PROVE  LET e == walEnd(segs, flushed) IN
           /\ e \in Nat /\ flushed <= e /\ walOK(segs, e) /\ walEnd(segs, e) = e
           /\ replayed(segs, e) = noRecords
<1> DEFINE e == walEnd(segs, flushed)
<1>1. chained(segs) /\ covers(segs, flushed)
  BY DEF walOK
<1>2. e \in Nat /\ flushed <= e
  BY WalFrames DEF framesOK
<1>3. walEnd(segs, e) = e
  BY <1>1, SegmentEnds
<1>4. segs[1].tail # "header" /\ segs[1].first <= e + 1
  <2>1. segs[1].tail # "header" /\ segs[1].first <= flushed + 1
    BY <1>1 DEF covers
  <2>2. segs[1].first \in Nat
    <3>1. 1 \in DOMAIN segs
      BY SegmentFields, SMTT(20)
    <3> QED
      BY <3>1, SegmentFields
  <2> HIDE DEF e
  <2> QED
    BY <1>2, <2>1, <2>2, SMTT(20)
<1>5. e + 1 .. e = {} /\ e <= e
  <2> HIDE DEF e
  <2> QED
    BY <1>2, SMTT(20)
<1>6. walOK(segs, e)
  <2> HIDE DEF e
  <2> QED
    BY <1>1, <1>3, <1>4, <1>5 DEF walOK, covers
<1>7. replayed(segs, e) = noRecords
  <2> HIDE DEF e
  <2> QED
    BY <1>2, <1>3, ReplayedNone
<1> QED
  BY <1>2, <1>3, <1>6, <1>7

-----------------------------------------------------------------------------
(***************************************************************************)
(* What a change that is cut short leaves.                                 *)
(***************************************************************************)

\* The ways to cut a change short.
LEMMA InterruptedCases ==
    ASSUME NEW d \in interrupted
    PROVE  \/ d = disk
           \/ pc = "roll" /\ \E s \in {tornHeader, segment(mem.lsn + 1)} :
                                d = withSegs(disk, Append(disk.segs, s))
           \/ pc = "append" /\ d = withSegs(disk, setTail(disk.segs, "torn"))
           \/ pc = "append" /\ d = withSegs(disk, appendFrame(disk.segs, batch))
           \/ /\ pc = "rotate" /\ lastSegment(disk.segs).frames # <<>>
              /\ d = withSegs(disk, Append(disk.segs, tornHeader))
           \/ /\ pc = "wal" /\ disk.segs = <<>>
              /\ d = withSegs(disk, Append(disk.segs, tornHeader))
           \/ pc = "current" /\ d = setCurrent(disk, mem.gen + 1)
<1> DEFINE appended(s) == withSegs(disk, Append(disk.segs, s))
           rest == CASE pc = "roll"   -> {appended(tornHeader), appended(segment(mem.lsn + 1))}
                     [] pc = "append" -> {withSegs(disk, setTail(disk.segs, "torn")),
                                          withSegs(disk, appendFrame(disk.segs, batch))}
                     [] pc = "rotate" /\ lastSegment(disk.segs).frames # <<>> -> {appended(tornHeader)}
                     [] pc = "wal" /\ disk.segs = <<>> -> {appended(tornHeader)}
                     [] pc = "current" -> {setCurrent(disk, mem.gen + 1)}
                     [] OTHER -> {}
<1>1. d = disk \/ d \in rest
  BY DEF interrupted
<1>2. CASE pc = "roll"
  <2>1. rest = {appended(tornHeader), appended(segment(mem.lsn + 1))}
    BY <1>2
  <2> QED
    BY <1>1, <1>2, <2>1
<1>3. CASE pc = "append"
  <2>1. rest = {withSegs(disk, setTail(disk.segs, "torn")), withSegs(disk, appendFrame(disk.segs, batch))}
    BY <1>3
  <2> QED
    BY <1>1, <1>3, <2>1
<1>4. CASE pc = "rotate" /\ lastSegment(disk.segs).frames # <<>>
  <2>1. rest = {appended(tornHeader)}
    BY <1>4
  <2> QED
    BY <1>1, <1>4, <2>1
<1>5. CASE pc = "wal" /\ disk.segs = <<>>
  <2>1. rest = {appended(tornHeader)}
    BY <1>5
  <2> QED
    BY <1>1, <1>5, <2>1
<1>6. CASE pc = "current"
  <2>1. rest = {setCurrent(disk, mem.gen + 1)}
    BY <1>6
  <2> QED
    BY <1>1, <1>6, <2>1
<1>7. CASE /\ pc \notin {"roll", "append", "current"}
           /\ ~ (pc = "rotate" /\ lastSegment(disk.segs).frames # <<>>)
           /\ ~ (pc = "wal" /\ disk.segs = <<>>)
  <2>1. rest = {}
    BY <1>7
  <2> QED
    BY <1>1, <2>1
<1> QED
  BY <1>2, <1>3, <1>4, <1>5, <1>6, <1>7

\* The manifests in use and to be published.
LEMMA ManifestsType ==
    ASSUME mem \in Mem
    PROVE  /\ published \in Manifest /\ published.files = mem.files /\ published.flushed = mem.flushed
           /\ newManifest \in Manifest /\ newManifest.files = mem.plan.files
           /\ newManifest.flushed = mem.lsn
<1>1. mem.flushed \in Nat /\ mem.files \in Files /\ mem.lsn \in Nat /\ mem.plan.files \in Files
  BY MemFields
<1> QED
  BY <1>1 DEF published, newManifest, Manifest

\* The manifest Open would read is the one in use, or the one being published.
LEMMA CurrentManifest ==
    ASSUME IInv, opening \/ opened
    PROVE  /\ currentOK(disk)
           /\ pc # "current" => generationOf(disk) = mem.gen /\ manifestOf(disk) = published
           /\ pc = "current" => manifestOf(disk) \in {published, newManifest}
           /\ pc = "current" => manifestOf(setCurrent(disk, mem.gen + 1)) = newManifest
           /\ pc = "current" => currentOK(setCurrent(disk, mem.gen + 1))
<1> DEFINE reads == /\ pc # "current" => generationOf(disk) = mem.gen /\ manifestOf(disk) = published
                    /\ pc = "current" => manifestOf(disk) \in {published, newManifest}
<1>1. publishedOK /\ isDisk(disk) /\ mem \in Mem
  BY DEF IInv, typed
<1>2. mem.gen \in Nat
  BY <1>1, MemFields
<1>3. disk.current = mem.gen
  BY <1>1 DEF publishedOK
<1>4. currentOK(disk)
  <2>1. {} \subseteq {1} /\ {1} \subseteq {1}
    BY SMTT(20)
  <2> QED
    BY <1>1, <1>3, <2>1 DEF publishedOK, currentOK
<1>5. ASSUME mem.gen # 0 PROVE reads
  <2>1. generationOf(disk) = mem.gen
    BY <1>3, <1>5 DEF generationOf
  <2>2. mem.gen \in DOMAIN disk.manifests /\ disk.manifests[mem.gen] = published
    BY <1>1, <1>5 DEF publishedOK
  <2> QED
    BY <2>1, <2>2 DEF manifestOf
<1>6. ASSUME mem.gen = 0 /\ pc # "current" PROVE reads
  <2>1. DOMAIN disk.manifests = {} /\ published = emptyManifest
    BY <1>1, <1>6 DEF publishedOK
  <2>2. generationOf(disk) = 0
    BY <1>3, <1>6, <2>1 DEF generationOf
  <2> QED
    BY <1>6, <2>1, <2>2 DEF manifestOf
<1>7. ASSUME mem.gen = 0 /\ pc = "current" PROVE reads
  <2>1. DOMAIN disk.manifests = {1} /\ disk.manifests[mem.gen + 1] = newManifest
    BY <1>1, <1>7 DEF publishedOK
  <2>2. mem.gen + 1 = 1 /\ 1 \in {1} /\ {1} \in SUBSET Nat /\ (\A t \in {1} : t <= 1) /\ 1 # 0
    BY <1>7, SMTT(20)
  <2>3. greatest({1}) = 1
    BY <2>2, GreatestIs
  <2>4. generationOf(disk) = 1
    BY <1>3, <1>7, <2>1, <2>2, <2>3 DEF generationOf
  <2> QED
    BY <1>7, <2>1, <2>2, <2>4 DEF manifestOf
<1>8. ASSUME pc = "current"
      PROVE  /\ manifestOf(setCurrent(disk, mem.gen + 1)) = newManifest
             /\ currentOK(setCurrent(disk, mem.gen + 1))
  <2> DEFINE d == setCurrent(disk, mem.gen + 1)
  <2>1. d.current = mem.gen + 1 /\ d.manifests = disk.manifests
    BY <1>1, CurrentOnly
  <2>2. mem.gen + 1 # 0
    BY <1>2, SMTT(20)
  <2>3. mem.gen + 1 \in DOMAIN disk.manifests /\ disk.manifests[mem.gen + 1] = newManifest
    BY <1>1, <1>8 DEF publishedOK
  <2> HIDE DEF d
  <2>4. generationOf(d) = mem.gen + 1
    BY <2>1, <2>2 DEF generationOf
  <2>5. manifestOf(d) = newManifest
    BY <2>1, <2>3, <2>4 DEF manifestOf
  <2>6. currentOK(d)
    BY <2>1, <2>2, <2>3 DEF currentOK
  <2> QED
    BY <2>5, <2>6 DEF d
<1> QED
  BY <1>4, <1>5, <1>6, <1>7, <1>8

\* The engine or Open may stop with these files.
leaves(d) ==
    /\ isDisk(d) /\ diskOK(d)
    /\ mem.obsolete \cap idsOf(manifestOf(d).files) = {}
    /\ \A r \in Readers : \A v \in views[r] : idsOf(v.files) \subseteq DOMAIN d.ssts

\* The tables of a directory are below some number.
LEMMA Bounded ==
    ASSUME IInv
    PROVE  bounded(DOMAIN disk.ssts)
<1>1. mem.nextSST \in Nat /\ mem.plan.nextSST \in Nat
  <2>1. mem.nextSST \in Nat \ {0} /\ mem.plan.nextSST \in Nat \ {0}
    BY MemFields DEF IInv, typed
  <2> QED
    BY <2>1
<1>2. CASE pc \in {"closed", "poisoned"}
  BY <1>2 DEF IInv, diskOK
<1>3. CASE opening
  BY <1>3 DEF IInv, openingOK
<1>4. CASE opened
  <2>1. CASE pc \in {"rotate", "manifest", "current"}
    BY <1>1, <2>1 DEF IInv, planOK, bounded
  <2>2. CASE pc = "outputs"
    BY <1>1, <2>2 DEF IInv, outputsOK, bounded
  <2>3. CASE pc \notin {"rotate", "manifest", "current", "outputs"}
    <3>1. below(DOMAIN disk.ssts, mem.nextSST)
      BY <1>4, <2>3 DEF IInv, openedOK
    <3> QED
      BY <1>1, <3>1 DEF bounded
  <2> QED
    BY <2>1, <2>2, <2>3
<1>5. pc \in {"closed", "poisoned"} \/ opening \/ opened
  <2>1. pc \in Opening \cup Opened \cup {"closed", "poisoned", "cleanManifests"}
    BY DEF IInv, typed
  <2> QED
    BY <2>1 DEF opening, opened
<1> QED
  BY <1>2, <1>3, <1>4, <1>5

\* At any moment the engine may stop with the files as they are.
LEMMA LeavesNow ==
    ASSUME IInv, pc # "closed"
    PROVE  leaves(disk)
<1>1. isDisk(disk) /\ mem \in Mem /\ bounded(DOMAIN disk.ssts)
  BY Bounded DEF IInv, typed
<1>2. \A r \in Readers : \A v \in views[r] : idsOf(v.files) \subseteq DOMAIN disk.ssts
  BY DEF IInv, viewsOK
<1>3. CASE pc = "poisoned"
  BY <1>1, <1>2, <1>3 DEF IInv, leaves
<1>4. CASE opening \/ opened
  <2>1. currentOK(disk) /\ publishedOK /\ filesOK
    BY <1>4, CurrentManifest DEF IInv
  <2>2. CASE manifestOf(disk) = published
    <3>1. manifestOf(disk).files = mem.files /\ manifestOf(disk).flushed = mem.flushed
      BY <1>1, <2>2, ManifestsType
    <3>2. walOK(disk.segs, mem.flushed) \/ tornFirst(disk.segs)
      BY <1>4 DEF IInv, openingOK, openedOK
    <3>3. tablesOK(disk.ssts, mem.files) /\ countOf(mem.files) <= MaxSSTFiles
          /\ mem.obsolete \cap idsOf(mem.files) = {}
      BY <2>1 DEF filesOK
    <3> QED
      BY <1>1, <1>2, <2>1, <3>1, <3>2, <3>3 DEF leaves, diskOK
  <2>3. CASE pc = "current" /\ manifestOf(disk) = newManifest
    <3>1. manifestOf(disk).files = mem.plan.files /\ manifestOf(disk).flushed = mem.lsn
      BY <1>1, <2>3, ManifestsType
    <3>2. planOK /\ openedOK
      <4>1. opened
        BY <2>3 DEF opened, Opened
      <4> QED
        BY <2>3, <4>1 DEF IInv
    <3>3. walOK(disk.segs, mem.lsn)
      <4>1. disk.segs \in Seq(Segment) /\ mem.flushed \in Nat
        BY <1>1, MemFields DEF isDisk
      <4> QED
        BY <3>2, <4>1, CheckpointWAL DEF openedOK
    <3>4. tablesOK(disk.ssts, mem.plan.files) /\ countOf(mem.plan.files) <= MaxSSTFiles
          /\ mem.obsolete \cap idsOf(mem.plan.files) = {}
      BY <2>3, <3>2 DEF planOK
    <3> QED
      BY <1>1, <1>2, <2>1, <3>1, <3>3, <3>4 DEF leaves, diskOK
  <2> QED
    BY <1>4, <2>2, <2>3, CurrentManifest
<1>5. pc = "poisoned" \/ opening \/ opened
  <2>1. pc \in Opening \cup Opened \cup {"closed", "poisoned", "cleanManifests"}
    BY DEF IInv, typed
  <2> QED
    BY <2>1 DEF opening, opened
<1> QED
  BY <1>3, <1>4, <1>5

\* It may stop with other segments that hold what is beyond the checkpoint.
LEMMA LeavesSegs ==
    ASSUME leaves(disk), NEW segs \in Seq(Segment),
           walOK(segs, manifestOf(disk).flushed) \/ tornFirst(segs)
    PROVE  leaves(withSegs(disk, segs))
<1> DEFINE d == withSegs(disk, segs)
<1>1. isDisk(disk)
  BY DEF leaves
<1>2. d.segs = segs /\ d.ssts = disk.ssts /\ d.manifests = disk.manifests /\ d.current = disk.current
  BY <1>1, SegsOnly
<1>3. isDisk(d)
  BY <1>1, DiskTypes
<1> HIDE DEF d
<1>4. manifestOf(d) = manifestOf(disk)
  BY <1>2, ManifestSame
<1>5. diskOK(d)
  BY <1>2, <1>4 DEF leaves, diskOK, currentOK
<1> QED
  BY <1>2, <1>3, <1>4, <1>5 DEF leaves, d

\* The phases in which the WAL is appended to.
LEMMA OpenedFacts ==
    ASSUME IInv, opened
    PROVE  /\ disk.segs \in Seq(Segment) /\ disk.segs # <<>> /\ mem.flushed \in Nat
           /\ walOK(disk.segs, mem.flushed) /\ lastSegment(disk.segs).tail = "clean"
           /\ mem.lsn = walEnd(disk.segs, mem.flushed)
           /\ mem.active = replayed(disk.segs, mem.flushed)
           /\ isDisk(disk) /\ mem \in Mem
<1>1. openedOK /\ isDisk(disk) /\ mem \in Mem
  BY DEF IInv, typed
<1>2. disk.segs \in Seq(Segment) /\ mem.flushed \in Nat
  BY <1>1, MemFields DEF isDisk
<1> QED
  BY <1>1, <1>2 DEF openedOK

\* The outcomes of a change cut short, case by case.
LEMMA Interrupted ==
    ASSUME IInv, pc # "closed", NEW d \in interrupted
    PROVE  leaves(d)
<1>1. leaves(disk)
  BY LeavesNow
<1>2. ASSUME pc \in Opened, pc # "current"
      PROVE  manifestOf(disk).flushed = mem.flushed /\ opened
  <2>1. opened /\ mem \in Mem
    BY <1>2 DEF opened, IInv, typed
  <2>2. manifestOf(disk) = published
    BY <1>2, <2>1, CurrentManifest
  <2> QED
    BY <2>1, <2>2, ManifestsType
<1>3. ASSUME pc = "roll", NEW s \in {tornHeader, segment(mem.lsn + 1)}
      PROVE  leaves(withSegs(disk, Append(disk.segs, s)))
  <2>1. manifestOf(disk).flushed = mem.flushed /\ opened
    BY <1>2, <1>3 DEF Opened
  <2>2. lastSegment(disk.segs).frames # <<>> /\ s \in {tornHeader, segment(walEnd(disk.segs, mem.flushed) + 1)}
    BY <1>3, <2>1 DEF IInv, openedOK
  <2>3. walKept(disk.segs, Append(disk.segs, s), mem.flushed)
    BY <2>1, <2>2, OpenedFacts, AddSegment
  <2> QED
    BY <1>1, <2>1, <2>3, LeavesSegs DEF walKept
<1>4. ASSUME pc = "append"
      PROVE  leaves(withSegs(disk, setTail(disk.segs, "torn")))
  <2>1. manifestOf(disk).flushed = mem.flushed /\ opened
    BY <1>2, <1>4 DEF Opened
  <2>2. lastSegment(disk.segs).tail # "header" /\ "torn" \in {"clean", "torn"}
    BY <2>1, OpenedFacts
  <2>3. walKept(disk.segs, setTail(disk.segs, "torn"), mem.flushed)
    BY <2>1, <2>2, OpenedFacts, SetTail
  <2> QED
    BY <1>1, <2>1, <2>3, LeavesSegs DEF walKept
<1>5. ASSUME pc = "append"
      PROVE  leaves(withSegs(disk, appendFrame(disk.segs, batch)))
  <2>1. manifestOf(disk).flushed = mem.flushed /\ opened
    BY <1>2, <1>5 DEF Opened
  <2>2. batch \in Batches
    BY <1>5 DEF IInv, typed
  <2> DEFINE segs2 == appendFrame(disk.segs, batch)
  <2>3. segs2 \in Seq(Segment) /\ walOK(segs2, mem.flushed)
    BY <2>1, <2>2, OpenedFacts, AppendOne
  <2> HIDE DEF segs2
  <2>4. leaves(withSegs(disk, segs2))
    BY <1>1, <2>1, <2>3, LeavesSegs
  <2> QED
    BY <2>4 DEF segs2
<1>6. ASSUME pc = "rotate", lastSegment(disk.segs).frames # <<>>
      PROVE  leaves(withSegs(disk, Append(disk.segs, tornHeader)))
  <2>1. manifestOf(disk).flushed = mem.flushed /\ opened
    BY <1>2, <1>6 DEF Opened
  <2>2. tornHeader \in {tornHeader, segment(walEnd(disk.segs, mem.flushed) + 1)}
    OBVIOUS
  <2>3. walKept(disk.segs, Append(disk.segs, tornHeader), mem.flushed)
    BY <1>6, <2>1, <2>2, OpenedFacts, AddSegment
  <2> QED
    BY <1>1, <2>1, <2>3, LeavesSegs DEF walKept
<1>7. ASSUME disk.segs = <<>>
      PROVE  leaves(withSegs(disk, Append(disk.segs, tornHeader)))
  <2>1. Append(disk.segs, tornHeader) = <<tornHeader>> /\ <<tornHeader>> \in Seq(Segment)
    BY <1>7, SegmentTypes, SMTT(20)
  <2>2. tornFirst(<<tornHeader>>)
    BY DEF tornFirst
  <2> QED
    BY <1>1, <2>1, <2>2, LeavesSegs
<1>8. ASSUME pc = "current"
      PROVE  leaves(setCurrent(disk, mem.gen + 1))
  <2> DEFINE e == setCurrent(disk, mem.gen + 1)
  <2>1. opened /\ planOK
    BY <1>8 DEF opened, Opened, IInv
  <2>2. isDisk(disk) /\ mem \in Mem /\ bounded(DOMAIN disk.ssts)
    BY Bounded DEF IInv, typed
  <2>3. manifestOf(e) = newManifest /\ currentOK(e)
    BY <1>8, <2>1, CurrentManifest
  <2>4. e.segs = disk.segs /\ e.ssts = disk.ssts
    BY <2>2, CurrentOnly
  <2>5. isDisk(e)
    <3>1. mem.gen + 1 \in Nat
      <4>1. mem.gen \in Nat
        BY <2>2, MemFields
      <4> QED
        BY <4>1, SMTT(20)
    <3> QED
      BY <2>2, <3>1, DiskTypes
  <2> HIDE DEF e
  <2>6. manifestOf(e).files = mem.plan.files /\ manifestOf(e).flushed = mem.lsn
    BY <2>2, <2>3, ManifestsType
  <2>7. walOK(disk.segs, mem.lsn)
    BY <2>1, OpenedFacts, CheckpointWAL
  <2>8. /\ tablesOK(disk.ssts, mem.plan.files) /\ countOf(mem.plan.files) <= MaxSSTFiles
        /\ mem.obsolete \cap idsOf(mem.plan.files) = {}
    BY <1>8, <2>1 DEF planOK
  <2>9. \A r \in Readers : \A v \in views[r] : idsOf(v.files) \subseteq DOMAIN disk.ssts
    BY DEF IInv, viewsOK
  <2> QED
    BY <2>2, <2>3, <2>4, <2>5, <2>6, <2>7, <2>8, <2>9 DEF leaves, diskOK, e
<1> QED
  BY <1>1, <1>3, <1>4, <1>5, <1>6, <1>7, <1>8, InterruptedCases

-----------------------------------------------------------------------------
(***************************************************************************)
(* Every action preserves the invariant.                                   *)
(***************************************************************************)

\* An operation that fails.
LEMMA Failed ==
    ASSUME IInv, NEW d, leaves(d), failed(d)
    PROVE  IInv'
<1>1. isDisk(d) /\ diskOK(d)
  BY DEF leaves
<1>2. CASE mem.phase # "open"
  BY <1>1, <1>2, Gone DEF failed
<1>3. CASE mem.phase = "open"
  <2>1. disk' = d /\ pc' = "poisoned" /\ batch' = noRecords /\ mem' = mem /\ views' = views
    BY <1>3 DEF failed
  <2>2. ~ opening' /\ ~ opened'
    BY <2>1 DEF opening, opened, Opening, Opened
  <2>3. typed'
    <3>1. mem \in Mem /\ views \in [Readers -> SUBSET View]
      BY DEF IInv, typed
    <3>2. /\ pc' \in Opening \cup Opened \cup {"closed", "poisoned", "cleanManifests"}
          /\ pc' \notin {"roll", "append"} /\ pc' \notin Opening /\ pc' \notin Opened
      BY <2>1 DEF Opening, Opened
    <3> QED
      BY <1>1, <2>1, <3>1, <3>2 DEF typed
  <2>4. viewsOK'
    <3>1. pc' # "closed"
      BY <2>1
    <3>2. \A r \in Readers : \A v \in views'[r] : idsOf(v.files) \subseteq DOMAIN disk'.ssts
      BY <2>1 DEF leaves
    <3> QED
      BY <2>2, <3>1, <3>2 DEF viewsOK
  <2>5. diskOK(disk') /\ mem'.obsolete \cap idsOf(manifestOf(disk').files) = {}
    BY <1>1, <2>1 DEF leaves
  <2>6. pc' \notin {"rotate", "manifest", "current", "outputs"}
    BY <2>1
  <2> QED
    BY <2>2, <2>3, <2>4, <2>5, <2>6 DEF IInv
<1> QED
  BY <1>2, <1>3

LEMMA CloseOK ==
    ASSUME IInv, Close
    PROVE  IInv'
<1>1. pc # "closed" /\ gone(disk)
  BY DEF Close
<1>2. leaves(disk)
  BY <1>1, LeavesNow
<1> QED
  BY <1>1, <1>2, Gone DEF leaves

LEMMA CrashOK ==
    ASSUME IInv, Crash
    PROVE  IInv'
<1>1. PICK d \in interrupted : gone(d)
  BY DEF Crash
<1>2. leaves(d)
  BY Interrupted DEF Crash
<1> QED
  BY <1>1, <1>2, Gone DEF leaves

LEMMA FailOK ==
    ASSUME IInv, Fail
    PROVE  IInv'
<1>1. PICK d \in interrupted : failed(d)
  BY DEF Fail
<1>2. pc # "closed"
  BY DEF Fail
<1>3. leaves(d)
  BY <1>2, Interrupted
<1> QED
  BY <1>1, <1>3, Failed

LEMMA RefuseOK ==
    ASSUME IInv, Refuse
    PROVE  IInv'
<1>1. pc # "closed" /\ failed(disk)
  BY DEF Refuse
<1>2. leaves(disk)
  BY <1>1, LeavesNow
<1> QED
  BY <1>1, <1>2, Failed

\* The next table comes after those of the manifest.
LEMMA NextSST ==
    ASSUME wellOrdered, NEW files \in Files, bounded(idsOf(files))
    PROVE  nextSSTOf(files) \in Nat \ {0} /\ below(idsOf(files), nextSSTOf(files))
<1>1. idsOf(files) \in SUBSET Nat
  <2>1. \A q \in Seq(Nat \ {0}) : \A i \in DOMAIN q : q[i] \in Nat
    BY SMTT(20)
  <2> QED
    BY <2>1, FilesFields DEF idsOf
<1>2. CASE idsOf(files) = {}
  <2>1. 1 \in Nat \ {0}
    BY SMTT(20)
  <2> QED
    BY <1>2, <2>1 DEF nextSSTOf, below
<1>3. CASE idsOf(files) # {}
  <2> DEFINE g == greatest(idsOf(files))
  <2>1. g \in Nat /\ \A i \in idsOf(files) : i \in Nat /\ i <= g
    BY <1>1, <1>3, Greatest
  <2>2. nextSSTOf(files) = 1 + g
    BY <1>3 DEF nextSSTOf
  <2> HIDE DEF g
  <2>3. 1 + g \in Nat \ {0} /\ \A i \in idsOf(files) : i < 1 + g
    BY <2>1, SMTT(20)
  <2> QED
    BY <2>2, <2>3 DEF below
<1> QED
  BY <1>2, <1>3

LEMMA OpenManifestOK ==
    ASSUME wellOrdered, IInv, OpenManifest
    PROVE  IInv'
<1> DEFINE g == generationOf(disk)
           m == manifestOf(disk)
           n == nextSSTOf(m.files)
<1>1. /\ pc = "closed" /\ disk' = setCurrent(disk, g) /\ pc' = "cleanSST"
      /\ batch' = batch /\ views' = views
  BY DEF OpenManifest
<1>2. /\ isDisk(disk) /\ diskOK(disk) /\ views = noView /\ views \in [Readers -> SUBSET View]
      /\ batch \in Batches \cup {noRecords}
  BY <1>1 DEF IInv, typed, viewsOK
<1>3. m \in Manifest /\ m.files \in Files /\ m.flushed \in Nat /\ m = [flushed |-> m.flushed, files |-> m.files]
  BY <1>2, ManifestType
<1>4. g \in Nat /\ (g # 0 => g \in DOMAIN disk.manifests) /\ (g = 0 => DOMAIN disk.manifests = {})
  BY <1>2, GenerationType DEF diskOK
<1>5. n \in Nat \ {0} /\ below(idsOf(m.files), n)
  <2>1. bounded(idsOf(m.files))
    BY <1>2 DEF diskOK, tablesOK, bounded, below
  <2> QED
    BY <1>3, <2>1, NextSST
<1>6. /\ disk'.current = g /\ disk'.segs = disk.segs /\ disk'.ssts = disk.ssts
      /\ disk'.manifests = disk.manifests /\ isDisk(disk')
  BY <1>1, <1>2, <1>4, CurrentChanged
<1>7. (g # 0 => disk.manifests[g] = m) /\ (g = 0 => m = emptyManifest)
  BY <1>4 DEF manifestOf
<1> HIDE DEF g, m, n
<1>8. /\ mem'.gen = g /\ mem'.flushed = m.flushed /\ mem'.files = m.files /\ mem'.nextSST = n
      /\ mem'.obsolete = {} /\ mem'.phase = "manifest" /\ mem' \in Mem
  <2>1. mem' = [emptyMem EXCEPT !.gen = g, !.flushed = m.flushed, !.files = m.files, !.nextSST = n]
    BY DEF OpenManifest, g, m, n
  <2>2. mem' = [lsn |-> 0, active |-> noRecords, gen |-> g, flushed |-> m.flushed,
                files |-> m.files, nextSST |-> n, obsolete |-> {}, phase |-> "manifest", plan |-> noPlan]
    BY <2>1 DEF emptyMem
  <2>3. 0 \in Nat /\ noRecords \in Records /\ noPlan \in Plan /\ {} \in SUBSET Nat
    <3>1. emptyMem.plan = noPlan
      BY DEF emptyMem
    <3>2. 0 \in Nat
      BY SMTT(20)
    <3> QED
      BY <3>1, <3>2, EmptyMem, MemFields, NoRecordsType
  <2>4. mem' \in Mem
    BY <1>3, <1>4, <1>5, <2>2, <2>3, IsMem
  <2> QED
    BY <2>2, <2>4
<1>9. opening' /\ ~ opened'
  BY <1>1 DEF opening, opened, Opening, Opened
<1>10. typed'
  <2>1. /\ pc' \in Opening /\ pc' \notin {"roll", "append"} /\ pc' \notin Opened
    BY <1>1 DEF Opening, Opened
  <2> QED
    BY <1>1, <1>2, <1>6, <1>8, <2>1 DEF typed
<1>11. publishedOK'
  <2>1. published' = m /\ pc' # "current"
    BY <1>1, <1>3, <1>8 DEF published
  <2> QED
    BY <1>4, <1>6, <1>7, <1>8, <2>1 DEF publishedOK
<1>12. filesOK'
  <2>1. tablesOK(disk.ssts, m.files) /\ countOf(m.files) <= MaxSSTFiles
    BY <1>2 DEF diskOK, m
  <2>2. below({}, n) /\ {} \cap idsOf(m.files) = {}
    BY DEF below
  <2> QED
    BY <1>5, <1>6, <1>8, <2>1, <2>2 DEF filesOK
<1>13. openingOK'
  <2>1. (walOK(disk.segs, m.flushed) \/ tornFirst(disk.segs)) /\ bounded(DOMAIN disk.ssts)
    BY <1>2 DEF diskOK, m
  <2> QED
    BY <1>1, <1>6, <1>8, <2>1 DEF openingOK
<1>14. viewsOK'
  <2>1. \A r \in Readers : noView[r] = {}
    BY DEF noView
  <2> QED
    BY <1>1, <1>2, <2>1 DEF viewsOK
<1>15. pc' \notin {"closed", "poisoned", "rotate", "manifest", "current", "outputs"}
  BY <1>1
<1> QED
  BY <1>9, <1>10, <1>11, <1>12, <1>13, <1>14, <1>15 DEF IInv

\* A step of Open before the WAL is read.
LEMMA OpeningStep ==
    ASSUME IInv, opening, opening', mem' = mem, batch' = batch, views' = views,
           isDisk(disk'), disk'.segs = disk.segs, publishedOK',
           tablesOK(disk'.ssts, mem.files), bounded(DOMAIN disk'.ssts),
           pc' # "cleanSST" => below(DOMAIN disk'.ssts, mem.nextSST)
    PROVE  IInv'
<1>1. /\ typed /\ filesOK /\ openingOK /\ viewsOK /\ views = noView
  BY DEF IInv, viewsOK
<1>2. /\ pc' \in Opening \/ pc' = "cleanManifests"
      /\ pc' \notin {"closed", "poisoned", "rotate", "manifest", "current", "outputs"}
      /\ pc' \notin {"roll", "append"} /\ pc' \notin Opened
  BY DEF opening, Opening, Opened
<1>3. ~ opened'
  BY <1>2 DEF opening, opened, Opening
<1>4. mem.phase = "manifest"
  BY <1>1 DEF typed, opening
<1>5. typed'
  BY <1>1, <1>2, <1>4 DEF typed
<1>6. filesOK'
  BY <1>1 DEF filesOK
<1>7. openingOK'
  BY <1>1 DEF openingOK
<1>8. viewsOK'
  <2>1. \A r \in Readers : noView[r] = {}
    BY DEF noView
  <2> QED
    BY <1>1, <2>1 DEF viewsOK
<1> QED
  BY <1>2, <1>3, <1>5, <1>6, <1>7, <1>8 DEF IInv

LEMMA CleanSSTOK ==
    ASSUME IInv, CleanSST
    PROVE  IInv'
<1> DEFINE orphans == DOMAIN disk.ssts \ idsOf(mem.files)
<1>1. /\ pc = "cleanSST" /\ mem' = mem /\ batch' = batch /\ views' = views
      /\ \/ orphans = {} /\ pc' = "cleanManifests" /\ disk' = disk
         \/ /\ \E i \in orphans : disk' = removeSSTs(disk, {i})
            /\ pc' = pc
  BY DEF CleanSST
<1>2. opening /\ mem.phase = "manifest"
  BY <1>1 DEF opening, Opening, IInv, typed
<1>3. opening'
  BY <1>1, <1>2 DEF opening, Opening
<1>4. isDisk(disk) /\ publishedOK /\ filesOK /\ openingOK /\ mem.files \in Files
  BY <1>2, MemFields DEF IInv, typed
<1>5. CASE orphans = {} /\ pc' = "cleanManifests" /\ disk' = disk
  <2>1. below(DOMAIN disk.ssts, mem.nextSST)
    BY <1>4, <1>5 DEF filesOK, below
  <2>2. publishedOK'
    BY <1>1, <1>4, <1>5 DEF publishedOK, published
  <2>3. tablesOK(disk'.ssts, mem.files) /\ bounded(DOMAIN disk'.ssts)
    BY <1>4, <1>5 DEF filesOK, openingOK
  <2> QED
    BY <1>1, <1>2, <1>3, <1>4, <1>5, <2>1, <2>2, <2>3, OpeningStep
<1>6. ASSUME NEW i \in orphans, disk' = removeSSTs(disk, {i}), pc' = pc
      PROVE  IInv'
  <2>1. isDisk(disk') /\ tablesCut(disk.ssts, disk'.ssts, {i})
    BY <1>4, <1>6, CutTables
  <2>2. disk'.segs = disk.segs /\ disk'.manifests = disk.manifests /\ disk'.current = disk.current
    BY <1>4, <1>6, CutSSTsOnly
  <2>3. publishedOK'
    BY <1>1, <1>4, <1>6, <2>2 DEF publishedOK, published
  <2>4. tablesOK(disk'.ssts, mem.files)
    <3>1. idsOf(mem.files) \subseteq DOMAIN disk.ssts \ {i}
      BY <1>4 DEF filesOK, tablesOK
    <3>2. idsOf(mem.files) \subseteq DOMAIN disk'.ssts /\ sameTables(disk.ssts, disk'.ssts, mem.files)
      BY <2>1, <3>1 DEF tablesCut, sameTables
    <3> QED
      BY <1>4, <3>2, TablesKept DEF filesOK
  <2>5. bounded(DOMAIN disk'.ssts)
    BY <1>4, <2>1 DEF openingOK, bounded, below, tablesCut
  <2> QED
    BY <1>1, <1>2, <1>3, <1>6, <2>1, <2>2, <2>3, <2>4, <2>5, OpeningStep
<1> QED
  BY <1>1, <1>5, <1>6

\* The parts of the invariant when the WAL is open.
LEMMA OpenedStep ==
    ASSUME typed', opened', publishedOK', filesOK', openedOK', viewsOK',
           pc' \in {"rotate", "manifest", "current"} => planOK',
           pc' = "outputs" => outputsOK'
    PROVE  IInv'
<1>1. pc' \in Opened \/ pc' = "cleanManifests"
  BY DEF opened
<1>2. pc' \notin {"closed", "poisoned"}
  BY <1>1 DEF Opened
<1>3. ~ opening'
  BY DEF opened, opening, Opened, Opening
<1> QED
  BY <1>2, <1>3 DEF IInv

LEMMA WalSelf ==
    ASSUME NEW segs \in Seq(Segment), NEW flushed, walOK(segs, flushed)
    PROVE  walKept(segs, segs, flushed)
  BY DEF walKept, sameWAL

\* Readers keep their tables.
LEMMA ViewsKept ==
    ASSUME IInv, views' = views, opened', DOMAIN disk.ssts \subseteq DOMAIN disk'.ssts
    PROVE  viewsOK'
<1>1. pc' # "closed" /\ ~ opening'
  BY DEF opened, opening, Opened, Opening
<1> QED
  BY <1>1 DEF IInv, viewsOK

\* A step that serves the same manifest and memtable as before.
LEMMA OpenedKeep ==
    ASSUME wellOrdered, IInv, opened, opened', typed', publishedOK', viewsOK',
           tablesOK(disk'.ssts, mem.files), DOMAIN disk'.ssts \subseteq DOMAIN disk.ssts,
           mem'.lsn = mem.lsn, mem'.active = mem.active, mem'.flushed = mem.flushed,
           mem'.files = mem.files, mem'.nextSST = mem.nextSST, mem'.obsolete \subseteq mem.obsolete,
           walKept(disk.segs, disk'.segs, mem.flushed), disk'.segs # <<>>,
           lastSegment(disk'.segs).tail = "clean",
           pc' \in {"rotate", "manifest", "current", "outputs"} \/ below(DOMAIN disk.ssts, mem.nextSST),
           pc' \in {"trim", "outputs"} => mem.active = noRecords /\ mem.flushed = mem.lsn,
           pc' = "roll" => lastSegment(disk'.segs).frames # <<>>,
           pc' \in {"rotate", "manifest", "current"} => planOK',
           pc' = "outputs" => outputsOK'
    PROVE  IInv'
<1>1. filesOK /\ openedOK
  BY DEF IInv
<1>2. filesOK'
  BY <1>1 DEF filesOK, below
<1>3. framesOK(disk.segs, mem.flushed)
  BY OpenedFacts, WalFrames
<1>4. /\ walOK(disk'.segs, mem.flushed) /\ walEnd(disk'.segs, mem.flushed) = mem.lsn
      /\ replayed(disk'.segs, mem.flushed) = mem.active
  <2>1. sameWAL(disk.segs, disk'.segs, mem.flushed) /\ walOK(disk'.segs, mem.flushed)
    BY DEF walKept
  <2>2. replayed(disk'.segs, mem.flushed) = replayed(disk.segs, mem.flushed)
    BY <1>3, <2>1, OpenedFacts, ReplayedSame
  <2> QED
    BY <1>1, <2>1, <2>2 DEF openedOK, sameWAL
<1>5. pc' \in {"rotate", "manifest", "current", "outputs"} \/ below(DOMAIN disk'.ssts, mem.nextSST)
  BY DEF below
<1>6. openedOK'
  BY <1>4, <1>5 DEF openedOK
<1> QED
  BY <1>2, <1>6, OpenedStep

\* The same when the tables and manifests stay as well.
LEMMA OpenedSegs ==
    ASSUME wellOrdered, IInv, opened, opened', typed', views' = views, pc # "current", pc' # "current",
           disk'.ssts = disk.ssts, disk'.manifests = disk.manifests, disk'.current = disk.current,
           mem'.lsn = mem.lsn, mem'.active = mem.active, mem'.flushed = mem.flushed,
           mem'.files = mem.files, mem'.nextSST = mem.nextSST, mem'.obsolete \subseteq mem.obsolete,
           mem'.gen = mem.gen,
           walKept(disk.segs, disk'.segs, mem.flushed), disk'.segs # <<>>,
           lastSegment(disk'.segs).tail = "clean",
           pc' \in {"rotate", "manifest", "current", "outputs"} \/ below(DOMAIN disk.ssts, mem.nextSST),
           pc' \in {"trim", "outputs"} => mem.active = noRecords /\ mem.flushed = mem.lsn,
           pc' = "roll" => lastSegment(disk'.segs).frames # <<>>,
           pc' \in {"rotate", "manifest", "current"} => planOK',
           pc' = "outputs" => outputsOK'
    PROVE  IInv'
<1>1. DOMAIN disk.ssts \subseteq DOMAIN disk'.ssts
  OBVIOUS
<1>2. viewsOK'
  BY <1>1, ViewsKept
<1>3. publishedOK'
  <2>1. publishedOK
    BY DEF IInv
  <2>2. published' = published
    BY DEF published
  <2> QED
    BY <2>1, <2>2 DEF publishedOK
<1>4. tablesOK(disk'.ssts, mem.files) /\ DOMAIN disk'.ssts \subseteq DOMAIN disk.ssts
  BY DEF IInv, filesOK
<1> QED
  BY <1>2, <1>3, <1>4, OpenedKeep

LEMMA TypedOpened ==
    ASSUME isDisk(disk'), mem' \in Mem, opened', mem'.phase # "manifest",
           batch' \in Batches \cup {noRecords}, pc' \in {"roll", "append"} => batch' \in Batches,
           views' \in [Readers -> SUBSET View]
    PROVE  typed'
<1>1. pc' \in Opened \/ pc' = "cleanManifests"
  BY DEF opened
<1>2. pc' \notin Opening
  BY <1>1 DEF Opened, Opening
<1> QED
  BY <1>1, <1>2 DEF typed

\* What the invariant says in a phase of an open WAL.
LEMMA InOpened ==
    ASSUME IInv, pc \in Opened
    PROVE  /\ opened /\ mem.phase # "manifest" /\ isDisk(disk) /\ mem \in Mem
           /\ batch \in Batches \cup {noRecords} /\ views \in [Readers -> SUBSET View]
           /\ publishedOK /\ filesOK /\ openedOK /\ viewsOK
<1>1. opened
  BY DEF opened
<1> QED
  BY <1>1 DEF IInv, typed

LEMMA ApplyOK ==
    ASSUME wellOrdered, IInv, NEW b \in Batches, Apply(b)
    PROVE  IInv'
<1>1. /\ pc = "idle" /\ batch' = b /\ disk' = disk /\ mem' = mem /\ views' = views
      /\ pc' = IF rollNeeded(disk.segs) THEN "roll" ELSE "append"
  BY DEF Apply
<1>2. pc \in Opened /\ pc' \in Opened /\ pc' \in {"roll", "append"}
  BY <1>1 DEF Opened
<1>3. /\ opened /\ mem.phase # "manifest" /\ isDisk(disk) /\ mem \in Mem
      /\ views \in [Readers -> SUBSET View] /\ openedOK
  BY <1>2, InOpened
<1>4. opened'
  BY <1>2 DEF opened
<1>5. typed'
  BY <1>1, <1>3, <1>4, TypedOpened
<1>6. /\ walKept(disk.segs, disk.segs, mem.flushed) /\ disk.segs # <<>>
      /\ lastSegment(disk.segs).tail = "clean"
  BY <1>3, OpenedFacts, WalSelf
<1>7. below(DOMAIN disk.ssts, mem.nextSST)
  BY <1>1, <1>3 DEF openedOK
<1>8. pc' = "roll" => lastSegment(disk.segs).frames # <<>>
  <2> SUFFICES ASSUME rollNeeded(disk.segs), lastSegment(disk.segs).frames = <<>>
               PROVE  FALSE
    BY <1>1
  <2>1. Len(lastSegment(disk.segs).frames) > 0
    BY DEF rollNeeded
  <2>2. Len(<<>>) = 0 /\ ~ (0 > 0)
    BY SMTT(20)
  <2> QED
    BY <2>1, <2>2
<1>9. pc' \notin {"rotate", "manifest", "current", "outputs", "trim"} /\ pc # "current"
  BY <1>1
<1>10. mem.obsolete \subseteq mem.obsolete
  OBVIOUS
<1> QED
  BY <1>1, <1>3, <1>4, <1>5, <1>6, <1>7, <1>8, <1>9, <1>10, OpenedSegs

\* A new segment after one that holds frames.
LEMMA NewSegment ==
    ASSUME IInv, opened, lastSegment(disk.segs).frames # <<>>
    PROVE  LET segs2 == Append(disk.segs, segment(mem.lsn + 1)) IN
           walKept(disk.segs, segs2, mem.flushed) /\ segs2 # <<>> /\ lastSegment(segs2).tail = "clean"
<1> DEFINE segs2 == Append(disk.segs, segment(mem.lsn + 1))
<1>1. segment(mem.lsn + 1) \in {tornHeader, segment(walEnd(disk.segs, mem.flushed) + 1)}
  BY OpenedFacts
<1>2. walKept(disk.segs, segs2, mem.flushed)
  BY <1>1, OpenedFacts, AddSegment
<1>3. \A q \in Seq(Segment), s \in Segment : Append(q, s) # <<>> /\ Append(q, s)[Len(Append(q, s))] = s
  BY SMTT(20)
<1>4. segment(mem.lsn + 1) \in Segment /\ segment(mem.lsn + 1).tail = "clean"
  <2>1. mem.lsn + 1 \in Nat
    <3>1. mem.lsn \in Nat
      BY OpenedFacts, MemFields
    <3> QED
      BY <3>1, SMTT(20)
  <2> QED
    BY <2>1, SegmentTypes
<1> QED
  BY <1>2, <1>3, <1>4, OpenedFacts DEF lastSegment

LEMMA RollSegmentOK ==
    ASSUME wellOrdered, IInv, RollSegment
    PROVE  IInv'
<1> DEFINE segs2 == Append(disk.segs, segment(mem.lsn + 1))
<1>1. /\ pc = "roll" /\ disk' = withSegs(disk, segs2) /\ pc' = "append"
      /\ mem' = mem /\ batch' = batch /\ views' = views
  BY DEF RollSegment
<1>2. pc \in Opened /\ pc' \in Opened
  BY <1>1 DEF Opened
<1>3. /\ opened /\ mem.phase # "manifest" /\ isDisk(disk) /\ mem \in Mem
      /\ views \in [Readers -> SUBSET View] /\ openedOK /\ batch \in Batches
  BY <1>1, <1>2, InOpened DEF IInv, typed
<1>4. opened'
  BY <1>2 DEF opened
<1>5. walKept(disk.segs, segs2, mem.flushed) /\ segs2 # <<>> /\ lastSegment(segs2).tail = "clean"
  <2>1. lastSegment(disk.segs).frames # <<>>
    BY <1>1, <1>3 DEF openedOK
  <2> QED
    BY <1>3, <2>1, NewSegment
<1> HIDE DEF segs2
<1>6. /\ isDisk(disk') /\ disk'.segs = segs2 /\ disk'.ssts = disk.ssts
      /\ disk'.manifests = disk.manifests /\ disk'.current = disk.current
  BY <1>1, <1>3, <1>5, SegsChanged DEF walKept
<1>7. typed'
  BY <1>1, <1>3, <1>4, <1>6, TypedOpened
<1>8. below(DOMAIN disk.ssts, mem.nextSST)
  BY <1>1, <1>3 DEF openedOK
<1>9. pc' \notin {"rotate", "manifest", "current", "outputs", "trim", "roll"} /\ pc # "current"
  BY <1>1
<1>10. mem.obsolete \subseteq mem.obsolete
  OBVIOUS
<1> QED
  BY <1>1, <1>3, <1>4, <1>5, <1>6, <1>7, <1>8, <1>9, <1>10, OpenedSegs

LEMMA RotateWALOK ==
    ASSUME wellOrdered, IInv, RotateWAL
    PROVE  IInv'
<1> DEFINE segs2 == Append(disk.segs, segment(mem.lsn + 1))
<1>1. /\ pc = "rotate" /\ pc' = "manifest" /\ mem' = mem /\ batch' = batch /\ views' = views
      /\ disk' = IF lastSegment(disk.segs).frames = <<>> THEN disk ELSE withSegs(disk, segs2)
  BY DEF RotateWAL
<1>2. pc \in Opened /\ pc' \in Opened
  BY <1>1 DEF Opened
<1>3. /\ opened /\ mem.phase # "manifest" /\ isDisk(disk) /\ mem \in Mem
      /\ views \in [Readers -> SUBSET View] /\ batch \in Batches \cup {noRecords} /\ planOK
  BY <1>1, <1>2, InOpened DEF IInv
<1>4. opened'
  BY <1>2 DEF opened
<1>5. /\ isDisk(disk') /\ disk'.ssts = disk.ssts /\ disk'.manifests = disk.manifests
      /\ disk'.current = disk.current /\ walKept(disk.segs, disk'.segs, mem.flushed)
      /\ disk'.segs # <<>> /\ lastSegment(disk'.segs).tail = "clean"
  <2>1. CASE lastSegment(disk.segs).frames = <<>>
    <3>1. disk' = disk
      BY <1>1, <2>1
    <3> QED
      BY <1>3, <3>1, OpenedFacts, WalSelf
  <2>2. CASE lastSegment(disk.segs).frames # <<>>
    <3>1. disk' = withSegs(disk, segs2)
      BY <1>1, <2>2
    <3>2. walKept(disk.segs, segs2, mem.flushed) /\ segs2 # <<>> /\ lastSegment(segs2).tail = "clean"
      BY <1>3, <2>2, NewSegment
    <3> HIDE DEF segs2
    <3>3. /\ isDisk(disk') /\ disk'.segs = segs2 /\ disk'.ssts = disk.ssts
          /\ disk'.manifests = disk.manifests /\ disk'.current = disk.current
      BY <1>3, <3>1, <3>2, SegsChanged DEF walKept
    <3> QED
      BY <3>2, <3>3
  <2> QED
    BY <2>1, <2>2
<1>6. pc' \notin {"current", "outputs", "trim", "roll", "append"} /\ pc # "current" /\ pc' = "manifest"
  BY <1>1
<1>7. typed'
  BY <1>1, <1>3, <1>4, <1>5, <1>6, TypedOpened
<1>8. planOK'
  BY <1>1, <1>3, <1>5, <1>6 DEF planOK
<1>9. mem.obsolete \subseteq mem.obsolete
  OBVIOUS
<1> QED
  BY <1>1, <1>3, <1>4, <1>5, <1>6, <1>7, <1>8, <1>9, OpenedSegs

\* The plan of the engine changed.
LEMMA PlanType ==
    ASSUME mem \in Mem, NEW plan \in Plan,
           mem' = [mem EXCEPT !.plan = plan]
    PROVE  /\ mem' \in Mem /\ mem'.lsn = mem.lsn /\ mem'.active = mem.active /\ mem'.gen = mem.gen
           /\ mem'.flushed = mem.flushed /\ mem'.files = mem.files /\ mem'.nextSST = mem.nextSST
           /\ mem'.obsolete = mem.obsolete /\ mem'.phase = mem.phase /\ mem'.plan = plan
<1>1. /\ mem = [lsn |-> mem.lsn, active |-> mem.active, gen |-> mem.gen,
                flushed |-> mem.flushed, files |-> mem.files, nextSST |-> mem.nextSST,
                obsolete |-> mem.obsolete, phase |-> mem.phase, plan |-> mem.plan]
      /\ mem.lsn \in Nat /\ mem.active \in Records /\ mem.gen \in Nat /\ mem.flushed \in Nat
      /\ mem.files \in Files /\ mem.nextSST \in Nat \ {0} /\ mem.obsolete \in SUBSET Nat
      /\ mem.phase \in {"manifest", "checkpoint", "open"} /\ mem.plan \in Plan
  BY MemFields
<1>2. PICK l, a, g, f, s, x, o, p, q :
         /\ mem = [lsn |-> l, active |-> a, gen |-> g,
                flushed |-> f, files |-> s, nextSST |-> x,
                obsolete |-> o, phase |-> p, plan |-> q]
         /\ l = mem.lsn /\ a = mem.active /\ g = mem.gen /\ f = mem.flushed /\ s = mem.files
         /\ x = mem.nextSST /\ o = mem.obsolete /\ p = mem.phase /\ q = mem.plan
  BY <1>1
<1>3. mem' = [[lsn |-> l, active |-> a, gen |-> g,
               flushed |-> f, files |-> s, nextSST |-> x,
               obsolete |-> o, phase |-> p, plan |-> q]
               EXCEPT !.plan = plan]
  BY <1>2
<1>4. mem' = [lsn |-> l, active |-> a, gen |-> g,
              flushed |-> f, files |-> s, nextSST |-> x,
              obsolete |-> o, phase |-> p, plan |-> plan]
  BY <1>3
<1>5. /\ l \in Nat /\ a \in Records /\ g \in Nat /\ f \in Nat /\ s \in Files
      /\ x \in Nat \ {0} /\ o \in SUBSET Nat /\ p \in {"manifest", "checkpoint", "open"}
      /\ q \in Plan
  BY <1>1, <1>2
<1>6. mem' \in Mem
  BY <1>4, <1>5 DEF Mem
<1> QED
  BY <1>2, <1>4, <1>6

\* The engine opened.
LEMMA PhaseType ==
    ASSUME mem \in Mem, NEW phase \in {"manifest", "checkpoint", "open"},
           mem' = [mem EXCEPT !.phase = phase]
    PROVE  /\ mem' \in Mem /\ mem'.lsn = mem.lsn /\ mem'.active = mem.active /\ mem'.gen = mem.gen
           /\ mem'.flushed = mem.flushed /\ mem'.files = mem.files /\ mem'.nextSST = mem.nextSST
           /\ mem'.obsolete = mem.obsolete /\ mem'.phase = phase /\ mem'.plan = mem.plan
<1>1. /\ mem = [lsn |-> mem.lsn, active |-> mem.active, gen |-> mem.gen,
                flushed |-> mem.flushed, files |-> mem.files, nextSST |-> mem.nextSST,
                obsolete |-> mem.obsolete, phase |-> mem.phase, plan |-> mem.plan]
      /\ mem.lsn \in Nat /\ mem.active \in Records /\ mem.gen \in Nat /\ mem.flushed \in Nat
      /\ mem.files \in Files /\ mem.nextSST \in Nat \ {0} /\ mem.obsolete \in SUBSET Nat
      /\ mem.phase \in {"manifest", "checkpoint", "open"} /\ mem.plan \in Plan
  BY MemFields
<1>2. PICK l, a, g, f, s, x, o, p, q :
         /\ mem = [lsn |-> l, active |-> a, gen |-> g,
                flushed |-> f, files |-> s, nextSST |-> x,
                obsolete |-> o, phase |-> p, plan |-> q]
         /\ l = mem.lsn /\ a = mem.active /\ g = mem.gen /\ f = mem.flushed /\ s = mem.files
         /\ x = mem.nextSST /\ o = mem.obsolete /\ p = mem.phase /\ q = mem.plan
  BY <1>1
<1>3. mem' = [[lsn |-> l, active |-> a, gen |-> g,
               flushed |-> f, files |-> s, nextSST |-> x,
               obsolete |-> o, phase |-> p, plan |-> q]
               EXCEPT !.phase = phase]
  BY <1>2
<1>4. mem' = [lsn |-> l, active |-> a, gen |-> g,
              flushed |-> f, files |-> s, nextSST |-> x,
              obsolete |-> o, phase |-> phase, plan |-> q]
  BY <1>3
<1>5. /\ l \in Nat /\ a \in Records /\ g \in Nat /\ f \in Nat /\ s \in Files
      /\ x \in Nat \ {0} /\ o \in SUBSET Nat /\ p \in {"manifest", "checkpoint", "open"}
      /\ q \in Plan
  BY <1>1, <1>2
<1>6. mem' \in Mem
  BY <1>4, <1>5 DEF Mem
<1> QED
  BY <1>2, <1>4, <1>6

LEMMA TrimWALOK ==
    ASSUME wellOrdered, IInv, TrimWAL
    PROVE  IInv'
<1> DEFINE plan == [files |-> noFiles, nextSST |-> mem.nextSST, compacting |-> TRUE]
<1>1. /\ pc = "trim" /\ batch' = batch /\ views' = views
      /\ \/ Len(disk.segs) > 1 /\ disk' = withSegs(disk, Tail(disk.segs)) /\ mem' = mem /\ pc' = pc
         \/ mem' = [mem EXCEPT !.plan = plan] /\ pc' = "outputs" /\ disk' = disk
         \/ mem' = [mem EXCEPT !.phase = "open"] /\ pc' = "idle" /\ disk' = disk
  BY DEF TrimWAL, finish
<1>2. pc \in Opened
  BY <1>1 DEF Opened
<1>3. /\ opened /\ mem.phase # "manifest" /\ isDisk(disk) /\ mem \in Mem
      /\ views \in [Readers -> SUBSET View] /\ batch \in Batches \cup {noRecords}
      /\ mem.active = noRecords /\ mem.flushed = mem.lsn /\ below(DOMAIN disk.ssts, mem.nextSST)
      /\ mem.nextSST \in Nat \ {0}
  BY <1>1, <1>2, InOpened, MemFields DEF openedOK
<1>4. /\ disk.segs \in Seq(Segment) /\ disk.segs # <<>> /\ mem.flushed \in Nat
      /\ walOK(disk.segs, mem.flushed) /\ lastSegment(disk.segs).tail = "clean"
      /\ walEnd(disk.segs, mem.flushed) = mem.flushed
      /\ walKept(disk.segs, disk.segs, mem.flushed)
  BY <1>3, OpenedFacts, WalSelf
<1>5. mem.obsolete \subseteq mem.obsolete
  OBVIOUS
<1>6. ASSUME Len(disk.segs) > 1, disk' = withSegs(disk, Tail(disk.segs)), mem' = mem, pc' = pc
      PROVE  IInv'
  <2> DEFINE segs2 == Tail(disk.segs)
  <2>1. walKept(disk.segs, segs2, mem.flushed) /\ segs2 # <<>> /\ lastSegment(segs2).tail = "clean"
    BY <1>4, <1>6, TrimFirst
  <2> HIDE DEF segs2
  <2>2. /\ isDisk(disk') /\ disk'.segs = segs2 /\ disk'.ssts = disk.ssts
        /\ disk'.manifests = disk.manifests /\ disk'.current = disk.current
    BY <1>3, <1>6, <2>1, SegsChanged DEF walKept, segs2
  <2>3. opened' /\ pc' \notin {"rotate", "manifest", "current", "outputs", "roll", "append"} /\ pc # "current"
    BY <1>1, <1>2, <1>6 DEF opened
  <2>4. typed'
    BY <1>1, <1>3, <1>6, <2>2, <2>3, TypedOpened
  <2> QED
    BY <1>1, <1>3, <1>5, <1>6, <2>1, <2>2, <2>3, <2>4, OpenedSegs
<1>7. ASSUME mem' = [mem EXCEPT !.plan = plan], pc' = "outputs", disk' = disk
      PROVE  IInv'
  <2>1. plan \in Plan /\ plan.files = noFiles /\ plan.nextSST = mem.nextSST /\ plan.compacting = TRUE
    BY <1>3, NoFiles DEF Plan
  <2> HIDE DEF plan
  <2>2. /\ mem' \in Mem /\ mem'.plan = plan /\ mem'.lsn = mem.lsn /\ mem'.active = mem.active
        /\ mem'.gen = mem.gen /\ mem'.flushed = mem.flushed /\ mem'.files = mem.files
        /\ mem'.nextSST = mem.nextSST /\ mem'.obsolete = mem.obsolete /\ mem'.phase = mem.phase
    BY <1>3, <1>7, <2>1, PlanType
  <2>3. opened' /\ pc' \notin {"rotate", "manifest", "current", "roll", "append"} /\ pc # "current"
    BY <1>1, <1>7 DEF opened, Opened
  <2>4. typed'
    BY <1>1, <1>3, <1>7, <2>2, <2>3, TypedOpened
  <2>5. mem.nextSST <= mem.nextSST
    BY <1>3, SMTT(20)
  <2>6. tablesOK(disk.ssts, noFiles) /\ idsOf(noFiles) = {} /\ noFiles.l0 = <<>>
    BY NoFiles DEF tablesOK
  <2>7. outputsOK'
    BY <1>3, <1>7, <2>1, <2>2, <2>5, <2>6 DEF outputsOK
  <2> QED
    BY <1>1, <1>3, <1>4, <1>5, <1>7, <2>2, <2>3, <2>4, <2>7, OpenedSegs
<1>8. ASSUME mem' = [mem EXCEPT !.phase = "open"], pc' = "idle", disk' = disk
      PROVE  IInv'
  <2>1. /\ mem' \in Mem /\ mem'.lsn = mem.lsn /\ mem'.active = mem.active
        /\ mem'.gen = mem.gen /\ mem'.flushed = mem.flushed /\ mem'.files = mem.files
        /\ mem'.nextSST = mem.nextSST /\ mem'.obsolete = mem.obsolete /\ mem'.phase = "open"
    BY <1>3, <1>8, PhaseType
  <2>2. /\ opened' /\ pc # "current"
        /\ pc' \notin {"rotate", "manifest", "current", "outputs", "trim", "roll", "append"}
    BY <1>1, <1>8 DEF opened, Opened
  <2>3. mem'.phase # "manifest"
    BY <2>1
  <2>4. typed'
    BY <1>1, <1>3, <1>8, <2>1, <2>2, <2>3, TypedOpened
  <2> QED
    BY <1>1, <1>3, <1>4, <1>5, <1>8, <2>1, <2>2, <2>4, OpenedSegs
<1> QED
  BY <1>1, <1>6, <1>7, <1>8

LEMMA FinishOutputsOK ==
    ASSUME wellOrdered, IInv, FinishOutputs
    PROVE  IInv'
<1>1. /\ pc = "outputs" /\ unwritten = {} /\ pc' = "manifest"
      /\ disk' = disk /\ mem' = mem /\ batch' = batch /\ views' = views
  BY DEF FinishOutputs
<1>2. pc \in Opened /\ pc' \in Opened
  BY <1>1 DEF Opened
<1>3. /\ opened /\ mem.phase # "manifest" /\ isDisk(disk) /\ mem \in Mem
      /\ views \in [Readers -> SUBSET View] /\ batch \in Batches \cup {noRecords}
      /\ mem.active = noRecords /\ outputsOK /\ filesOK
  BY <1>1, <1>2, InOpened DEF openedOK, IInv
<1>4. mem.files \in Files /\ mem.plan.files \in Files /\ mem.nextSST \in Nat
      /\ isTables(disk.ssts)
  BY <1>3, MemFields DEF isDisk
<1>5. readAll(disk.ssts, noRecords, mem.plan.files) = readAll(disk.ssts, noRecords, mem.files)
  <2>1. \A id \in idsOf(mem.plan.files) : id \in DOMAIN disk.ssts /\ recordsOf(disk.ssts, id) = disk.ssts[id]
    BY <1>3 DEF outputsOK, tablesOK, recordsOf
  <2>2. \A id \in idsOf(mem.plan.files) : \A k \in DOMAIN recordsOf(disk.ssts, id) :
           /\ k \in live(disk.ssts, mem.files)
           /\ recordsOf(disk.ssts, id)[k] = merged(disk.ssts, mem.files)[k]
    <3> SUFFICES ASSUME NEW id \in idsOf(mem.plan.files), NEW k \in DOMAIN recordsOf(disk.ssts, id)
                 PROVE  /\ k \in live(disk.ssts, mem.files)
                        /\ recordsOf(disk.ssts, id)[k] = merged(disk.ssts, mem.files)[k]
      OBVIOUS
    <3>1. k \in DOMAIN disk.ssts[id] /\ recordsOf(disk.ssts, id)[k] = disk.ssts[id][k]
      BY <2>1
    <3>2. k \in live(disk.ssts, mem.files) /\ disk.ssts[id][k] = merged(disk.ssts, mem.files)[k]
      BY <1>3, <3>1 DEF outputsOK
    <3> QED
      BY <3>1, <3>2
  <2>3. \A k \in live(disk.ssts, mem.files) :
           \E id \in idsOf(mem.plan.files) : k \in DOMAIN recordsOf(disk.ssts, id)
    BY <1>1, ZenonT(60) DEF unwritten, live
  <2>4. /\ ordered(disk.ssts, mem.files.l1) /\ ordered(disk.ssts, mem.plan.files.l1)
        /\ mem.plan.files.l0 = <<>>
    BY <1>3 DEF outputsOK, filesOK, tablesOK
  <2> QED
    BY <1>4, <2>2, <2>3, <2>4, CompactedReads, ZenonT(60)
<1>6. /\ mem.obsolete \cap idsOf(mem.plan.files) = {}
      /\ idsOf(mem.files) \cap idsOf(mem.plan.files) = {}
  <2>1. \A i \in mem.obsolete \cup idsOf(mem.files) : i < mem.nextSST
    BY <1>3 DEF filesOK, below
  <2>2. \A i \in idsOf(mem.plan.files) : mem.nextSST <= i /\ i \in Nat
    BY <1>3, <1>4 DEF outputsOK, tablesOK, isTables
  <2>3. \A i \in Nat : i < mem.nextSST => ~ (mem.nextSST <= i)
    BY <1>4, SMTT(20)
  <2> QED
    BY <2>1, <2>2, <2>3
<1>7. opened' /\ pc' \notin {"current", "outputs", "trim", "roll", "append"} /\ pc # "current"
  BY <1>1, <1>2 DEF opened
<1>8. typed'
  BY <1>1, <1>3, <1>7, TypedOpened
<1>9. planOK'
  BY <1>1, <1>3, <1>5, <1>6, <1>7 DEF planOK, outputsOK
<1>10. /\ walKept(disk.segs, disk.segs, mem.flushed) /\ disk.segs # <<>>
       /\ lastSegment(disk.segs).tail = "clean"
  BY <1>3, OpenedFacts, WalSelf
<1>11. mem.obsolete \subseteq mem.obsolete
  OBVIOUS
<1> QED
  BY <1>1, <1>3, <1>7, <1>8, <1>9, <1>10, <1>11, OpenedSegs

LEMMA CleanManifestsOK ==
    ASSUME wellOrdered, IInv, CleanManifests
    PROVE  IInv'
<1> DEFINE others == DOMAIN disk.manifests \ {mem.gen}
<1>1. /\ pc = "cleanManifests" /\ batch' = batch /\ views' = views
      /\ \/ mem.phase = "manifest" /\ pc' = "wal" /\ mem' = mem /\ disk' = disk
         \/ /\ mem.phase # "manifest" /\ pc' = "idle" /\ mem' = [mem EXCEPT !.phase = "open"]
            /\ disk' = disk
         \/ /\ \E g \in others : disk' = removeManifest(disk, g)
            /\ pc' = pc /\ mem' = mem
  BY DEF CleanManifests, finish
<1>2. /\ isDisk(disk) /\ mem \in Mem /\ views \in [Readers -> SUBSET View]
      /\ batch \in Batches \cup {noRecords}
  BY DEF IInv, typed
<1>3. (opening \/ opened) /\ (opening <=> mem.phase = "manifest") /\ (opened <=> mem.phase # "manifest")
  BY <1>1 DEF opening, opened, Opening, Opened
<1>4. publishedOK /\ filesOK /\ (opening => openingOK) /\ (opened => openedOK)
  BY <1>3 DEF IInv
<1>5. below(DOMAIN disk.ssts, mem.nextSST) /\ bounded(DOMAIN disk.ssts) /\ tablesOK(disk.ssts, mem.files)
  BY <1>1, <1>3, <1>4, Bounded DEF openingOK, openedOK, filesOK
<1>6. pc # "current" /\ pc \notin {"rotate", "manifest", "outputs", "trim", "roll", "append"}
  BY <1>1
<1>7. ASSUME mem.phase = "manifest", pc' = "wal", mem' = mem, disk' = disk
      PROVE  IInv'
  <2>1. opening'
    BY <1>7 DEF opening, Opening
  <2>2. publishedOK'
    <3>1. published' = published /\ pc' # "current"
      BY <1>7 DEF published
    <3> QED
      BY <1>4, <1>6, <1>7, <3>1 DEF publishedOK
  <2> QED
    BY <1>1, <1>2, <1>3, <1>5, <1>7, <2>1, <2>2, OpeningStep
<1>8. ASSUME mem.phase # "manifest", pc' = "idle", mem' = [mem EXCEPT !.phase = "open"], disk' = disk
      PROVE  IInv'
  <2>1. /\ mem' \in Mem /\ mem'.lsn = mem.lsn /\ mem'.active = mem.active
        /\ mem'.gen = mem.gen /\ mem'.flushed = mem.flushed /\ mem'.files = mem.files
        /\ mem'.nextSST = mem.nextSST /\ mem'.obsolete = mem.obsolete /\ mem'.phase = "open"
    BY <1>2, <1>8, PhaseType
  <2>2. opened' /\ pc' \notin {"rotate", "manifest", "current", "outputs", "trim", "roll", "append"}
    BY <1>8 DEF opened, Opened
  <2>3. mem'.phase # "manifest"
    BY <2>1
  <2>4. typed'
    BY <1>1, <1>2, <1>8, <2>1, <2>2, <2>3, TypedOpened
  <2>5. /\ walKept(disk.segs, disk.segs, mem.flushed) /\ disk.segs # <<>>
        /\ lastSegment(disk.segs).tail = "clean" /\ mem.obsolete \subseteq mem.obsolete
    BY <1>3, <1>8, OpenedFacts, WalSelf
  <2> QED
    BY <1>1, <1>3, <1>5, <1>6, <1>8, <2>1, <2>2, <2>4, <2>5, OpenedSegs
<1>9. ASSUME NEW g \in others, disk' = removeManifest(disk, g), pc' = pc, mem' = mem
      PROVE  IInv'
  <2>1. isDisk(disk') /\ manifestCut(disk.manifests, disk'.manifests, g)
    BY <1>2, <1>9, CutManifest
  <2>2. disk'.segs = disk.segs /\ disk'.ssts = disk.ssts /\ disk'.current = disk.current
    BY <1>2, <1>9, CutManifestOnly
  <2>3. publishedOK'
    <3>1. published' = published /\ pc' # "current" /\ mem.gen # g
      BY <1>6, <1>9 DEF published
    <3> QED
      BY <1>4, <1>6, <1>9, <2>1, <2>2, <3>1 DEF publishedOK, manifestCut
  <2>4. CASE opening
    <3>1. opening'
      BY <1>9, <2>4 DEF opening
    <3> QED
      BY <1>1, <1>5, <1>9, <2>1, <2>2, <2>3, <2>4, <3>1, OpeningStep
  <2>5. CASE opened
    <3>1. opened'
      BY <1>9, <2>5 DEF opened
    <3>2. mem.phase # "manifest" /\ pc' \notin {"roll", "append"}
      BY <1>3, <1>6, <1>9, <2>5
    <3>3. typed'
      BY <1>1, <1>2, <1>9, <2>1, <3>1, <3>2, TypedOpened
    <3>4. /\ walKept(disk.segs, disk.segs, mem.flushed) /\ disk.segs # <<>>
          /\ lastSegment(disk.segs).tail = "clean" /\ mem.obsolete \subseteq mem.obsolete
      BY <2>5, OpenedFacts, WalSelf
    <3>5. viewsOK'
      BY <1>1, <2>2, <3>1, ViewsKept
    <3> QED
      BY <1>5, <1>6, <1>9, <2>2, <2>3, <2>5, <3>1, <3>3, <3>4, <3>5, OpenedKeep
  <2> QED
    BY <1>3, <2>4, <2>5
<1> QED
  BY <1>1, <1>7, <1>8, <1>9

\* The list of obsolete tables of the engine changed.
LEMMA ObsoleteType ==
    ASSUME mem \in Mem, NEW ids \in SUBSET Nat,
           mem' = [mem EXCEPT !.obsolete = ids]
    PROVE  /\ mem' \in Mem /\ mem'.lsn = mem.lsn /\ mem'.active = mem.active /\ mem'.gen = mem.gen
           /\ mem'.flushed = mem.flushed /\ mem'.files = mem.files /\ mem'.nextSST = mem.nextSST
           /\ mem'.obsolete = ids /\ mem'.phase = mem.phase /\ mem'.plan = mem.plan
<1>1. /\ mem = [lsn |-> mem.lsn, active |-> mem.active, gen |-> mem.gen,
                flushed |-> mem.flushed, files |-> mem.files, nextSST |-> mem.nextSST,
                obsolete |-> mem.obsolete, phase |-> mem.phase, plan |-> mem.plan]
      /\ mem.lsn \in Nat /\ mem.active \in Records /\ mem.gen \in Nat /\ mem.flushed \in Nat
      /\ mem.files \in Files /\ mem.nextSST \in Nat \ {0} /\ mem.obsolete \in SUBSET Nat
      /\ mem.phase \in {"manifest", "checkpoint", "open"} /\ mem.plan \in Plan
  BY MemFields
<1>2. PICK l, a, g, f, s, x, o, p, q :
         /\ mem = [lsn |-> l, active |-> a, gen |-> g,
                flushed |-> f, files |-> s, nextSST |-> x,
                obsolete |-> o, phase |-> p, plan |-> q]
         /\ l = mem.lsn /\ a = mem.active /\ g = mem.gen /\ f = mem.flushed /\ s = mem.files
         /\ x = mem.nextSST /\ o = mem.obsolete /\ p = mem.phase /\ q = mem.plan
  BY <1>1
<1>3. mem' = [[lsn |-> l, active |-> a, gen |-> g,
               flushed |-> f, files |-> s, nextSST |-> x,
               obsolete |-> o, phase |-> p, plan |-> q]
               EXCEPT !.obsolete = ids]
  BY <1>2
<1>4. mem' = [lsn |-> l, active |-> a, gen |-> g,
              flushed |-> f, files |-> s, nextSST |-> x,
              obsolete |-> ids, phase |-> p, plan |-> q]
  BY <1>3
<1>5. /\ l \in Nat /\ a \in Records /\ g \in Nat /\ f \in Nat /\ s \in Files
      /\ x \in Nat \ {0} /\ o \in SUBSET Nat /\ p \in {"manifest", "checkpoint", "open"}
      /\ q \in Plan
  BY <1>1, <1>2
<1>6. mem' \in Mem
  BY <1>4, <1>5 DEF Mem
<1> QED
  BY <1>2, <1>4, <1>6

\* Tables are removed.
LEMMA CutKeeps ==
    ASSUME isDisk(disk), NEW ids, disk' = removeSSTs(disk, ids)
    PROVE  /\ isDisk(disk') /\ disk'.segs = disk.segs /\ disk'.manifests = disk.manifests
           /\ disk'.current = disk.current /\ DOMAIN disk'.ssts = DOMAIN disk.ssts \ ids
<1>1. isDisk(disk') /\ tablesCut(disk.ssts, disk'.ssts, ids)
  BY CutTables
<1>2. disk'.segs = disk.segs /\ disk'.manifests = disk.manifests /\ disk'.current = disk.current
  BY CutSSTsOnly
<1> QED
  BY <1>1, <1>2 DEF tablesCut

\* Those of a list that has none of them stay.
LEMMA CutKeepsTables ==
    ASSUME isDisk(disk), NEW ids, disk' = removeSSTs(disk, ids), NEW files,
           idsOf(files) \subseteq DOMAIN disk.ssts, ids \cap idsOf(files) = {}
    PROVE  idsOf(files) \subseteq DOMAIN disk'.ssts /\ sameTables(disk.ssts, disk'.ssts, files)
<1>1. tablesCut(disk.ssts, disk'.ssts, ids)
  BY CutTables
<1> QED
  BY <1>1 DEF tablesCut, sameTables

LEMMA CutKeepsFiles ==
    ASSUME isDisk(disk), NEW ids, disk' = removeSSTs(disk, ids), NEW files \in Files,
           tablesOK(disk.ssts, files), ids \cap idsOf(files) = {}
    PROVE  tablesOK(disk'.ssts, files)
<1>1. idsOf(files) \subseteq DOMAIN disk.ssts
  BY DEF tablesOK
<1>2. idsOf(files) \subseteq DOMAIN disk'.ssts /\ sameTables(disk.ssts, disk'.ssts, files)
  BY <1>1, CutKeepsTables
<1> QED
  BY <1>2, TablesKept

LEMMA CleanObsoleteOK ==
    ASSUME wellOrdered, IInv, CleanObsolete
    PROVE  IInv'
<1>1. /\ pc = "obsolete" /\ batch' = batch /\ views' = views
      /\ \/ /\ \E i \in removable(pinned) : disk' = removeSSTs(disk, {i})
            /\ mem' = mem /\ pc' = pc
         \/ /\ mem' = [mem EXCEPT !.obsolete = IF pinned THEN mem.obsolete ELSE {}]
            /\ pc' = "cleanManifests" /\ disk' = disk
  BY DEF CleanObsolete
<1>2. pc \in Opened
  BY <1>1 DEF Opened
<1>3. /\ opened /\ mem.phase # "manifest" /\ isDisk(disk) /\ mem \in Mem
      /\ views \in [Readers -> SUBSET View] /\ batch \in Batches \cup {noRecords}
      /\ publishedOK /\ filesOK /\ below(DOMAIN disk.ssts, mem.nextSST)
      /\ mem.files \in Files /\ mem.obsolete \in SUBSET Nat
  BY <1>1, <1>2, InOpened, MemFields DEF openedOK
<1>4. /\ walKept(disk.segs, disk.segs, mem.flushed) /\ disk.segs # <<>>
      /\ lastSegment(disk.segs).tail = "clean"
  BY <1>3, OpenedFacts, WalSelf
<1>5. ASSUME NEW i \in removable(pinned), disk' = removeSSTs(disk, {i}), mem' = mem, pc' = pc
      PROVE  IInv'
  <2>1. ~ pinned /\ i \in mem.obsolete /\ i \notin idsOf(mem.files)
    BY <1>5 DEF removable
  <2>2. {i} \cap idsOf(mem.files) = {}
    BY <2>1
  <2>3. /\ isDisk(disk') /\ disk'.segs = disk.segs /\ disk'.manifests = disk.manifests
        /\ disk'.current = disk.current /\ DOMAIN disk'.ssts \subseteq DOMAIN disk.ssts
        /\ tablesOK(disk'.ssts, mem.files)
    <3>1. tablesOK(disk.ssts, mem.files)
      BY <1>3 DEF filesOK
    <3>2. DOMAIN disk.ssts \ {i} \subseteq DOMAIN disk.ssts
      OBVIOUS
    <3>3. tablesOK(disk'.ssts, mem.files)
      BY <1>3, <1>5, <2>2, <3>1, CutKeepsFiles
    <3>4. /\ isDisk(disk') /\ disk'.segs = disk.segs /\ disk'.manifests = disk.manifests
          /\ disk'.current = disk.current /\ DOMAIN disk'.ssts = DOMAIN disk.ssts \ {i}
      BY <1>3, <1>5, CutKeeps
    <3> QED
      BY <3>2, <3>3, <3>4
  <2>4. opened' /\ pc' # "closed" /\ ~ opening'
    BY <1>1, <1>2, <1>5 DEF opened, opening, Opened, Opening
  <2>5. viewsOK'
    BY <1>1, <2>1, <2>4 DEF viewsOK, pinned
  <2>6. publishedOK'
    <3>1. published' = published /\ newManifest' = newManifest
      BY <1>5 DEF published, newManifest
    <3> QED
      BY <1>3, <1>5, <2>3, <3>1 DEF publishedOK
  <2>7. pc' \notin {"rotate", "manifest", "current", "outputs", "trim", "roll", "append"}
    BY <1>1, <1>5
  <2>8. typed'
    BY <1>1, <1>3, <1>5, <2>3, <2>4, <2>7, TypedOpened
  <2>9. mem.obsolete \subseteq mem.obsolete
    OBVIOUS
  <2> QED
    BY <1>3, <1>4, <1>5, <2>3, <2>4, <2>5, <2>6, <2>7, <2>8, <2>9, OpenedKeep
<1>6. ASSUME mem' = [mem EXCEPT !.obsolete = IF pinned THEN mem.obsolete ELSE {}],
             pc' = "cleanManifests", disk' = disk
      PROVE  IInv'
  <2> DEFINE ids == IF pinned THEN mem.obsolete ELSE {}
  <2>1. ids \in SUBSET Nat /\ ids \subseteq mem.obsolete
    BY <1>3
  <2>2. mem' = [mem EXCEPT !.obsolete = ids]
    BY <1>6
  <2> HIDE DEF ids
  <2>3. /\ mem' \in Mem /\ mem'.lsn = mem.lsn /\ mem'.active = mem.active
        /\ mem'.gen = mem.gen /\ mem'.flushed = mem.flushed /\ mem'.files = mem.files
        /\ mem'.nextSST = mem.nextSST /\ mem'.obsolete = ids /\ mem'.phase = mem.phase
    BY <1>3, <2>1, <2>2, ObsoleteType
  <2>4. /\ opened' /\ pc # "current"
        /\ pc' \notin {"rotate", "manifest", "current", "outputs", "trim", "roll", "append"}
    BY <1>1, <1>3, <1>6, <2>3 DEF opened
  <2>5. typed'
    BY <1>1, <1>3, <1>6, <2>3, <2>4, TypedOpened
  <2> QED
    BY <1>1, <1>3, <1>4, <1>6, <2>1, <2>3, <2>4, <2>5, OpenedSegs
<1> QED
  BY <1>1, <1>5, <1>6

LEMMA OpenViewOK ==
    ASSUME IInv, NEW r \in Readers, OpenView(r)
    PROVE  IInv'
<1> DEFINE v == [lsn |-> mem.lsn, active |-> mem.active, files |-> mem.files]
<1>1. /\ pc = "idle" /\ pc' = pc /\ disk' = disk /\ mem' = mem /\ batch' = batch
      /\ views' = [views EXCEPT ![r] = {v}]
  BY DEF OpenView
<1>2. pc \in Opened
  BY <1>1 DEF Opened
<1>3. /\ opened /\ mem.phase # "manifest" /\ isDisk(disk) /\ mem \in Mem
      /\ views \in [Readers -> SUBSET View] /\ batch \in Batches \cup {noRecords}
      /\ publishedOK /\ filesOK /\ openedOK /\ viewsOK
  BY <1>2, InOpened
<1>4. v \in View /\ v.files = mem.files
  BY <1>3, MemFields DEF View
<1> HIDE DEF v
<1>5. views' \in [Readers -> SUBSET View]
  BY <1>1, <1>3, <1>4
<1>6. opened' /\ pc' # "closed" /\ ~ opening'
  BY <1>1, <1>2 DEF opened, opening, Opened, Opening
<1>7. pc' \notin {"rotate", "manifest", "current", "outputs", "roll", "append"}
  BY <1>1
<1>8. typed'
  BY <1>1, <1>3, <1>5, <1>6, <1>7, TypedOpened
<1>9. viewsOK'
  <2>1. ASSUME NEW q \in Readers, NEW w \in views'[q]
        PROVE  idsOf(w.files) \subseteq DOMAIN disk.ssts
    <3>1. CASE q = r
      <4>1. w = v
        BY <1>1, <1>3, <2>1, <3>1
      <4> QED
        BY <1>3, <1>4, <4>1 DEF filesOK, tablesOK
    <3>2. CASE q # r
      <4>1. w \in views[q]
        BY <1>1, <1>3, <2>1, <3>2
      <4> QED
        BY <1>3, <4>1 DEF viewsOK
    <3> QED
      BY <3>1, <3>2
  <2> QED
    BY <1>1, <1>6, <2>1 DEF viewsOK
<1>10. publishedOK' /\ filesOK' /\ openedOK'
  <2>1. published' = published /\ newManifest' = newManifest
    BY <1>1 DEF published, newManifest
  <2>2. publishedOK'
    BY <1>1, <1>3, <2>1 DEF publishedOK
  <2>3. filesOK'
    BY <1>1, <1>3 DEF filesOK
  <2>4. openedOK'
    BY <1>1, <1>3 DEF openedOK
  <2> QED
    BY <2>2, <2>3, <2>4
<1> QED
  BY <1>6, <1>7, <1>8, <1>9, <1>10, OpenedStep

LEMMA CloseViewOK ==
    ASSUME wellOrdered, IInv, NEW r \in Readers, CloseView(r)
    PROVE  IInv'
<1> DEFINE open == \E q \in Readers \ {r} : views[q] # {}
           unpinned == removable(open)
<1>1. /\ pc \in {"idle", "poisoned"} /\ pc' = pc /\ batch' = batch
      /\ views' = [views EXCEPT ![r] = {}]
      /\ \E removed \in SUBSET unpinned :
            /\ disk' = removeSSTs(disk, removed)
            /\ mem' = IF removed = unpinned /\ unpinned # {} THEN [mem EXCEPT !.obsolete = {}] ELSE mem
  BY DEF CloseView
<1>2. /\ isDisk(disk) /\ mem \in Mem /\ views \in [Readers -> SUBSET View]
      /\ batch \in Batches \cup {noRecords} /\ viewsOK
  BY DEF IInv, typed
<1>3. PICK removed \in SUBSET unpinned :
            /\ disk' = removeSSTs(disk, removed)
            /\ mem' = IF removed = unpinned /\ unpinned # {} THEN [mem EXCEPT !.obsolete = {}] ELSE mem
  BY <1>1
<1>4. removed \subseteq mem.obsolete /\ (open => removed = {})
  BY <1>3 DEF removable
<1> HIDE DEF open, unpinned
<1>5. /\ mem' \in Mem /\ mem'.lsn = mem.lsn /\ mem'.active = mem.active
      /\ mem'.gen = mem.gen /\ mem'.flushed = mem.flushed /\ mem'.files = mem.files
      /\ mem'.nextSST = mem.nextSST /\ mem'.obsolete \subseteq mem.obsolete /\ mem'.phase = mem.phase
  <2>1. CASE mem' = mem
    BY <1>2, <2>1
  <2>2. CASE mem' = [mem EXCEPT !.obsolete = {}]
    <3>1. {} \in SUBSET Nat /\ {} \subseteq mem.obsolete
      OBVIOUS
    <3>2. /\ mem' \in Mem /\ mem'.lsn = mem.lsn /\ mem'.active = mem.active /\ mem'.gen = mem.gen
          /\ mem'.flushed = mem.flushed /\ mem'.files = mem.files /\ mem'.nextSST = mem.nextSST
          /\ mem'.obsolete = {} /\ mem'.phase = mem.phase /\ mem'.plan = mem.plan
      BY <1>2, <2>2, <3>1, ObsoleteType
    <3> QED
      BY <3>1, <3>2
  <2> QED
    BY <1>3, <2>1, <2>2
<1>6. /\ isDisk(disk') /\ disk'.segs = disk.segs /\ disk'.manifests = disk.manifests
      /\ disk'.current = disk.current /\ DOMAIN disk'.ssts = DOMAIN disk.ssts \ removed
  BY <1>2, <1>3, CutKeeps
<1>7. DOMAIN disk'.ssts \subseteq DOMAIN disk.ssts
  BY <1>6
<1>8. views' \in [Readers -> SUBSET View]
  BY <1>1, <1>2
<1>9. \A q \in Readers : \A v \in views'[q] : idsOf(v.files) \subseteq DOMAIN disk'.ssts
  <2> SUFFICES ASSUME NEW q \in Readers, NEW v \in views'[q]
               PROVE  idsOf(v.files) \subseteq DOMAIN disk'.ssts
    OBVIOUS
  <2>1. q # r /\ v \in views[q]
    BY <1>1, <1>2
  <2>2. removed = {}
    BY <1>4, <2>1 DEF open
  <2>3. idsOf(v.files) \subseteq DOMAIN disk.ssts
    BY <1>2, <2>1 DEF viewsOK
  <2> QED
    BY <1>6, <2>2, <2>3
<1>10. CASE pc = "idle"
  <2>1. pc \in Opened
    BY <1>10 DEF Opened
  <2>2. /\ opened /\ mem.phase # "manifest" /\ publishedOK /\ filesOK
        /\ below(DOMAIN disk.ssts, mem.nextSST) /\ mem.files \in Files
    BY <1>10, <2>1, InOpened, MemFields DEF openedOK
  <2>3. opened' /\ pc' # "closed" /\ ~ opening'
    BY <1>1, <1>10, <2>1 DEF opened, opening, Opened, Opening
  <2>4. pc' \notin {"rotate", "manifest", "current", "outputs", "trim", "roll", "append"}
    BY <1>1, <1>10
  <2>5. typed'
    BY <1>1, <1>2, <1>5, <1>6, <1>8, <2>2, <2>3, <2>4, TypedOpened
  <2>6. viewsOK'
    BY <1>9, <2>3 DEF viewsOK
  <2>7. publishedOK'
    <3>1. published' = published
      BY <1>5 DEF published
    <3> QED
      BY <1>5, <1>6, <1>10, <2>2, <2>4, <3>1 DEF publishedOK
  <2>8. tablesOK(disk'.ssts, mem.files)
    <3>1. tablesOK(disk.ssts, mem.files) /\ removed \cap idsOf(mem.files) = {}
      BY <1>4, <2>2 DEF filesOK
    <3> QED
      BY <1>2, <1>3, <2>2, <3>1, CutKeepsFiles
  <2>9. /\ walKept(disk.segs, disk.segs, mem.flushed) /\ disk.segs # <<>>
        /\ lastSegment(disk.segs).tail = "clean"
    BY <2>2, OpenedFacts, WalSelf
  <2> QED
    BY <1>5, <1>6, <1>7, <2>2, <2>3, <2>4, <2>5, <2>6, <2>7, <2>8, <2>9, OpenedKeep
<1>11. CASE pc = "poisoned"
  <2>1. ~ opening' /\ ~ opened'
    BY <1>1, <1>11 DEF opened, opening, Opened, Opening
  <2>2. /\ pc' = "poisoned" /\ pc' \notin {"closed", "rotate", "manifest", "current", "outputs", "roll", "append"}
        /\ pc' \notin Opened /\ pc' \notin Opening
        /\ pc' \in Opening \cup Opened \cup {"closed", "poisoned", "cleanManifests"}
    BY <1>1, <1>11 DEF Opened, Opening
  <2>3. typed'
    BY <1>1, <1>2, <1>5, <1>6, <1>8, <2>2 DEF typed
  <2>4. viewsOK'
    BY <1>9, <2>1, <2>2 DEF viewsOK
  <2>5. diskOK(disk) /\ mem.obsolete \cap idsOf(manifestOf(disk).files) = {}
    BY <1>11 DEF IInv
  <2>6. manifestOf(disk') = manifestOf(disk)
    BY <1>6, ManifestSame
  <2>7. mem'.obsolete \cap idsOf(manifestOf(disk').files) = {}
    BY <1>5, <2>5, <2>6
  <2>8. tablesOK(disk'.ssts, manifestOf(disk).files)
    <3>1. removed \cap idsOf(manifestOf(disk).files) = {} /\ tablesOK(disk.ssts, manifestOf(disk).files)
      BY <1>4, <2>5 DEF diskOK
    <3>2. manifestOf(disk).files \in Files
      BY <1>2, ManifestType
    <3> QED
      BY <1>2, <1>3, <3>1, <3>2, CutKeepsFiles
  <2>9. diskOK(disk')
    <3>1. bounded(DOMAIN disk'.ssts)
      BY <1>7, <2>5 DEF diskOK, bounded, below
    <3>2. currentOK(disk')
      BY <1>6, <2>5 DEF diskOK, currentOK
    <3> QED
      BY <1>6, <2>5, <2>6, <2>8, <3>1, <3>2 DEF diskOK
  <2> QED
    BY <2>1, <2>2, <2>3, <2>4, <2>7, <2>9 DEF IInv
<1> QED
  BY <1>1, <1>10, <1>11

\* The memtable of the engine changed.
LEMMA ActiveType ==
    ASSUME mem \in Mem, NEW lsn \in Nat, NEW active \in Records,
           mem' = [mem EXCEPT !.lsn = lsn, !.active = active]
    PROVE  /\ mem' \in Mem /\ mem'.lsn = lsn /\ mem'.active = active /\ mem'.gen = mem.gen
           /\ mem'.flushed = mem.flushed /\ mem'.files = mem.files /\ mem'.nextSST = mem.nextSST
           /\ mem'.obsolete = mem.obsolete /\ mem'.phase = mem.phase /\ mem'.plan = mem.plan
<1>1. /\ mem = [lsn |-> mem.lsn, active |-> mem.active, gen |-> mem.gen,
                flushed |-> mem.flushed, files |-> mem.files, nextSST |-> mem.nextSST,
                obsolete |-> mem.obsolete, phase |-> mem.phase, plan |-> mem.plan]
      /\ mem.lsn \in Nat /\ mem.active \in Records /\ mem.gen \in Nat /\ mem.flushed \in Nat
      /\ mem.files \in Files /\ mem.nextSST \in Nat \ {0} /\ mem.obsolete \in SUBSET Nat
      /\ mem.phase \in {"manifest", "checkpoint", "open"} /\ mem.plan \in Plan
  BY MemFields
<1>2. PICK l, a, g, f, s, x, o, p, q :
         /\ mem = [lsn |-> l, active |-> a, gen |-> g,
                flushed |-> f, files |-> s, nextSST |-> x,
                obsolete |-> o, phase |-> p, plan |-> q]
         /\ l = mem.lsn /\ a = mem.active /\ g = mem.gen /\ f = mem.flushed /\ s = mem.files
         /\ x = mem.nextSST /\ o = mem.obsolete /\ p = mem.phase /\ q = mem.plan
  BY <1>1
<1>3. mem' = [[lsn |-> l, active |-> a, gen |-> g,
               flushed |-> f, files |-> s, nextSST |-> x,
               obsolete |-> o, phase |-> p, plan |-> q]
               EXCEPT !.lsn = lsn, !.active = active]
  BY <1>2
<1>4. mem' = [lsn |-> lsn, active |-> active, gen |-> g,
              flushed |-> f, files |-> s, nextSST |-> x,
              obsolete |-> o, phase |-> p, plan |-> q]
  BY <1>3
<1>5. /\ l \in Nat /\ a \in Records /\ g \in Nat /\ f \in Nat /\ s \in Files
      /\ x \in Nat \ {0} /\ o \in SUBSET Nat /\ p \in {"manifest", "checkpoint", "open"}
      /\ q \in Plan
  BY <1>1, <1>2
<1>6. mem' \in Mem
  BY <1>4, <1>5 DEF Mem
<1> QED
  BY <1>2, <1>4, <1>6

\* The log was replayed.
LEMMA LogReplayed ==
    ASSUME mem \in Mem, NEW lsn \in Nat, NEW active \in Records,
           NEW phase \in {"manifest", "checkpoint", "open"},
           mem' = [mem EXCEPT !.lsn = lsn, !.active = active, !.phase = phase]
    PROVE  /\ mem' \in Mem /\ mem'.lsn = lsn /\ mem'.active = active /\ mem'.gen = mem.gen
           /\ mem'.flushed = mem.flushed /\ mem'.files = mem.files /\ mem'.nextSST = mem.nextSST
           /\ mem'.obsolete = mem.obsolete /\ mem'.phase = phase /\ mem'.plan = mem.plan
<1>1. /\ mem = [lsn |-> mem.lsn, active |-> mem.active, gen |-> mem.gen,
                flushed |-> mem.flushed, files |-> mem.files, nextSST |-> mem.nextSST,
                obsolete |-> mem.obsolete, phase |-> mem.phase, plan |-> mem.plan]
      /\ mem.lsn \in Nat /\ mem.active \in Records /\ mem.gen \in Nat /\ mem.flushed \in Nat
      /\ mem.files \in Files /\ mem.nextSST \in Nat \ {0} /\ mem.obsolete \in SUBSET Nat
      /\ mem.phase \in {"manifest", "checkpoint", "open"} /\ mem.plan \in Plan
  BY MemFields
<1>2. PICK l, a, g, f, s, x, o, p, q :
         /\ mem = [lsn |-> l, active |-> a, gen |-> g,
                flushed |-> f, files |-> s, nextSST |-> x,
                obsolete |-> o, phase |-> p, plan |-> q]
         /\ l = mem.lsn /\ a = mem.active /\ g = mem.gen /\ f = mem.flushed /\ s = mem.files
         /\ x = mem.nextSST /\ o = mem.obsolete /\ p = mem.phase /\ q = mem.plan
  BY <1>1
<1>3. mem' = [[lsn |-> l, active |-> a, gen |-> g,
               flushed |-> f, files |-> s, nextSST |-> x,
               obsolete |-> o, phase |-> p, plan |-> q]
               EXCEPT !.lsn = lsn, !.active = active, !.phase = phase]
  BY <1>2
<1>4. mem' = [lsn |-> lsn, active |-> active, gen |-> g,
              flushed |-> f, files |-> s, nextSST |-> x,
              obsolete |-> o, phase |-> phase, plan |-> q]
  BY <1>3
<1>5. /\ l \in Nat /\ a \in Records /\ g \in Nat /\ f \in Nat /\ s \in Files
      /\ x \in Nat \ {0} /\ o \in SUBSET Nat /\ p \in {"manifest", "checkpoint", "open"}
      /\ q \in Plan
  BY <1>1, <1>2
<1>6. mem' \in Mem
  BY <1>4, <1>5 DEF Mem
<1> QED
  BY <1>2, <1>4, <1>6

\* A checkpoint was published.
LEMMA PublishedType ==
    ASSUME mem \in Mem, NEW gen \in Nat, NEW obsolete \in SUBSET Nat,
           mem' = [mem EXCEPT !.gen = gen, !.flushed = mem.lsn, !.active = noRecords,
                              !.files = mem.plan.files, !.nextSST = mem.plan.nextSST,
                              !.obsolete = obsolete]
    PROVE  /\ mem' \in Mem /\ mem'.lsn = mem.lsn /\ mem'.active = noRecords /\ mem'.gen = gen
           /\ mem'.flushed = mem.lsn /\ mem'.files = mem.plan.files
           /\ mem'.nextSST = mem.plan.nextSST /\ mem'.obsolete = obsolete
           /\ mem'.phase = mem.phase /\ mem'.plan = mem.plan
<1>1. /\ mem = [lsn |-> mem.lsn, active |-> mem.active, gen |-> mem.gen,
                flushed |-> mem.flushed, files |-> mem.files, nextSST |-> mem.nextSST,
                obsolete |-> mem.obsolete, phase |-> mem.phase, plan |-> mem.plan]
      /\ mem.lsn \in Nat /\ mem.phase \in {"manifest", "checkpoint", "open"} /\ mem.plan \in Plan
      /\ mem.plan.files \in Files /\ mem.plan.nextSST \in Nat \ {0}
  BY MemFields
<1>2. PICK l, a, g, f, s, x, o, p, q :
         /\ mem = [lsn |-> l, active |-> a, gen |-> g,
                   flushed |-> f, files |-> s, nextSST |-> x,
                   obsolete |-> o, phase |-> p, plan |-> q]
         /\ l = mem.lsn /\ p = mem.phase /\ q = mem.plan
  BY <1>1
<1>3. PICK e, s2, x2 : e = noRecords /\ s2 = mem.plan.files /\ x2 = mem.plan.nextSST
  OBVIOUS
<1>4. mem' = [[lsn |-> l, active |-> a, gen |-> g,
               flushed |-> f, files |-> s, nextSST |-> x,
               obsolete |-> o, phase |-> p, plan |-> q]
               EXCEPT !.gen = gen, !.flushed = l, !.active = e,
                      !.files = s2, !.nextSST = x2, !.obsolete = obsolete]
  BY <1>2, <1>3
<1>5. mem' = [lsn |-> l, active |-> e, gen |-> gen,
              flushed |-> l, files |-> s2, nextSST |-> x2,
              obsolete |-> obsolete, phase |-> p, plan |-> q]
  BY <1>4, ZenonT(60)
<1>6. /\ l \in Nat /\ p \in {"manifest", "checkpoint", "open"} /\ q \in Plan
      /\ e \in Records /\ s2 \in Files /\ x2 \in Nat \ {0}
  BY <1>1, <1>2, <1>3, NoRecordsType
<1> DEFINE m == [lsn |-> l, active |-> e, gen |-> gen,
                 flushed |-> l, files |-> s2, nextSST |-> x2,
                 obsolete |-> obsolete, phase |-> p, plan |-> q]
<1>7. m \in Mem
  BY <1>6 DEF Mem
<1>8. /\ m.lsn = l /\ m.active = e /\ m.gen = gen /\ m.flushed = l
      /\ m.files = s2 /\ m.nextSST = x2 /\ m.obsolete = obsolete
      /\ m.phase = p /\ m.plan = q
  OBVIOUS
<1>9. mem' = m
  BY <1>5
<1> HIDE DEF m
<1> QED
  BY <1>2, <1>3, <1>7, <1>8, <1>9

LEMMA AppendFrameOK ==
    ASSUME wellOrdered, IInv, AppendFrame
    PROVE  IInv'
<1> DEFINE segs2 == appendFrame(disk.segs, batch)
           active == over(mem.active, batch)
<1>1. /\ pc = "append" /\ disk' = withSegs(disk, segs2) /\ batch' = noRecords /\ views' = views
      /\ mem' = [mem EXCEPT !.lsn = mem.lsn + 1, !.active = active]
      /\ pc' \in {"sst", "idle"}
  BY DEF AppendFrame
<1>2. pc \in Opened /\ pc' \in Opened
  BY <1>1 DEF Opened
<1>3. /\ opened /\ mem.phase # "manifest" /\ isDisk(disk) /\ mem \in Mem
      /\ views \in [Readers -> SUBSET View] /\ batch \in Batches
      /\ publishedOK /\ filesOK /\ openedOK
  BY <1>1, <1>2, InOpened DEF IInv, typed
<1>4. opened'
  BY <1>2 DEF opened
<1>5. /\ disk.segs \in Seq(Segment) /\ disk.segs # <<>> /\ mem.flushed \in Nat
      /\ walOK(disk.segs, mem.flushed) /\ lastSegment(disk.segs).tail = "clean"
      /\ mem.lsn = walEnd(disk.segs, mem.flushed)
      /\ mem.active = replayed(disk.segs, mem.flushed)
  BY <1>3, OpenedFacts
<1>6. /\ segs2 \in Seq(Segment) /\ segs2 # <<>> /\ lastSegment(segs2).tail = "clean"
      /\ walOK(segs2, mem.flushed) /\ oneMore(disk.segs, segs2, mem.flushed, batch)
  BY <1>3, <1>5, AppendOne
<1> HIDE DEF segs2
<1>7. walEnd(segs2, mem.flushed) = mem.lsn + 1 /\ replayed(segs2, mem.flushed) = active
  <2>1. framesOK(disk.segs, mem.flushed)
    BY <1>5, WalFrames
  <2>2. replayed(segs2, mem.flushed) = over(replayed(disk.segs, mem.flushed), batch)
    BY <1>3, <1>5, <1>6, <2>1, ReplayedMore
  <2> QED
    BY <1>5, <1>6, <2>2 DEF oneMore
<1> HIDE DEF active
<1>8. active \in Records
  <2>1. framesOK(segs2, mem.flushed)
    BY <1>5, <1>6, WalFrames
  <2> QED
    BY <1>5, <1>7, <2>1, ReplayedType
<1>9. /\ mem' \in Mem /\ mem'.lsn = mem.lsn + 1 /\ mem'.active = active
      /\ mem'.gen = mem.gen /\ mem'.flushed = mem.flushed /\ mem'.files = mem.files
      /\ mem'.nextSST = mem.nextSST /\ mem'.obsolete = mem.obsolete /\ mem'.phase = mem.phase
  <2>1. mem.lsn + 1 \in Nat
    <3>1. mem.lsn \in Nat
      BY <1>3, MemFields
    <3> QED
      BY <3>1, SMTT(20)
  <2>2. mem \in Mem /\ mem' = [mem EXCEPT !.lsn = mem.lsn + 1, !.active = active]
    BY <1>1, <1>3
  <2>3. /\ mem' \in Mem /\ mem'.lsn = mem.lsn + 1 /\ mem'.active = active /\ mem'.gen = mem.gen
        /\ mem'.flushed = mem.flushed /\ mem'.files = mem.files /\ mem'.nextSST = mem.nextSST
        /\ mem'.obsolete = mem.obsolete /\ mem'.phase = mem.phase /\ mem'.plan = mem.plan
    BY <1>8, <2>1, <2>2, ActiveType
  <2> QED
    BY <2>3
<1>10. /\ isDisk(disk') /\ disk'.segs = segs2 /\ disk'.ssts = disk.ssts
       /\ disk'.manifests = disk.manifests /\ disk'.current = disk.current
  BY <1>1, <1>3, <1>6, SegsChanged
<1>11. pc' \notin {"rotate", "manifest", "current", "outputs", "trim", "roll", "append"}
  BY <1>1
<1>12. typed'
  BY <1>1, <1>3, <1>4, <1>9, <1>10, <1>11, TypedOpened
<1>13. publishedOK'
  <2>1. published' = published
    BY <1>9 DEF published
  <2>2. pc # "current"
    BY <1>1
  <2> QED
    BY <1>3, <1>9, <1>10, <1>11, <2>1, <2>2 DEF publishedOK
<1>14. filesOK'
  BY <1>3, <1>9, <1>10 DEF filesOK
<1>15. openedOK'
  <2>1. below(DOMAIN disk.ssts, mem.nextSST)
    BY <1>1, <1>3 DEF openedOK
  <2> QED
    BY <1>6, <1>7, <1>9, <1>10, <1>11, <2>1 DEF openedOK
<1>16. viewsOK'
  <2>1. DOMAIN disk.ssts \subseteq DOMAIN disk'.ssts
    BY <1>10
  <2> QED
    BY <1>1, <1>4, <2>1, ViewsKept
<1> QED
  BY <1>4, <1>11, <1>12, <1>13, <1>14, <1>15, <1>16, OpenedStep

\* A table is written: the other ones stay.
LEMMA PutKeeps ==
    ASSUME isDisk(disk), NEW id \in Nat \ {0}, NEW r \in Records, disk' = putSST(disk, id, r)
    PROVE  /\ isDisk(disk') /\ disk'.segs = disk.segs /\ disk'.manifests = disk.manifests
           /\ disk'.current = disk.current /\ DOMAIN disk'.ssts = DOMAIN disk.ssts \cup {id}
           /\ disk'.ssts[id] = r /\ recordsOf(disk'.ssts, id) = r
<1>1. isDisk(disk') /\ tablePut(disk.ssts, disk'.ssts, id, r)
  BY PutTable
<1>2. disk'.segs = disk.segs /\ disk'.manifests = disk.manifests /\ disk'.current = disk.current
  BY PutSSTOnly
<1> QED
  BY <1>1, <1>2 DEF tablePut

LEMMA PutKeepsTables ==
    ASSUME isDisk(disk), NEW id \in Nat \ {0}, NEW r \in Records, disk' = putSST(disk, id, r),
           id \notin DOMAIN disk.ssts, NEW files, idsOf(files) \subseteq DOMAIN disk.ssts
    PROVE  idsOf(files) \subseteq DOMAIN disk'.ssts /\ sameTables(disk.ssts, disk'.ssts, files)
<1>1. tablePut(disk.ssts, disk'.ssts, id, r)
  BY PutTable
<1> QED
  BY <1>1 DEF tablePut, sameTables

LEMMA PutKeepsFiles ==
    ASSUME isDisk(disk), NEW id \in Nat \ {0}, NEW r \in Records, disk' = putSST(disk, id, r),
           id \notin DOMAIN disk.ssts, NEW files \in Files, tablesOK(disk.ssts, files)
    PROVE  tablesOK(disk'.ssts, files) /\ sameTables(disk.ssts, disk'.ssts, files)
<1>1. idsOf(files) \subseteq DOMAIN disk.ssts
  BY DEF tablesOK
<1>2. idsOf(files) \subseteq DOMAIN disk'.ssts /\ sameTables(disk.ssts, disk'.ssts, files)
  BY <1>1, PutKeepsTables
<1> QED
  BY <1>2, TablesKept

\* The tables of a list with one more.
LEMMA AppendedElements ==
    ASSUME NEW ids \in Seq(Nat \ {0}), NEW id \in Nat \ {0}
    PROVE  LET ids2 == Append(ids, id) IN
           /\ ids2 \in Seq(Nat \ {0})
           /\ {ids2[i] : i \in DOMAIN ids2} = {ids[i] : i \in DOMAIN ids} \cup {id}
<1> DEFINE ids2 == Append(ids, id)
           n == Len(ids) + 1
<1>1. /\ ids2 \in Seq(Nat \ {0}) /\ n \in DOMAIN ids2 /\ ids2[n] = id
      /\ \A i \in DOMAIN ids2 : i = n \/ i \in DOMAIN ids
      /\ \A i \in DOMAIN ids : i \in DOMAIN ids2 /\ ids2[i] = ids[i]
  BY SMTT(20)
<1> HIDE DEF ids2, n
<1>2. {ids2[i] : i \in DOMAIN ids2} = {ids[i] : i \in DOMAIN ids} \cup {id}
  BY <1>1
<1> QED
  BY <1>1, <1>2 DEF ids2

LEMMA AppendedL0 ==
    ASSUME NEW files \in Files, NEW id \in Nat \ {0}
    PROVE  LET files2 == [l0 |-> Append(files.l0, id), l1 |-> files.l1] IN
           files2 \in Files /\ idsOf(files2) = idsOf(files) \cup {id} /\ files2.l1 = files.l1
<1> DEFINE ids2 == Append(files.l0, id)
           files2 == [l0 |-> ids2, l1 |-> files.l1]
<1>1. files.l0 \in Seq(Nat \ {0}) /\ files.l1 \in Seq(Nat \ {0})
  BY FilesFields
<1>2. /\ ids2 \in Seq(Nat \ {0})
      /\ {ids2[i] : i \in DOMAIN ids2} = {files.l0[i] : i \in DOMAIN files.l0} \cup {id}
  BY <1>1, AppendedElements
<1> HIDE DEF ids2
<1>3. files2.l0 = ids2 /\ files2.l1 = files.l1 /\ files2 \in Files
  BY <1>1, <1>2 DEF Files
<1> HIDE DEF files2
<1>4. idsOf(files2) = idsOf(files) \cup {id}
  <2> DEFINE a == {files.l0[i] : i \in DOMAIN files.l0}
             a2 == {ids2[i] : i \in DOMAIN ids2}
             b == {files.l1[i] : i \in DOMAIN files.l1}
  <2>1. idsOf(files2) = a2 \cup b
    BY <1>3 DEF idsOf
  <2>2. idsOf(files) = a \cup b
    BY DEF idsOf
  <2>3. a2 = a \cup {id}
    BY <1>2
  <2> HIDE DEF a, a2, b
  <2> QED
    BY <2>1, <2>2, <2>3
<1> QED
  BY <1>3, <1>4 DEF files2, ids2

LEMMA AppendedL1 ==
    ASSUME NEW files \in Files, NEW id \in Nat \ {0}
    PROVE  LET files2 == [l0 |-> files.l0, l1 |-> Append(files.l1, id)] IN
           /\ files2 \in Files /\ idsOf(files2) = idsOf(files) \cup {id}
           /\ files2.l0 = files.l0 /\ files2.l1 = Append(files.l1, id)
<1> DEFINE ids2 == Append(files.l1, id)
           files2 == [l0 |-> files.l0, l1 |-> ids2]
<1>1. files.l0 \in Seq(Nat \ {0}) /\ files.l1 \in Seq(Nat \ {0})
  BY FilesFields
<1>2. /\ ids2 \in Seq(Nat \ {0})
      /\ {ids2[i] : i \in DOMAIN ids2} = {files.l1[i] : i \in DOMAIN files.l1} \cup {id}
  BY <1>1, AppendedElements
<1> HIDE DEF ids2
<1>3. files2.l1 = ids2 /\ files2.l0 = files.l0 /\ files2 \in Files
  BY <1>1, <1>2 DEF Files
<1> HIDE DEF files2
<1>4. idsOf(files2) = idsOf(files) \cup {id}
  <2> DEFINE a == {files.l1[i] : i \in DOMAIN files.l1}
             a2 == {ids2[i] : i \in DOMAIN ids2}
             b == {files.l0[i] : i \in DOMAIN files.l0}
  <2>1. idsOf(files2) = b \cup a2
    BY <1>3 DEF idsOf
  <2>2. idsOf(files) = b \cup a
    BY DEF idsOf
  <2>3. a2 = a \cup {id}
    BY <1>2
  <2> HIDE DEF a, a2, b
  <2> QED
    BY <2>1, <2>2, <2>3
<1> QED
  BY <1>3, <1>4 DEF files2, ids2

\* An unused number is beyond every one in use, and a next one beyond it.
LEMMA NextUnused ==
    ASSUME NEW S \in SUBSET Nat, NEW n \in Nat \ {0}, below(S, n)
    PROVE  n \notin S /\ n + 1 \in Nat \ {0} /\ n <= n + 1 /\ below(S \cup {n}, n + 1)
  BY SMTT(20) DEF below

LEMMA WriteSSTOK ==
    ASSUME wellOrdered, IInv, WriteSST
    PROVE  IInv'
<1> DEFINE id == mem.nextSST
           files2 == [l0 |-> Append(mem.files.l0, id), l1 |-> mem.files.l1]
           plan == [files |-> files2, nextSST |-> id + 1, compacting |-> FALSE]
<1>1. /\ pc = "sst" /\ disk' = putSST(disk, id, mem.active) /\ mem' = [mem EXCEPT !.plan = plan]
      /\ pc' = "rotate" /\ batch' = batch /\ views' = views
  BY DEF WriteSST
<1>2. pc \in Opened /\ pc' \in Opened
  BY <1>1 DEF Opened
<1>3. /\ opened /\ mem.phase # "manifest" /\ isDisk(disk) /\ mem \in Mem
      /\ views \in [Readers -> SUBSET View] /\ batch \in Batches \cup {noRecords}
      /\ publishedOK /\ filesOK /\ openedOK
  BY <1>2, InOpened
<1>4. opened'
  BY <1>2 DEF opened
<1>5. /\ mem.active \in Records /\ mem.files \in Files /\ id \in Nat \ {0}
      /\ mem.obsolete \in SUBSET Nat
  BY <1>3, MemFields
<1>6. below(DOMAIN disk.ssts, id) /\ DOMAIN disk.ssts \in SUBSET Nat
  <2>1. below(DOMAIN disk.ssts, id)
    BY <1>1, <1>3 DEF openedOK
  <2> QED
    BY <1>3, <2>1 DEF isDisk, isTables
<1>7. /\ id \notin DOMAIN disk.ssts /\ id + 1 \in Nat \ {0} /\ id <= id + 1
      /\ below(DOMAIN disk.ssts \cup {id}, id + 1)
  BY <1>5, <1>6, NextUnused
<1>8. files2 \in Files /\ idsOf(files2) = idsOf(mem.files) \cup {id} /\ files2.l1 = mem.files.l1
  BY <1>5, AppendedL0
<1>9. /\ isDisk(disk') /\ disk'.segs = disk.segs /\ disk'.manifests = disk.manifests
      /\ disk'.current = disk.current /\ DOMAIN disk'.ssts = DOMAIN disk.ssts \cup {id}
      /\ recordsOf(disk'.ssts, id) = mem.active
  BY <1>1, <1>3, <1>5, PutKeeps
<1>10. tablesOK(disk'.ssts, mem.files)
  <2>1. tablesOK(disk.ssts, mem.files)
    BY <1>3 DEF filesOK
  <2> QED
    BY <1>1, <1>3, <1>5, <1>7, <2>1, PutKeepsFiles
<1>11. readAll(disk'.ssts, noRecords, files2) = readAll(disk'.ssts, mem.active, mem.files)
  <2> DEFINE t == disk'.ssts
  <2>1. recordsOf(t, id) = mem.active
    BY <1>9
  <2> HIDE DEF t, id
  <2>2. readAll(t, noRecords, files2) = readAll(t, mem.active, mem.files)
    BY <1>5, <2>1, FlushedReads
  <2> QED
    BY <2>2 DEF t
<1> HIDE DEF files2
<1>12. plan \in Plan /\ plan.files = files2 /\ plan.nextSST = id + 1 /\ plan.compacting = FALSE
  BY <1>7, <1>8 DEF Plan
<1> HIDE DEF plan
<1>13. /\ mem' \in Mem /\ mem'.lsn = mem.lsn /\ mem'.active = mem.active /\ mem'.gen = mem.gen
       /\ mem'.flushed = mem.flushed /\ mem'.files = mem.files /\ mem'.nextSST = mem.nextSST
       /\ mem'.obsolete = mem.obsolete /\ mem'.phase = mem.phase /\ mem'.plan = plan
  BY <1>1, <1>3, <1>12, PlanType
<1>14. pc' \notin {"manifest", "current", "outputs", "trim", "roll", "append"} /\ pc # "current"
  BY <1>1
<1>15. typed'
  BY <1>1, <1>3, <1>4, <1>9, <1>13, <1>14, TypedOpened
<1>16. publishedOK'
  <2>1. published' = published
    BY <1>13 DEF published
  <2> QED
    BY <1>3, <1>9, <1>13, <1>14, <2>1 DEF publishedOK
<1>17. filesOK'
  BY <1>3, <1>10, <1>13 DEF filesOK
<1>18. openedOK'
  BY <1>1, <1>3, <1>9, <1>13, <1>14 DEF openedOK
<1>19. planOK'
  <2>1. tablesOK(disk'.ssts, files2)
    BY <1>8, <1>9, <1>10 DEF tablesOK
  <2>2. mem.obsolete \cap idsOf(files2) = {}
    <3>1. mem.obsolete \cap idsOf(mem.files) = {} /\ below(mem.obsolete, id)
      BY <1>3 DEF filesOK
    <3>2. id \notin mem.obsolete
      BY <1>5, <3>1, NextUnused
    <3> QED
      BY <1>8, <3>1, <3>2
  <2> QED
    BY <1>7, <1>9, <1>11, <1>12, <1>13, <1>14, <2>1, <2>2 DEF planOK
<1>20. viewsOK'
  <2>1. DOMAIN disk.ssts \subseteq DOMAIN disk'.ssts
    BY <1>9
  <2> QED
    BY <1>1, <1>4, <2>1, ViewsKept
<1> QED
  BY <1>4, <1>14, <1>15, <1>16, <1>17, <1>18, <1>19, <1>20, OpenedStep

LEMMA PublishManifestOK ==
    ASSUME IInv, PublishManifest
    PROVE  IInv'
<1> DEFINE g == mem.gen + 1
<1>1. /\ pc = "manifest" /\ countOf(mem.plan.files) <= MaxSSTFiles /\ mem' = mem
      /\ disk' = putManifest(disk, g, newManifest)
      /\ pc' = "current" /\ batch' = batch /\ views' = views
  BY DEF PublishManifest
<1>2. pc \in Opened /\ pc' \in Opened
  BY <1>1 DEF Opened
<1>3. /\ opened /\ mem.phase # "manifest" /\ isDisk(disk) /\ mem \in Mem
      /\ views \in [Readers -> SUBSET View] /\ batch \in Batches \cup {noRecords}
      /\ publishedOK /\ filesOK /\ openedOK /\ planOK
  BY <1>1, <1>2, InOpened DEF IInv
<1>4. opened'
  BY <1>2 DEF opened
<1>5. g \in Nat \ {0} /\ mem.gen # g /\ (mem.gen = 0 => g = 1)
  <2>1. mem.gen \in Nat
    BY <1>3, MemFields
  <2> QED
    BY <2>1, SMTT(20)
<1>6. newManifest \in Manifest /\ newManifest' = newManifest
  BY <1>1, <1>3, MemFields DEF newManifest, Manifest
<1> HIDE DEF g
<1>7. /\ isDisk(disk') /\ manifestPut(disk.manifests, disk'.manifests, g, newManifest)
      /\ disk'.segs = disk.segs /\ disk'.ssts = disk.ssts /\ disk'.current = disk.current
  <2>1. isDisk(disk') /\ manifestPut(disk.manifests, disk'.manifests, g, newManifest)
    BY <1>1, <1>3, <1>5, <1>6, PutManifest
  <2>2. disk'.segs = disk.segs /\ disk'.ssts = disk.ssts /\ disk'.current = disk.current
    BY <1>1, <1>3, PutManifestOnly
  <2> QED
    BY <2>1, <2>2
<1>8. /\ DOMAIN disk'.manifests = DOMAIN disk.manifests \cup {g}
      /\ disk'.manifests[g] = newManifest
      /\ mem.gen \in DOMAIN disk.manifests => disk'.manifests[mem.gen] = disk.manifests[mem.gen]
  BY <1>5, <1>7 DEF manifestPut
<1>9. pc' \notin {"rotate", "manifest", "outputs", "trim", "roll", "append"}
  BY <1>1
<1>10. typed'
  BY <1>1, <1>3, <1>4, <1>7, <1>9, TypedOpened
<1>11. publishedOK'
  <2>1. published' = published /\ pc # "current"
    BY <1>1 DEF published
  <2>2. disk'.current = mem'.gen
    BY <1>1, <1>3, <1>7 DEF publishedOK
  <2>3. mem.gen # 0 => mem.gen \in DOMAIN disk'.manifests /\ disk'.manifests[mem.gen] = published
    BY <1>3, <1>8 DEF publishedOK
  <2>4. mem.gen = 0 => published = emptyManifest /\ DOMAIN disk'.manifests = {1}
    <3>1. mem.gen = 0 => published = emptyManifest /\ DOMAIN disk.manifests = {} /\ g = 1
      BY <1>3, <1>5, <2>1 DEF publishedOK
    <3> QED
      BY <1>8, <3>1
  <2>5. g \in DOMAIN disk'.manifests /\ disk'.manifests[g] = newManifest
    BY <1>8
  <2> QED
    BY <1>1, <1>6, <2>1, <2>2, <2>3, <2>4, <2>5 DEF publishedOK, g
<1>12. filesOK'
  BY <1>1, <1>3, <1>7 DEF filesOK
<1>13. openedOK'
  BY <1>1, <1>3, <1>7, <1>9 DEF openedOK
<1>14. planOK'
  BY <1>1, <1>3, <1>7 DEF planOK
<1>15. viewsOK'
  <2>1. DOMAIN disk.ssts \subseteq DOMAIN disk'.ssts
    BY <1>7
  <2> QED
    BY <1>1, <1>4, <2>1, ViewsKept
<1> QED
  BY <1>4, <1>9, <1>10, <1>11, <1>12, <1>13, <1>14, <1>15, OpenedStep

LEMMA PublishCurrentOK ==
    ASSUME IInv, PublishCurrent
    PROVE  IInv'
<1> DEFINE g == mem.gen + 1
           obsolete == IF mem.plan.compacting THEN mem.obsolete \cup idsOf(mem.files)
                       ELSE mem.obsolete
<1>1. /\ pc = "current" /\ disk' = setCurrent(disk, g) /\ batch' = batch /\ views' = views
      /\ mem' = [mem EXCEPT !.gen = g, !.flushed = mem.lsn, !.active = noRecords,
                            !.files = mem.plan.files, !.nextSST = mem.plan.nextSST,
                            !.obsolete = obsolete]
      /\ pc' \in {"obsolete", "trim"}
  BY DEF PublishCurrent
<1>2. pc \in Opened /\ pc' \in Opened
  BY <1>1 DEF Opened
<1>3. /\ opened /\ mem.phase # "manifest" /\ isDisk(disk) /\ mem \in Mem
      /\ views \in [Readers -> SUBSET View] /\ batch \in Batches \cup {noRecords}
      /\ publishedOK /\ filesOK /\ openedOK /\ planOK
  BY <1>1, <1>2, InOpened DEF IInv
<1>4. opened'
  BY <1>2 DEF opened
<1>5. /\ mem.lsn \in Nat /\ mem.plan.files \in Files /\ mem.plan.nextSST \in Nat \ {0}
      /\ mem.nextSST \in Nat /\ mem.obsolete \in SUBSET Nat /\ mem.files \in Files
      /\ mem.gen \in Nat /\ mem.plan.compacting \in BOOLEAN
  BY <1>3, MemFields
<1>6. g \in Nat /\ g # 0
  BY <1>5, SMTT(20)
<1> HIDE DEF g
<1>7. isTables(disk.ssts) /\ idsOf(mem.files) \subseteq Nat
  BY <1>3 DEF isDisk, filesOK, tablesOK, isTables
<1>8. obsolete \in SUBSET Nat /\ obsolete \subseteq mem.obsolete \cup idsOf(mem.files)
  BY <1>5, <1>7
<1>9. obsolete \cap idsOf(mem.plan.files) = {}
  BY <1>3, <1>5 DEF planOK
<1> HIDE DEF obsolete
<1>10. /\ mem' \in Mem /\ mem'.lsn = mem.lsn /\ mem'.active = noRecords /\ mem'.gen = g
       /\ mem'.flushed = mem.lsn /\ mem'.files = mem.plan.files
       /\ mem'.nextSST = mem.plan.nextSST /\ mem'.obsolete = obsolete
       /\ mem'.phase = mem.phase
  BY <1>1, <1>3, <1>6, <1>8, PublishedType
<1>11. /\ isDisk(disk') /\ disk'.segs = disk.segs /\ disk'.ssts = disk.ssts
       /\ disk'.manifests = disk.manifests /\ disk'.current = g
  BY <1>1, <1>3, <1>6, CurrentChanged
<1>12. pc' \notin {"rotate", "manifest", "current", "outputs", "roll", "append"}
  BY <1>1
<1>13. typed'
  BY <1>1, <1>3, <1>4, <1>10, <1>11, <1>12, TypedOpened
<1>14. publishedOK'
  <2>1. g \in DOMAIN disk.manifests /\ disk.manifests[g] = newManifest
    BY <1>1, <1>3 DEF publishedOK, g
  <2>2. published' = newManifest
    BY <1>10 DEF published, newManifest
  <2> QED
    BY <1>6, <1>10, <1>11, <1>12, <2>1, <2>2 DEF publishedOK
<1>15. filesOK'
  <2>1. /\ tablesOK(disk.ssts, mem.plan.files) /\ countOf(mem.plan.files) <= MaxSSTFiles
        /\ below(DOMAIN disk.ssts, mem.plan.nextSST) /\ mem.nextSST <= mem.plan.nextSST
    BY <1>1, <1>3 DEF planOK
  <2>2. below(idsOf(mem.plan.files), mem.plan.nextSST)
    BY <2>1 DEF below, tablesOK
  <2>3. below(obsolete, mem.plan.nextSST)
    <3>1. \A i \in obsolete : i \in Nat /\ i < mem.nextSST
      BY <1>3, <1>8 DEF filesOK, below
    <3>2. \A i \in Nat : i < mem.nextSST => i < mem.plan.nextSST
      BY <1>5, <2>1, SMTT(15)
    <3> QED
      BY <3>1, <3>2 DEF below
  <2> QED
    BY <1>9, <1>10, <1>11, <2>1, <2>2, <2>3 DEF filesOK
<1>16. openedOK'
  <2>1. /\ disk.segs \in Seq(Segment) /\ disk.segs # <<>> /\ mem.flushed \in Nat
        /\ walOK(disk.segs, mem.flushed) /\ lastSegment(disk.segs).tail = "clean"
        /\ mem.lsn = walEnd(disk.segs, mem.flushed)
    BY <1>3, OpenedFacts
  <2>2. /\ walOK(disk.segs, mem.lsn) /\ walEnd(disk.segs, mem.lsn) = mem.lsn
        /\ replayed(disk.segs, mem.lsn) = noRecords
    BY <2>1, CheckpointWAL
  <2>3. below(DOMAIN disk.ssts, mem.plan.nextSST)
    BY <1>3 DEF planOK
  <2> QED
    BY <1>10, <1>11, <1>12, <2>1, <2>2, <2>3 DEF openedOK
<1>17. viewsOK'
  <2>1. DOMAIN disk.ssts \subseteq DOMAIN disk'.ssts
    BY <1>11
  <2> QED
    BY <1>1, <1>4, <2>1, ViewsKept
<1> QED
  BY <1>4, <1>12, <1>13, <1>14, <1>15, <1>16, <1>17, OpenedStep
=============================================================================
