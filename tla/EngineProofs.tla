---------------------------- MODULE EngineProofs ----------------------------
(***************************************************************************)
(* Theorems about Engine for every choice of its constants, from the       *)
(* inductive invariant of EngineStepProofs: its state stays well formed,   *)
(* what readers see is what recovery would find, the files it leaves pass  *)
(* the checks of Open, and it implements DurableMap.                       *)
(***************************************************************************)
EXTENDS EngineStepProofs, EngineRefinement

USE ZenonT(30)

-----------------------------------------------------------------------------
(***************************************************************************)
(* The steps that EngineStepProofs leaves: the outputs of a compaction and *)
(* the replay of the WAL.                                                  *)
(***************************************************************************)

\* A table beyond the others keeps a level in order.
LEMMA OrderedAppend ==
    ASSUME NEW ssts, NEW ids \in Seq(Nat \ {0}), NEW id \in Nat \ {0}, ordered(ssts, ids),
           \A i \in DOMAIN ids : \A a \in DOMAIN recordsOf(ssts, ids[i]),
                                    b \in DOMAIN recordsOf(ssts, id) : a < b
    PROVE  ordered(ssts, Append(ids, id))
<1> DEFINE ids2 == Append(ids, id)
           n == Len(ids) + 1
<1>1. /\ ids2[n] = id /\ \A i \in DOMAIN ids2 : i = n \/ i \in DOMAIN ids
      /\ \A i \in DOMAIN ids : ids2[i] = ids[i]
      /\ \A i, j \in DOMAIN ids2 : i < j => i \in DOMAIN ids
  BY SMTT(20)
<1> HIDE DEF ids2, n
<1>2. ASSUME NEW i \in DOMAIN ids2, NEW j \in DOMAIN ids2, i < j,
             NEW a \in DOMAIN recordsOf(ssts, ids2[i]), NEW b \in DOMAIN recordsOf(ssts, ids2[j])
      PROVE  a < b
  <2>1. i \in DOMAIN ids /\ a \in DOMAIN recordsOf(ssts, ids[i])
    BY <1>1, <1>2
  <2>2. CASE j = n
    BY <1>1, <2>1, <2>2
  <2>3. CASE j \in DOMAIN ids
    BY <1>1, <1>2, <2>1, <2>3 DEF ordered
  <2> QED
    BY <1>1, <2>2, <2>3
<1>3. ordered(ssts, ids2)
  BY <1>2 DEF ordered
<1> QED
  BY <1>3 DEF ids2

\* A part of some records.
LEMMA PartRecords ==
    ASSUME NEW r \in Records, NEW ks, ks \subseteq DOMAIN r
    PROVE  [k \in ks |-> r[k]] \in Records
<1>1. PICK js \in SUBSET Keys : r \in [js -> Values \cup {"delete"}]
  BY DEF Records
<1>2. ks \in SUBSET Keys /\ [k \in ks |-> r[k]] \in [ks -> Values \cup {"delete"}]
  BY <1>1
<1> QED
  BY <1>2 DEF Records

\* The outputs of a compaction after one more of them: they hold the lowest
\* live records, and the new one those that follow.
LEMMA OutputsGrow ==
    ASSUME wellOrdered, IInv, pc = "outputs", NEW ks \in lowest(unwritten), pc' = pc,
           disk' = putSST(disk, mem.plan.nextSST, [k \in ks |-> merged(disk.ssts, mem.files)[k]]),
           mem'.files = mem.files, mem'.nextSST = mem.nextSST,
           mem'.plan.files = [l0 |-> mem.plan.files.l0,
                              l1 |-> Append(mem.plan.files.l1, mem.plan.nextSST)],
           mem'.plan.nextSST = mem.plan.nextSST + 1, mem'.plan.compacting = TRUE
    PROVE  /\ outputsOK' /\ isDisk(disk') /\ disk'.segs = disk.segs
           /\ disk'.manifests = disk.manifests /\ disk'.current = disk.current
           /\ DOMAIN disk.ssts \subseteq DOMAIN disk'.ssts /\ tablesOK(disk'.ssts, mem.files)
<1> DEFINE id == mem.plan.nextSST
           plan == mem.plan.files
           all == merged(disk.ssts, mem.files)
           r == [k \in ks |-> all[k]]
           old == live(disk.ssts, mem.files)
<1>1. isDisk(disk) /\ mem \in Mem /\ filesOK /\ outputsOK
  <2>1. pc \in Opened
    BY DEF Opened
  <2> QED
    BY <2>1, InOpened DEF IInv
<1>2. /\ mem.files \in Files /\ plan \in Files /\ id \in Nat \ {0} /\ mem.nextSST \in Nat
      /\ plan.l1 \in Seq(Nat \ {0}) /\ isTables(disk.ssts) /\ DOMAIN disk.ssts \in SUBSET Nat
  BY <1>1, MemFields, FilesFields DEF isDisk, isTables
<1>3. /\ below(DOMAIN disk.ssts, id) /\ mem.nextSST <= id
      /\ tablesOK(disk.ssts, plan) /\ tablesOK(disk.ssts, mem.files) /\ plan.l0 = <<>>
      /\ ordered(disk.ssts, plan.l1)
  BY <1>1 DEF outputsOK, filesOK, tablesOK
<1>4. \A i \in idsOf(plan) :
         /\ i \in DOMAIN disk.ssts /\ mem.nextSST <= i
         /\ \A k \in DOMAIN disk.ssts[i] : /\ k \in old /\ disk.ssts[i][k] = all[k]
                                           /\ \A j \in unwritten : k < j
  BY <1>1 DEF outputsOK, tablesOK
<1>5. /\ id \notin DOMAIN disk.ssts /\ id + 1 \in Nat \ {0} /\ id <= id + 1
      /\ below(DOMAIN disk.ssts \cup {id}, id + 1)
  BY <1>2, <1>3, NextUnused, ZenonT(60)
<1>6. mem.nextSST <= id + 1
  BY <1>2, <1>3, SMTT(20)
<1>7. /\ ks \subseteq unwritten /\ unwritten \subseteq old /\ old \subseteq DOMAIN all
      /\ \A i \in ks, j \in unwritten \ ks : i < j
      /\ unwritten = old \ UNION {DOMAIN recordsOf(disk.ssts, i) : i \in idsOf(plan)}
  BY DEF lowest, unwritten, live
<1>8. all \in Records
  BY <1>2, MergedType
<1> HIDE DEF all, old
<1>9. r \in Records /\ DOMAIN r = ks /\ \A k \in ks : r[k] = all[k]
  BY <1>7, <1>8, PartRecords
<1>10. disk' = putSST(disk, id, r)
  BY DEF all
<1> HIDE DEF r
<1>11. /\ isDisk(disk') /\ disk'.segs = disk.segs /\ disk'.manifests = disk.manifests
       /\ disk'.current = disk.current /\ DOMAIN disk'.ssts = DOMAIN disk.ssts \cup {id}
       /\ disk'.ssts[id] = r /\ recordsOf(disk'.ssts, id) = r
  BY <1>1, <1>2, <1>9, <1>10, PutKeeps
<1>12. tablesOK(disk'.ssts, mem.files) /\ sameTables(disk.ssts, disk'.ssts, mem.files)
  BY <1>1, <1>2, <1>3, <1>5, <1>9, <1>10, PutKeepsFiles
<1>13. tablesOK(disk'.ssts, plan) /\ sameTables(disk.ssts, disk'.ssts, plan)
  BY <1>1, <1>2, <1>3, <1>5, <1>9, <1>10, PutKeepsFiles
<1>14. merged(disk'.ssts, mem.files) = all /\ live(disk'.ssts, mem.files) = old
  <2>1. merged(disk'.ssts, mem.files) = merged(disk.ssts, mem.files)
    BY <1>2, <1>12, MergedSame
  <2> QED
    BY <2>1 DEF all, old, live
<1> DEFINE files2 == [l0 |-> plan.l0, l1 |-> Append(plan.l1, id)]
<1>15. /\ idsOf(files2) = idsOf(plan) \cup {id} /\ files2.l0 = plan.l0
       /\ files2.l1 = Append(plan.l1, id) /\ mem'.plan.files = files2
  BY <1>2, AppendedL1
<1> HIDE DEF files2
<1>16. \A i \in idsOf(plan) : /\ disk'.ssts[i] = disk.ssts[i]
                              /\ recordsOf(disk'.ssts, i) = disk.ssts[i]
                              /\ recordsOf(disk.ssts, i) = disk.ssts[i]
  <2>1. \A i \in idsOf(plan) : i \in DOMAIN disk'.ssts /\ recordsOf(disk'.ssts, i) = recordsOf(disk.ssts, i)
    BY <1>13 DEF sameTables, tablesOK
  <2> QED
    BY <1>4, <2>1 DEF recordsOf
<1>17. \A j \in unwritten' : j \in unwritten /\ j \notin ks
  <2>1. unwritten' = old \ UNION {DOMAIN recordsOf(disk'.ssts, i) : i \in idsOf(files2)}
    <3>1. unwritten' = live(disk'.ssts, mem'.files)
                          \ UNION {DOMAIN recordsOf(disk'.ssts, i) : i \in idsOf(mem'.plan.files)}
      BY DEF unwritten, live
    <3> QED
      BY <1>14, <1>15, <3>1
  <2>2. ASSUME NEW j \in unwritten' PROVE j \in unwritten /\ j \notin ks
    <3>1. j \in old /\ \A i \in idsOf(files2) : j \notin DOMAIN recordsOf(disk'.ssts, i)
      BY <2>1, <2>2
    <3>2. j \notin ks
      BY <1>9, <1>11, <1>15, <3>1
    <3>3. \A i \in idsOf(plan) : j \notin DOMAIN recordsOf(disk.ssts, i)
      BY <1>15, <1>16, <3>1
    <3> QED
      BY <1>7, <3>1, <3>2, <3>3
  <2> QED
    BY <2>2
<1>18. tablesOK(disk'.ssts, files2)
  <2>1. idsOf(files2) \subseteq DOMAIN disk'.ssts
    BY <1>11, <1>13, <1>15 DEF tablesOK
  <2>2. \A i \in DOMAIN plan.l1 : plan.l1[i] \in idsOf(plan)
    BY DEF idsOf
  <2>3. \A i \in DOMAIN plan.l1 : \A a \in DOMAIN recordsOf(disk'.ssts, plan.l1[i]),
                                     b \in DOMAIN recordsOf(disk'.ssts, id) : a < b
    <3> SUFFICES ASSUME NEW i \in DOMAIN plan.l1, NEW a \in DOMAIN recordsOf(disk'.ssts, plan.l1[i]),
                        NEW b \in DOMAIN recordsOf(disk'.ssts, id)
                 PROVE  a < b
      OBVIOUS
    <3>1. b \in unwritten
      BY <1>7, <1>9, <1>11
    <3>2. a \in DOMAIN disk.ssts[plan.l1[i]]
      BY <1>16, <2>2
    <3> QED
      BY <1>4, <2>2, <3>1, <3>2
  <2>4. ordered(disk'.ssts, Append(plan.l1, id))
    <3>1. ordered(disk'.ssts, plan.l1)
      BY <1>13 DEF tablesOK
    <3> QED
      BY <1>2, <2>3, <3>1, OrderedAppend
  <2> QED
    BY <1>15, <2>1, <2>4 DEF tablesOK
<1>19. ASSUME NEW i \in idsOf(files2)
       PROVE  /\ mem.nextSST <= i
              /\ \A k \in DOMAIN disk'.ssts[i] : /\ k \in old /\ disk'.ssts[i][k] = all[k]
                                                 /\ \A j \in unwritten' : k < j
  <2>1. CASE i = id
    <3>1. disk'.ssts[i] = r /\ mem.nextSST <= i
      BY <1>3, <1>11, <2>1
    <3>2. \A k \in DOMAIN r : k \in old /\ r[k] = all[k]
      BY <1>7, <1>9
    <3>3. \A k \in DOMAIN r : \A j \in unwritten' : k < j
      BY <1>7, <1>9, <1>17
    <3> QED
      BY <3>1, <3>2, <3>3
  <2>2. CASE i \in idsOf(plan)
    BY <1>4, <1>16, <1>17, <2>2, ZenonT(60)
  <2> QED
    BY <1>15, <2>1, <2>2
<1>20. outputsOK'
  <2>1. /\ mem'.plan.compacting /\ mem'.plan.files.l0 = <<>>
        /\ below(DOMAIN disk'.ssts, mem'.plan.nextSST)
        /\ mem'.nextSST <= mem'.plan.nextSST /\ tablesOK(disk'.ssts, mem'.plan.files)
    BY <1>3, <1>5, <1>6, <1>11, <1>15, <1>18
  <2>2. \A i \in idsOf(mem'.plan.files) :
          /\ mem'.nextSST <= i
          /\ \A k \in DOMAIN disk'.ssts[i] :
                /\ k \in live(disk'.ssts, mem'.files)
                /\ disk'.ssts[i][k] = merged(disk'.ssts, mem'.files)[k]
                /\ \A j \in unwritten' : k < j
    <3>1. /\ idsOf(mem'.plan.files) = idsOf(files2) /\ mem'.nextSST = mem.nextSST
          /\ live(disk'.ssts, mem'.files) = old /\ merged(disk'.ssts, mem'.files) = all
      BY <1>14, <1>15
    <3>2. \A i \in idsOf(files2) :
            /\ mem.nextSST <= i
            /\ \A k \in DOMAIN disk'.ssts[i] : /\ k \in old /\ disk'.ssts[i][k] = all[k]
                                               /\ \A j \in unwritten' : k < j
      BY <1>19
    <3> QED
      BY <3>1, <3>2, ZenonT(60)
  <2> QED
    BY <2>1, <2>2 DEF outputsOK
<1> QED
  BY <1>11, <1>12, <1>20

LEMMA WriteOutputOK ==
    ASSUME wellOrdered, IInv, WriteOutput
    PROVE  IInv'
<1> DEFINE files2 == [l0 |-> mem.plan.files.l0, l1 |-> Append(mem.plan.files.l1, mem.plan.nextSST)]
           plan == [files |-> files2, nextSST |-> mem.plan.nextSST + 1, compacting |-> TRUE]
           out(ks) == putSST(disk, mem.plan.nextSST, [k \in ks |-> merged(disk.ssts, mem.files)[k]])
<1>1. /\ pc = "outputs" /\ \E ks \in lowest(unwritten) : disk' = out(ks)
      /\ mem' = [mem EXCEPT !.plan = plan] /\ pc' = pc /\ batch' = batch /\ views' = views
  BY DEF WriteOutput
<1>2. pc \in Opened /\ pc' \in Opened
  BY <1>1 DEF Opened
<1>3. /\ opened /\ mem.phase # "manifest" /\ isDisk(disk) /\ mem \in Mem
      /\ views \in [Readers -> SUBSET View] /\ batch \in Batches \cup {noRecords}
      /\ publishedOK /\ filesOK /\ openedOK
  BY <1>2, InOpened
<1>4. opened'
  BY <1>2 DEF opened
<1>5. PICK ks \in lowest(unwritten) : disk' = out(ks)
  BY <1>1
<1>6. plan \in Plan /\ plan.files = files2 /\ plan.nextSST = mem.plan.nextSST + 1 /\ plan.compacting = TRUE
  <2>1. mem.plan.files \in Files /\ mem.plan.nextSST \in Nat \ {0}
    BY <1>3, MemFields
  <2>2. mem.plan.nextSST + 1 \in Nat \ {0}
    BY <2>1, SMTT(20)
  <2>3. files2 \in Files
    BY <2>1, AppendedL1
  <2> HIDE DEF files2
  <2> QED
    BY <2>2, <2>3 DEF Plan
<1> HIDE DEF plan
<1>7. /\ mem' \in Mem /\ mem'.lsn = mem.lsn /\ mem'.active = mem.active /\ mem'.gen = mem.gen
      /\ mem'.flushed = mem.flushed /\ mem'.files = mem.files /\ mem'.nextSST = mem.nextSST
      /\ mem'.obsolete = mem.obsolete /\ mem'.phase = mem.phase /\ mem'.plan = plan
  BY <1>1, <1>3, <1>6, PlanType
<1>8. /\ outputsOK' /\ isDisk(disk') /\ disk'.segs = disk.segs
      /\ disk'.manifests = disk.manifests /\ disk'.current = disk.current
      /\ DOMAIN disk.ssts \subseteq DOMAIN disk'.ssts /\ tablesOK(disk'.ssts, mem.files)
  <2>1. /\ mem'.files = mem.files /\ mem'.nextSST = mem.nextSST /\ mem'.plan.files = files2
        /\ mem'.plan.nextSST = mem.plan.nextSST + 1 /\ mem'.plan.compacting = TRUE
    BY <1>6, <1>7
  <2> QED
    BY <1>1, <1>5, <2>1, OutputsGrow
<1>9. pc' \notin {"rotate", "manifest", "current", "trim", "roll", "append"} /\ pc # "current"
  BY <1>1
<1>10. typed'
  BY <1>1, <1>3, <1>4, <1>7, <1>8, <1>9, TypedOpened
<1>11. publishedOK'
  <2>1. published' = published
    BY <1>7 DEF published
  <2> QED
    BY <1>3, <1>7, <1>8, <1>9, <2>1 DEF publishedOK
<1>12. filesOK'
  BY <1>3, <1>7, <1>8 DEF filesOK
<1>13. openedOK'
  BY <1>1, <1>3, <1>7, <1>8, <1>9 DEF openedOK
<1>14. viewsOK'
  BY <1>1, <1>4, <1>8, ViewsKept
<1> QED
  BY <1>4, <1>8, <1>9, <1>10, <1>11, <1>12, <1>13, <1>14, OpenedStep

LEMMA OpenWALOK ==
    ASSUME wellOrdered, IInv, OpenWAL
    PROVE  IInv'
<1> DEFINE segs2 == repaired(disk.segs, mem.flushed)
           lsn == walEnd(disk.segs, mem.flushed)
           active == replayed(disk.segs, mem.flushed)
           phase == IF active # noRecords THEN "checkpoint" ELSE "open"
<1>1. /\ pc = "wal" /\ walReadable(disk.segs, mem.flushed) /\ disk' = withSegs(disk, segs2)
      /\ mem' = [mem EXCEPT !.lsn = lsn, !.active = active, !.phase = phase]
      /\ pc' \in {"sst", "idle"} /\ batch' = batch /\ views' = views
  BY DEF OpenWAL
<1>2. opening /\ pc' \in Opened
  BY <1>1 DEF opening, Opening, Opened
<1>3. opened'
  BY <1>2 DEF opened
<1>4. /\ isDisk(disk) /\ mem \in Mem /\ views \in [Readers -> SUBSET View]
      /\ batch \in Batches \cup {noRecords} /\ publishedOK /\ filesOK /\ openingOK
  BY <1>2 DEF IInv, typed
<1>5. disk.segs \in Seq(Segment) /\ mem.flushed \in Nat
  BY <1>4, MemFields DEF isDisk
<1>6. walOK(disk.segs, mem.flushed)
  <2>1. ~ tornFirst(disk.segs)
    <3> SUFFICES ASSUME disk.segs = <<tornHeader>> PROVE FALSE
      BY DEF tornFirst
    <3>1. disk.segs # <<>> /\ disk.segs[1] = tornHeader
      BY SMTT(20)
    <3>2. tornHeader.tail = "header"
      BY DEF tornHeader
    <3> QED
      BY <1>1, <3>1, <3>2 DEF walReadable
  <2> QED
    BY <1>4, <2>1 DEF openingOK
<1>7. /\ segs2 \in Seq(Segment) /\ segs2 # <<>> /\ lastSegment(segs2).tail = "clean"
      /\ walOK(segs2, mem.flushed) /\ sameWAL(disk.segs, segs2, mem.flushed)
  BY <1>5, <1>6, Repaired DEF walKept
<1>8. framesOK(disk.segs, mem.flushed)
  BY <1>5, <1>6, WalFrames
<1>9. walEnd(segs2, mem.flushed) = lsn /\ replayed(segs2, mem.flushed) = active
  BY <1>5, <1>7, <1>8, ReplayedSame DEF sameWAL
<1>10. lsn \in Nat /\ active \in Records
  BY <1>5, <1>8, ReplayedType DEF framesOK
<1>11. phase \in {"manifest", "checkpoint", "open"} /\ phase # "manifest"
  OBVIOUS
<1> HIDE DEF segs2, lsn, active, phase
<1>12. /\ mem' \in Mem /\ mem'.lsn = lsn /\ mem'.active = active /\ mem'.gen = mem.gen
       /\ mem'.flushed = mem.flushed /\ mem'.files = mem.files /\ mem'.nextSST = mem.nextSST
       /\ mem'.obsolete = mem.obsolete /\ mem'.phase = phase
  BY <1>1, <1>4, <1>10, <1>11, LogReplayed
<1>13. /\ isDisk(disk') /\ disk'.segs = segs2 /\ disk'.ssts = disk.ssts
       /\ disk'.manifests = disk.manifests /\ disk'.current = disk.current
  BY <1>1, <1>4, <1>7, SegsChanged
<1>14. pc' \notin {"rotate", "manifest", "current", "outputs", "trim", "roll", "append"}
  BY <1>1
<1>15. typed'
  BY <1>1, <1>3, <1>4, <1>11, <1>12, <1>13, <1>14, TypedOpened
<1>16. publishedOK'
  <2>1. published' = published /\ pc # "current"
    BY <1>1, <1>12 DEF published
  <2> QED
    BY <1>4, <1>12, <1>13, <1>14, <2>1 DEF publishedOK
<1>17. filesOK'
  BY <1>4, <1>12, <1>13 DEF filesOK
<1>18. openedOK'
  <2>1. below(DOMAIN disk.ssts, mem.nextSST)
    BY <1>1, <1>4 DEF openingOK
  <2> QED
    BY <1>7, <1>9, <1>12, <1>13, <1>14, <2>1 DEF openedOK
<1>19. viewsOK'
  <2>1. DOMAIN disk.ssts \subseteq DOMAIN disk'.ssts
    BY <1>13
  <2> QED
    BY <1>1, <1>3, <2>1, ViewsKept
<1> QED
  BY <1>3, <1>14, <1>15, <1>16, <1>17, <1>18, <1>19, OpenedStep

LEMMA StepOK ==
    ASSUME wellOrdered, IInv, Step
    PROVE  IInv'
<1>1. CASE OpenManifest
  BY <1>1, OpenManifestOK
<1>2. CASE CleanSST
  BY <1>2, CleanSSTOK
<1>3. CASE CleanManifests
  BY <1>3, CleanManifestsOK
<1>4. CASE OpenWAL
  BY <1>4, OpenWALOK
<1>5. CASE RollSegment
  BY <1>5, RollSegmentOK
<1>6. CASE AppendFrame
  BY <1>6, AppendFrameOK
<1>7. CASE WriteSST
  BY <1>7, WriteSSTOK
<1>8. CASE RotateWAL
  BY <1>8, RotateWALOK
<1>9. CASE PublishManifest
  BY <1>9, PublishManifestOK
<1>10. CASE PublishCurrent
  BY <1>10, PublishCurrentOK
<1>11. CASE TrimWAL
  BY <1>11, TrimWALOK
<1>12. CASE WriteOutput
  BY <1>12, WriteOutputOK
<1>13. CASE FinishOutputs
  BY <1>13, FinishOutputsOK
<1>14. CASE CleanObsolete
  BY <1>14, CleanObsoleteOK
<1>15. CASE Refuse
  BY <1>15, RefuseOK
<1> QED
  BY <1>1, <1>2, <1>3, <1>4, <1>5, <1>6, <1>7, <1>8, <1>9, <1>10, <1>11, <1>12, <1>13, <1>14,
     <1>15 DEF Step

LEMMA NextOK ==
    ASSUME wellOrdered, IInv, [Next]_vars
    PROVE  IInv'
<1>1. CASE Step
  BY <1>1, StepOK
<1>2. ASSUME NEW b \in Batches, Apply(b) PROVE IInv'
  BY <1>2, ApplyOK
<1>3. ASSUME NEW r \in Readers, OpenView(r) PROVE IInv'
  BY <1>3, OpenViewOK
<1>4. ASSUME NEW r \in Readers, CloseView(r) PROVE IInv'
  BY <1>4, CloseViewOK
<1>5. CASE Close
  BY <1>5, CloseOK
<1>6. CASE Crash
  BY <1>6, CrashOK
<1>7. CASE Fail
  BY <1>7, FailOK
<1>8. CASE UNCHANGED vars
  <2>1. disk' = disk /\ mem' = mem /\ pc' = pc /\ batch' = batch /\ views' = views
    BY <1>8 DEF vars
  <2>2. (typed' <=> typed) /\ (opening' <=> opening) /\ (opened' <=> opened)
    BY <2>1 DEF typed, opening, opened
  <2>3. published' = published /\ newManifest' = newManifest /\ unwritten' = unwritten
    BY <2>1 DEF published, newManifest, unwritten
  <2>4. publishedOK' <=> publishedOK
    BY <2>1, <2>3 DEF publishedOK
  <2>5. (filesOK' <=> filesOK) /\ (openingOK' <=> openingOK) /\ (openedOK' <=> openedOK)
    BY <2>1 DEF filesOK, openingOK, openedOK
  <2>6. planOK' <=> planOK
    BY <2>1 DEF planOK
  <2>7. outputsOK' <=> outputsOK
    BY <2>1, <2>3 DEF outputsOK
  <2>8. viewsOK' <=> viewsOK
    BY <2>1, <2>2 DEF viewsOK
  <2> QED
    BY <2>1, <2>2, <2>4, <2>5, <2>6, <2>7, <2>8 DEF IInv
<1> QED
  BY <1>1, <1>2, <1>3, <1>4, <1>5, <1>6, <1>7, <1>8 DEF Next

-----------------------------------------------------------------------------
(***************************************************************************)
(* What it implies.                                                        *)
(***************************************************************************)

\* The types, and an open WAL with a current segment.
LEMMA Typed ==
    ASSUME IInv
    PROVE  TypeOK
<1>1. isDisk(disk) /\ mem \in Mem /\ batch \in Batches \cup {noRecords}
  BY DEF IInv, typed
<1>2. \A i \in DOMAIN disk.segs :
         /\ disk.segs[i].first \in Nat /\ disk.segs[i].tail \in {"clean", "torn", "header"}
         /\ \A j \in DOMAIN disk.segs[i].frames : disk.segs[i].frames[j] \in Batches
  <2>1. disk.segs \in Seq(Segment)
    BY <1>1 DEF isDisk
  <2>2. \A i \in DOMAIN disk.segs :
           /\ disk.segs[i].first \in Nat /\ disk.segs[i].frames \in Seq(Batches)
           /\ disk.segs[i].tail \in {"clean", "torn", "header"}
    BY <2>1, SegmentFields
  <2>3. \A q \in Seq(Batches) : \A j \in DOMAIN q : q[j] \in Batches
    BY SMTT(20)
  <2> QED
    BY <2>2, <2>3
<1>3. \A i \in DOMAIN disk.ssts : i \in Nat \ {0} /\ disk.ssts[i] \in Records
  BY <1>1 DEF isDisk, isTables
<1>4. \A g \in DOMAIN disk.manifests :
         disk.manifests[g].flushed \in Nat /\ disk.manifests[g].files \in Files
  <2>1. \A m \in Manifest : m.flushed \in Nat /\ m.files \in Files
    BY DEF Manifest
  <2> QED
    BY <1>1, <2>1 DEF isDisk, isManifests
<1>5. /\ mem.active \in Records /\ mem.files \in Files /\ mem.plan.files \in Files
      /\ mem.obsolete \subseteq Nat /\ disk.current \in Nat
  BY <1>1, MemFields DEF isDisk
<1>6. /\ pc \in Opened => openedOK
      /\ pc \in {"idle", "roll", "append", "sst", "rotate", "manifest", "current", "trim"} =>
            pc \in Opened
  BY DEF IInv, opened, Opened
<1>7. pc \in {"idle", "sst"} => pc \notin {"rotate", "manifest", "current", "outputs"}
  OBVIOUS
<1>8. /\ pc \in {"idle", "roll", "append", "sst", "rotate", "manifest", "current", "trim"} =>
            disk.segs # <<>>
      /\ pc \in {"idle", "sst"} => \A i \in DOMAIN disk.ssts : i < mem.nextSST
  BY <1>6, <1>7 DEF openedOK, below
<1> QED
  BY <1>1, <1>2, <1>3, <1>4, <1>5, <1>8 DEF TypeOK

\* The manifest in use or about to be, as recovery reads it.
LEMMA RecoveredFrom ==
    ASSUME NEW d, NEW flushed, NEW files, manifestOf(d) = [flushed |-> flushed, files |-> files]
    PROVE  /\ recovered(d) = readAll(d.ssts, replayed(d.segs, flushed), files)
           /\ recoveredLSN(d) = walEnd(d.segs, flushed)
<1>1. manifestOf(d).flushed = flushed /\ manifestOf(d).files = files
  BY SMTT(20)
<1> QED
  BY <1>1 DEF recovered, recoveredLSN

\* The manifest about to be published serves what is served now.
LEMMA PlannedServes ==
    ASSUME IInv, pc = "current", opened, NEW d, d.segs = disk.segs, d.ssts = disk.ssts,
           manifestOf(d) = newManifest
    PROVE  /\ recovered(d) = readAll(disk.ssts, mem.active, mem.files)
           /\ recoveredLSN(d) = mem.lsn
<1>1. /\ disk.segs \in Seq(Segment) /\ disk.segs # <<>> /\ mem.flushed \in Nat
      /\ walOK(disk.segs, mem.flushed) /\ lastSegment(disk.segs).tail = "clean"
      /\ mem.lsn = walEnd(disk.segs, mem.flushed)
  BY OpenedFacts
<1>2. walEnd(disk.segs, mem.lsn) = mem.lsn /\ replayed(disk.segs, mem.lsn) = noRecords
  <2> DEFINE e == walEnd(disk.segs, mem.flushed)
  <2>1. walEnd(disk.segs, e) = e /\ replayed(disk.segs, e) = noRecords
    BY <1>1, CheckpointWAL
  <2>2. mem.lsn = e
    BY <1>1
  <2> HIDE DEF e
  <2> QED
    BY <2>1, <2>2
<1>3. readAll(disk.ssts, noRecords, mem.plan.files) = readAll(disk.ssts, mem.active, mem.files)
  <2>1. planOK
    BY DEF IInv
  <2> QED
    BY <2>1 DEF planOK
<1>4. /\ recovered(d) = readAll(d.ssts, replayed(d.segs, mem.lsn), mem.plan.files)
      /\ recoveredLSN(d) = walEnd(d.segs, mem.lsn)
  BY RecoveredFrom DEF newManifest
<1> QED
  BY <1>2, <1>3, <1>4

\* An engine serves what recovery would find.
LEMMA Serving ==
    ASSUME IInv, opened
    PROVE  /\ recovered(disk) = readAll(disk.ssts, mem.active, mem.files)
           /\ recoveredLSN(disk) = mem.lsn
<1>1. /\ mem.lsn = walEnd(disk.segs, mem.flushed)
      /\ mem.active = replayed(disk.segs, mem.flushed)
  BY OpenedFacts
<1>2. manifestOf(disk) \in {published, newManifest} /\ (pc # "current" => manifestOf(disk) = published)
  BY CurrentManifest
<1>3. CASE manifestOf(disk) = published
  BY <1>1, <1>3, RecoveredFrom DEF published
<1>4. CASE manifestOf(disk) = newManifest /\ pc = "current"
  BY <1>4, PlannedServes
<1> QED
  BY <1>2, <1>3, <1>4

\* What an engine at rest shows is what recovery would find.
LEMMA Visible ==
    ASSUME IInv
    PROVE  VisibleIsDurable
<1>1. pc = "idle" => opened
  BY DEF opened, Opened
<1> QED
  BY <1>1, Serving DEF VisibleIsDurable

\* The files of a sound directory pass the checks of Open.
LEMMA Readable ==
    ASSUME NEW d, isDisk(d), diskOK(d), d.segs # <<tornHeader>>
    PROVE  manifestReadable(d) /\ walReadable(d.segs, manifestOf(d).flushed)
<1> DEFINE segs == d.segs
           flushed == manifestOf(d).flushed
<1>1. manifestReadable(d)
  BY DEF diskOK, currentOK, tablesOK, manifestReadable
<1>2. segs \in Seq(Segment) /\ flushed \in Nat /\ walOK(segs, flushed)
  BY ManifestType DEF isDisk, diskOK, tornFirst
<1> HIDE DEF segs, flushed
<1>3. ASSUME segs # <<>> PROVE walReadable(segs, flushed)
  <2>1. chained(segs) /\ covers(segs, flushed)
    BY <1>2, <1>3 DEF walOK
  <2>2. Len(segs) \in Nat /\ DOMAIN segs = 1 .. Len(segs) /\ Len(segs) # 0
    BY <1>2, <1>3, SegmentFields
  <2>3. 1 \in DOMAIN segs /\ segs[1].first \in Nat
    <3>1. 1 \in DOMAIN segs
      BY <2>2, SMTT(20)
    <3> QED
      BY <1>2, <3>1, SegmentFields
  <2>4. segs[1].tail # "header" /\ segs[1].first \in 1 .. flushed + 1
    <3>1. segs[1].tail # "header" /\ segs[1].first <= flushed + 1 /\ segs[1].first >= 1
      BY <2>1, <2>3 DEF chained, covers
    <3> QED
      BY <1>2, <2>3, <3>1, SMTT(15)
  <2>5. \A i \in 1 .. Len(segs) - 1 : i \in DOMAIN segs /\ i < Len(segs)
    BY <2>2, SMTT(20)
  <2>6. \A i \in 1 .. Len(segs) - 1 :
           /\ segs[i].tail = "clean" /\ segs[i].frames # <<>>
           /\ segs[i + 1].tail # "header" => segs[i + 1].first = segmentEnd(segs[i]) + 1
    BY <2>1, <2>5 DEF chained
  <2>7. walEnd(segs, flushed) >= flushed
    <3>1. flushed <= walEnd(segs, flushed)
      BY <2>1 DEF covers
    <3> QED
      BY <3>1, SMTT(20)
  <2> QED
    BY <2>4, <2>6, <2>7 DEF walReadable
<1>4. walReadable(segs, flushed)
  BY <1>3 DEF walReadable
<1> QED
  BY <1>1, <1>4 DEF segs, flushed

-----------------------------------------------------------------------------
(***************************************************************************)
(* Before its first segment is whole, the directory holds nothing else.    *)
(***************************************************************************)
blank(d) == DOMAIN d.ssts = {} /\ DOMAIN d.manifests = {}

bornOK == disk.segs \in {<<>>, <<tornHeader>>} => blank(disk)

\* Files were only removed, and none of the WAL.
shrinks ==
    /\ disk'.segs = disk.segs
    /\ DOMAIN disk'.ssts \subseteq DOMAIN disk.ssts
    /\ DOMAIN disk'.manifests \subseteq DOMAIN disk.manifests

LEMMA BornInit ==
    ASSUME Init
    PROVE  bornOK
  BY DEF Init, emptyDisk, bornOK, blank

\* A last segment with a header is not a torn first one.
LEMMA NotTornFirst ==
    ASSUME NEW segs, Len(segs) = 1 => lastSegment(segs).tail # "header", segs # <<>>
    PROVE  segs \notin {<<>>, <<tornHeader>>}
<1>1. Len(<<tornHeader>>) = 1 /\ <<tornHeader>>[1] = tornHeader
  BY SMTT(20)
<1>2. tornHeader.tail = "header"
  BY DEF tornHeader
<1> QED
  BY <1>1, <1>2 DEF lastSegment

\* An open engine has a whole segment.
LEMMA OpenedBorn ==
    ASSUME IInv, opened
    PROVE  disk.segs \notin {<<>>, <<tornHeader>>}
  BY OpenedFacts, NotTornFirst

whole == opened => disk.segs \notin {<<>>, <<tornHeader>>}

LEMMA Whole == IInv => whole
  BY OpenedBorn DEF whole

LEMMA WholeNext == IInv' => whole'
  BY Whole, PTL

\* A change cut short leaves a torn first segment only where no file was.
LEMMA InterruptedBorn ==
    ASSUME IInv, bornOK, NEW d \in interrupted, d.segs \in {<<>>, <<tornHeader>>}
    PROVE  blank(d)
<1>1. isDisk(disk)
  BY DEF IInv, typed
<1>2. ASSUME NEW segs, d = withSegs(disk, segs)
      PROVE  d.segs = segs /\ d.ssts = disk.ssts /\ d.manifests = disk.manifests
  BY <1>1, <1>2, SegsOnly
<1>3. CASE d = disk
  BY <1>3 DEF bornOK
<1>4. ASSUME opened, NEW s, d = withSegs(disk, Append(disk.segs, s)) PROVE FALSE
  <2>1. disk.segs \in Seq(Segment) /\ disk.segs # <<>>
    BY <1>4, OpenedFacts
  <2>2. Len(Append(disk.segs, s)) = Len(disk.segs) + 1 /\ Len(disk.segs) \in Nat \ {0}
    BY <2>1, SMTT(20)
  <2>3. \A n \in Nat \ {0} : n + 1 # 1 /\ n + 1 # Len(<<>>)
    BY SMTT(20)
  <2>4. Len(Append(disk.segs, s)) # 1 /\ Append(disk.segs, s) # <<>>
    BY <2>2, <2>3
  <2> QED
    BY <1>2, <1>4, <2>4, NotTornFirst
<1>5. ASSUME opened, NEW segs, d = withSegs(disk, segs), segs # <<>>,
             lastSegment(segs).tail # "header"
      PROVE  FALSE
  BY <1>2, <1>5, NotTornFirst
<1>6. CASE pc = "roll" \/ pc = "rotate"
  <2>1. opened
    BY <1>6 DEF opened, Opened
  <2> QED
    BY <1>3, <1>4, <1>6, <2>1, InterruptedCases
<1>7. CASE pc = "append"
  <2>1. opened /\ batch \in Batches
    BY <1>7 DEF opened, Opened, IInv, typed
  <2>2. /\ setTail(disk.segs, "torn") # <<>>
        /\ lastSegment(setTail(disk.segs, "torn")).tail # "header"
    <3>1. "torn" \in {"clean", "torn"} /\ "torn" # "header" /\ "clean" # "header"
      BY SMTT(20)
    <3> QED
      BY <2>1, <3>1, OpenedFacts, SetTail
  <2>3. /\ appendFrame(disk.segs, batch) # <<>>
        /\ lastSegment(appendFrame(disk.segs, batch)).tail # "header"
    BY <2>1, OpenedFacts, AppendOne
  <2> QED
    BY <1>3, <1>5, <1>7, <2>1, <2>2, <2>3, InterruptedCases
<1>8. CASE pc = "wal"
  <2>1. ASSUME disk.segs = <<>>, d = withSegs(disk, Append(disk.segs, tornHeader)) PROVE blank(d)
    BY <1>2, <2>1 DEF bornOK, blank
  <2> QED
    BY <1>3, <1>8, <2>1, InterruptedCases
<1>9. CASE pc = "current"
  <2>1. opened
    BY <1>9 DEF opened, Opened
  <2>2. d = disk \/ d = setCurrent(disk, mem.gen + 1)
    <3>1. pc \notin {"roll", "append", "rotate", "wal"}
      BY <1>9
    <3> QED
      BY <3>1, InterruptedCases
  <2>3. d.segs = disk.segs
    <3>1. setCurrent(disk, mem.gen + 1).segs = disk.segs
      BY <1>1, CurrentOnly
    <3> QED
      BY <2>2, <3>1
  <2> QED
    BY <2>1, <2>3, OpenedBorn
<1> QED
  BY <1>3, <1>6, <1>7, <1>8, <1>9, InterruptedCases

\* What a step does to the files.
LEMMA StepFiles ==
    ASSUME IInv, [Next]_vars
    PROVE  opened' \/ shrinks \/ disk' \in interrupted
<1>0. isDisk(disk)
  BY DEF IInv, typed
<1>1. ASSUME disk' = disk PROVE shrinks
  BY <1>1 DEF shrinks
<1>2. ASSUME NEW ids, disk' = removeSSTs(disk, ids) PROVE shrinks
  <2>1. /\ disk'.segs = disk.segs /\ disk'.manifests = disk.manifests
        /\ DOMAIN disk'.ssts = DOMAIN disk.ssts \ ids
    BY <1>0, <1>2, CutSSTsOnly, CutTables DEF tablesCut
  <2> QED
    BY <2>1 DEF shrinks
<1>3. ASSUME NEW g, disk' = removeManifest(disk, g) PROVE shrinks
  <2>1. /\ disk'.segs = disk.segs /\ disk'.ssts = disk.ssts
        /\ DOMAIN disk'.manifests = DOMAIN disk.manifests \ {g}
    BY <1>0, <1>3, CutManifestOnly, CutManifest DEF manifestCut
  <2> QED
    BY <2>1 DEF shrinks
<1>4. ASSUME NEW g, disk' = setCurrent(disk, g) PROVE shrinks
  BY <1>0, <1>4, CurrentOnly DEF shrinks
<1>5. disk \in interrupted
  BY DEF interrupted
<1>6. CASE OpenManifest
  BY <1>4, <1>6 DEF OpenManifest
<1>7. CASE CleanSST
  BY <1>1, <1>2, <1>7 DEF CleanSST
<1>8. CASE CleanManifests
  BY <1>1, <1>3, <1>8 DEF CleanManifests
<1>9. CASE OpenWAL
  BY <1>9 DEF OpenWAL, opened, Opened
<1>10. CASE RollSegment
  BY <1>10 DEF RollSegment, opened, Opened
<1>11. CASE AppendFrame
  BY <1>11 DEF AppendFrame, opened, Opened
<1>12. CASE WriteSST
  BY <1>12 DEF WriteSST, opened, Opened
<1>13. CASE RotateWAL
  BY <1>13 DEF RotateWAL, opened, Opened
<1>14. CASE PublishManifest
  BY <1>14 DEF PublishManifest, opened, Opened
<1>15. CASE PublishCurrent
  BY <1>4, <1>15 DEF PublishCurrent
<1>16. CASE TrimWAL
  BY <1>1, <1>16 DEF TrimWAL, opened, Opened
<1>17. CASE WriteOutput
  BY <1>17 DEF WriteOutput, opened, Opened
<1>18. CASE FinishOutputs
  BY <1>1, <1>18 DEF FinishOutputs
<1>19. CASE CleanObsolete
  BY <1>1, <1>2, <1>19 DEF CleanObsolete
<1>20. CASE Refuse \/ Close \/ Crash \/ Fail
  BY <1>5, <1>20 DEF Refuse, Close, Crash, Fail, gone, failed
<1>21. ASSUME NEW b \in Batches, Apply(b) PROVE shrinks
  BY <1>1, <1>21 DEF Apply
<1>22. ASSUME NEW r \in Readers, OpenView(r) \/ CloseView(r) PROVE shrinks
  BY <1>1, <1>2, <1>22 DEF OpenView, CloseView
<1>23. CASE UNCHANGED vars
  BY <1>1, <1>23 DEF vars
<1> QED
  BY <1>6, <1>7, <1>8, <1>9, <1>10, <1>11, <1>12, <1>13, <1>14, <1>15, <1>16, <1>17, <1>18,
     <1>19, <1>20, <1>21, <1>22, <1>23 DEF Next, Step

LEMMA BornStep ==
    ASSUME IInv, IInv', bornOK, [Next]_vars
    PROVE  bornOK'
<1> SUFFICES ASSUME disk'.segs \in {<<>>, <<tornHeader>>}
             PROVE  blank(disk')
  BY DEF bornOK
<1>1. CASE opened'
  BY <1>1, WholeNext DEF whole
<1>2. CASE shrinks
  BY <1>2 DEF shrinks, bornOK, blank
<1>3. CASE disk' \in interrupted
  BY <1>3, InterruptedBorn
<1> QED
  BY <1>1, <1>2, <1>3, StepFiles

\* Open succeeds on the files of a stopped engine unless the manifest is full,
\* or the first segment is torn and alone.
LEMMA Reopens ==
    ASSUME IInv, bornOK
    PROVE  ReopenableUntilFull
<1>0. disk.segs = <<tornHeader>> => stillborn(disk)
  BY DEF bornOK, blank, stillborn
<1> SUFFICES ASSUME pc = "closed", disk.segs # <<tornHeader>>
             PROVE  /\ manifestReadable(disk)
                    /\ walReadable(disk.segs, manifestOf(disk).flushed)
                    /\ full(disk) \/ opens(disk)
  BY <1>0 DEF ReopenableUntilFull
<1>1. isDisk(disk) /\ diskOK(disk)
  BY DEF IInv, typed
<1>2. manifestReadable(disk) /\ walReadable(disk.segs, manifestOf(disk).flushed)
  BY <1>1, Readable
<1>3. ~ full(disk) => countOf(manifestOf(disk).files) < MaxSSTFiles
  <2>1. countOf(manifestOf(disk).files) \in Nat
    <3>1. manifestOf(disk).files \in Files
      BY <1>1, ManifestType
    <3>2. \A q \in Seq(Nat \ {0}) : Len(q) \in Nat
      BY SMTT(20)
    <3>3. Len(manifestOf(disk).files.l0) \in Nat /\ Len(manifestOf(disk).files.l1) \in Nat
      BY <3>1, <3>2, FilesFields
    <3>4. \A m, n \in Nat : m + n \in Nat
      BY SMTT(20)
    <3> QED
      BY <3>3, <3>4 DEF countOf
  <2> QED
    BY <2>1, EngineAssumption, SMTT(15) DEF full
<1> QED
  BY <1>2, <1>3 DEF opens

-----------------------------------------------------------------------------
(***************************************************************************)
(* The engine implements DurableMap.                                       *)
(***************************************************************************)

\* While Open runs, the manifest it read and the log are what counts.
LEMMA ServingSoon ==
    ASSUME IInv, opening
    PROVE  /\ recovered(disk) = readAll(disk.ssts, replayed(disk.segs, mem.flushed), mem.files)
           /\ recoveredLSN(disk) = walEnd(disk.segs, mem.flushed)
<1>1. pc # "current"
  BY DEF opening, Opening
<1>2. manifestOf(disk) = published
  BY <1>1, CurrentManifest
<1> QED
  BY <1>2, RecoveredFrom DEF published

\* Both say what is served, before and after a step.
serves ==
    /\ opened => /\ recovered(disk) = readAll(disk.ssts, mem.active, mem.files)
                 /\ recoveredLSN(disk) = mem.lsn
    /\ opening => /\ recovered(disk) = readAll(disk.ssts, replayed(disk.segs, mem.flushed), mem.files)
                  /\ recoveredLSN(disk) = walEnd(disk.segs, mem.flushed)

LEMMA Serves == IInv => serves
  BY Serving, ServingSoon DEF serves

LEMMA ServesNext == IInv' => serves'
  BY Serves, PTL

\* A step of an open engine that changes neither what it reads nor its
\* sequence number.
LEMMA OpenedServes ==
    ASSUME IInv, IInv', opened, opened', mem'.lsn = mem.lsn,
           readAll(disk'.ssts, mem'.active, mem'.files) = readAll(disk.ssts, mem.active, mem.files)
    PROVE  recovered(disk') = recovered(disk) /\ recoveredLSN(disk') = recoveredLSN(disk)
<1>1. recovered(disk) = readAll(disk.ssts, mem.active, mem.files) /\ recoveredLSN(disk) = mem.lsn
  BY Serving
<1>2. recovered(disk') = readAll(disk'.ssts, mem'.active, mem'.files) /\ recoveredLSN(disk') = mem'.lsn
  BY ServesNext DEF serves
<1> QED
  BY <1>1, <1>2

\* A batch on top of the memtable is the abstract write.
LEMMA ReadsOver ==
    ASSUME NEW ssts, NEW active, NEW files, NEW b
    PROVE  readAll(ssts, over(active, b), files)
              = Promise!written(readAll(ssts, active, files), b)
<1> DEFINE a2 == over(active, b)
<1>1. ASSUME NEW k \in Keys
      PROVE  lookup(ssts, a2, files, k)
               = IF k \notin DOMAIN b THEN lookup(ssts, active, files, k)
                 ELSE IF b[k] = "delete" THEN "absent" ELSE b[k]
  <2> DEFINE h == holders(ssts, files.l0, k)
             s == spanning(ssts, files.l1, k)
  <2>1. \A a : lookup(ssts, a, files, k) = scan(ssts, a, files, k, h, s)
    BY DEF lookup, spanning, scan, least
  <2>2. /\ DOMAIN a2 = DOMAIN active \cup DOMAIN b
        /\ k \in DOMAIN b => a2[k] = b[k]
        /\ k \in DOMAIN active /\ k \notin DOMAIN b => a2[k] = active[k]
    BY DEF over
  <2> HIDE DEF a2, h, s
  <2>3. CASE k \in DOMAIN b
    <3>1. k \in DOMAIN a2 /\ a2[k] = b[k]
      BY <2>2, <2>3
    <3>2. scan(ssts, a2, files, k, h, s) = found(a2, k)
      BY <3>1 DEF scan
    <3>3. found(a2, k) = IF b[k] = "delete" THEN "absent" ELSE b[k]
      BY <3>1 DEF found
    <3> QED
      BY <2>1, <2>3, <3>2, <3>3
  <2>4. CASE k \notin DOMAIN b
    <3>1. (k \in DOMAIN a2 <=> k \in DOMAIN active) /\ (k \in DOMAIN active => a2[k] = active[k])
      BY <2>2, <2>4
    <3>2. found(a2, k) = found(active, k)
      BY <3>1 DEF found
    <3>3. scan(ssts, a2, files, k, h, s) = scan(ssts, active, files, k, h, s)
      BY <3>1, <3>2 DEF scan
    <3> QED
      BY <2>1, <2>4, <3>3
  <2> QED
    BY <2>3, <2>4
<1> HIDE DEF a2
<1>2. readAll(ssts, a2, files) = Promise!written(readAll(ssts, active, files), b)
  <2> DEFINE c == readAll(ssts, active, files)
  <2>1. \A k \in Keys : c[k] = lookup(ssts, active, files, k)
    BY DEF readAll
  <2> HIDE DEF c
  <2>2. \A k \in Keys : lookup(ssts, a2, files, k)
               = IF k \notin DOMAIN b THEN c[k] ELSE IF b[k] = "delete" THEN "absent" ELSE b[k]
    BY <1>1, <2>1
  <2>3. readAll(ssts, a2, files) = [k \in Keys |-> lookup(ssts, a2, files, k)]
    BY DEF readAll
  <2>4. Promise!written(c, b) = [k \in Keys |-> IF k \notin DOMAIN b THEN c[k]
                                               ELSE IF b[k] = "delete" THEN "absent" ELSE b[k]]
    BY DEF Promise!written
  <2>5. readAll(ssts, a2, files) = Promise!written(c, b)
    BY <2>2, <2>3, <2>4
  <2> QED
    BY <2>5 DEF c
<1> QED
  BY <1>2 DEF a2

\* Files with the same manifest and tables and as much of a log.
LEMMA SegsServe ==
    ASSUME wellOrdered, isDisk(disk), NEW segs2, framesOK(disk.segs, manifestOf(disk).flushed),
           sameWAL(disk.segs, segs2, manifestOf(disk).flushed)
    PROVE  LET d == withSegs(disk, segs2) IN
           /\ recovered(d) = recovered(disk) /\ recoveredLSN(d) = recoveredLSN(disk)
           /\ d.ssts = disk.ssts
<1> DEFINE d == withSegs(disk, segs2)
           flushed == manifestOf(disk).flushed
<1>1. d.segs = segs2 /\ d.ssts = disk.ssts /\ d.manifests = disk.manifests /\ d.current = disk.current
  BY SegsOnly
<1> HIDE DEF d
<1>2. manifestOf(d) = manifestOf(disk)
  BY <1>1, ManifestSame
<1>3. flushed \in Nat
  BY ManifestType
<1>4. replayed(segs2, flushed) = replayed(disk.segs, flushed)
  BY <1>3, ReplayedSame
<1>5. recovered(d) = recovered(disk)
  BY <1>1, <1>2, <1>4 DEF recovered
<1>6. recoveredLSN(d) = recoveredLSN(disk)
  BY <1>1, <1>2 DEF recoveredLSN, sameWAL
<1> QED
  BY <1>1, <1>5, <1>6 DEF d

\* Files with one frame more.
LEMMA FrameServes ==
    ASSUME wellOrdered, isDisk(disk), NEW segs2, NEW b \in Batches,
           framesOK(disk.segs, manifestOf(disk).flushed),
           oneMore(disk.segs, segs2, manifestOf(disk).flushed, b)
    PROVE  LET d == withSegs(disk, segs2) IN
           /\ recovered(d) = Promise!written(recovered(disk), b)
           /\ recoveredLSN(d) = recoveredLSN(disk) + 1 /\ d.ssts = disk.ssts
<1> DEFINE d == withSegs(disk, segs2)
           flushed == manifestOf(disk).flushed
           files == manifestOf(disk).files
           active == replayed(disk.segs, flushed)
<1>1. d.segs = segs2 /\ d.ssts = disk.ssts /\ d.manifests = disk.manifests /\ d.current = disk.current
  BY SegsOnly
<1> HIDE DEF d
<1>2. manifestOf(d) = manifestOf(disk)
  BY <1>1, ManifestSame
<1>3. flushed \in Nat
  BY ManifestType
<1>4. replayed(segs2, flushed) = over(active, b)
  BY <1>3, ReplayedMore
<1>5. recovered(d) = readAll(disk.ssts, over(active, b), files)
  BY <1>1, <1>2, <1>4 DEF recovered
<1>6. recovered(disk) = readAll(disk.ssts, active, files)
  BY DEF recovered
<1>7. recoveredLSN(d) = recoveredLSN(disk) + 1
  BY <1>1, <1>2 DEF recoveredLSN, oneMore
<1>8. readAll(disk.ssts, over(active, b), files) = Promise!written(readAll(disk.ssts, active, files), b)
  <2> HIDE DEF active, files
  <2> QED
    BY ReadsOver, SMTT(20)
<1> QED
  BY <1>1, <1>5, <1>6, <1>7, <1>8 DEF d

\* What an interrupted change leaves is what was there, except that an
\* interrupted append may leave the whole frame.
LEMMA InterruptedServes ==
    ASSUME wellOrdered, IInv, pc # "closed", NEW d \in interrupted
    PROVE  /\ d.ssts = disk.ssts
           /\ \/ recovered(d) = recovered(disk) /\ recoveredLSN(d) = recoveredLSN(disk)
              \/ /\ batch \in Batches /\ recovered(d) = Promise!written(recovered(disk), batch)
                 /\ recoveredLSN(d) = recoveredLSN(disk) + 1
<1> DEFINE same(e) == /\ e.ssts = disk.ssts /\ recovered(e) = recovered(disk)
                      /\ recoveredLSN(e) = recoveredLSN(disk)
           more(e) == /\ e.ssts = disk.ssts
                      /\ batch \in Batches /\ recovered(e) = Promise!written(recovered(disk), batch)
                      /\ recoveredLSN(e) = recoveredLSN(disk) + 1
<1>1. isDisk(disk) /\ mem \in Mem
  BY DEF IInv, typed
<1>2. ASSUME opening \/ opened, pc # "current" PROVE manifestOf(disk).flushed = mem.flushed
  <2>1. manifestOf(disk) = published
    BY <1>2, CurrentManifest
  <2> QED
    BY <1>1, <2>1, ManifestsType
<1>3. ASSUME NEW segs2, opened, pc # "current", walKept(disk.segs, segs2, mem.flushed)
      PROVE  same(withSegs(disk, segs2))
  <2>1. framesOK(disk.segs, mem.flushed)
    BY <1>3, OpenedFacts, WalFrames
  <2> QED
    BY <1>1, <1>2, <1>3, <2>1, SegsServe DEF walKept
<1>4. ASSUME pc = "roll", NEW s \in {tornHeader, segment(mem.lsn + 1)}
      PROVE  same(withSegs(disk, Append(disk.segs, s)))
  <2>1. opened /\ pc # "current"
    BY <1>4 DEF opened, Opened
  <2>2. lastSegment(disk.segs).frames # <<>> /\ s \in {tornHeader, segment(walEnd(disk.segs, mem.flushed) + 1)}
    BY <1>4, <2>1 DEF IInv, openedOK
  <2>3. walKept(disk.segs, Append(disk.segs, s), mem.flushed)
    BY <2>1, <2>2, OpenedFacts, AddSegment
  <2> QED
    BY <1>3, <2>1, <2>3
<1>5. ASSUME pc = "append" PROVE same(withSegs(disk, setTail(disk.segs, "torn")))
  <2>1. opened /\ pc # "current"
    BY <1>5 DEF opened, Opened
  <2>2. lastSegment(disk.segs).tail # "header" /\ "torn" \in {"clean", "torn"}
    BY <2>1, OpenedFacts
  <2>3. walKept(disk.segs, setTail(disk.segs, "torn"), mem.flushed)
    BY <2>1, <2>2, OpenedFacts, SetTail
  <2> QED
    BY <1>3, <2>1, <2>3
<1>6. ASSUME pc = "append" PROVE more(withSegs(disk, appendFrame(disk.segs, batch)))
  <2> DEFINE segs2 == appendFrame(disk.segs, batch)
  <2>1. opened /\ pc # "current" /\ batch \in Batches
    BY <1>6 DEF opened, Opened, IInv, typed
  <2>2. framesOK(disk.segs, mem.flushed)
    BY <2>1, OpenedFacts, WalFrames
  <2>3. oneMore(disk.segs, segs2, mem.flushed, batch)
    BY <2>1, OpenedFacts, AppendOne
  <2> HIDE DEF segs2
  <2>4. more(withSegs(disk, segs2))
    BY <1>1, <1>2, <2>1, <2>2, <2>3, FrameServes
  <2> QED
    BY <2>4 DEF segs2
<1>7. ASSUME pc = "rotate", lastSegment(disk.segs).frames # <<>>
      PROVE  same(withSegs(disk, Append(disk.segs, tornHeader)))
  <2>1. opened /\ pc # "current"
    BY <1>7 DEF opened, Opened
  <2>2. tornHeader \in {tornHeader, segment(walEnd(disk.segs, mem.flushed) + 1)}
    OBVIOUS
  <2>3. walKept(disk.segs, Append(disk.segs, tornHeader), mem.flushed)
    BY <1>7, <2>1, <2>2, OpenedFacts, AddSegment
  <2> QED
    BY <1>3, <2>1, <2>3
<1>8. ASSUME pc = "wal", disk.segs = <<>>
      PROVE  same(withSegs(disk, Append(disk.segs, tornHeader)))
  <2>1. opening /\ pc # "current" /\ mem.flushed \in Nat /\ disk.segs \in Seq(Segment)
    BY <1>1, <1>8, MemFields DEF opening, Opening, isDisk
  <2>2. framesOK(disk.segs, mem.flushed)
    BY <2>1, WalFrames DEF IInv, openingOK
  <2>3. sameWAL(disk.segs, Append(disk.segs, tornHeader), mem.flushed)
    <3> DEFINE segs2 == <<tornHeader>>
    <3>1. Append(disk.segs, tornHeader) = segs2 /\ segs2 # <<>> /\ Len(segs2) = 1 /\ segs2[1] = tornHeader
      BY <1>8, SMTT(20)
    <3>2. tornHeader.tail = "header"
      BY DEF tornHeader
    <3> HIDE DEF segs2
    <3>3. walEnd(segs2, mem.flushed) = mem.flushed /\ walEnd(disk.segs, mem.flushed) = mem.flushed
      BY <1>8, <3>1, <3>2 DEF walEnd, lastSegment
    <3>4. \A n \in mem.flushed + 1 .. mem.flushed : FALSE
      BY <2>1, SMTT(20)
    <3> QED
      BY <3>1, <3>3, <3>4 DEF sameWAL
  <2> QED
    BY <1>1, <1>2, <2>1, <2>2, <2>3, SegsServe
<1>9. ASSUME pc = "current" PROVE same(setCurrent(disk, mem.gen + 1))
  <2> DEFINE e == setCurrent(disk, mem.gen + 1)
  <2>1. opened
    BY <1>9 DEF opened, Opened
  <2>2. manifestOf(e) = newManifest /\ e.segs = disk.segs /\ e.ssts = disk.ssts
    BY <1>1, <1>9, <2>1, CurrentManifest, CurrentOnly
  <2> HIDE DEF e
  <2>3. recovered(e) = recovered(disk) /\ recoveredLSN(e) = recoveredLSN(disk)
    BY <1>9, <2>1, <2>2, PlannedServes, Serving
  <2> QED
    BY <2>2, <2>3 DEF e
<1>10. same(disk)
  OBVIOUS
<1> HIDE DEF same, more
<1>11. same(d) \/ more(d)
  BY <1>4, <1>5, <1>6, <1>7, <1>8, <1>9, <1>10, InterruptedCases
<1> QED
  BY <1>11 DEF same, more

\* The open views and what they read.
shown ==
    [r \in Readers |->
        {[lsn |-> v.lsn, contents |-> readAll(disk.ssts, v.active, v.files)] : v \in views[r]}]

\* A read of tables that a step keeps.
LEMMA DiskReadSame ==
    ASSUME wellOrdered, NEW active, NEW files \in Files, sameTables(disk.ssts, disk'.ssts, files)
    PROVE  readAll(disk'.ssts, active, files) = readAll(disk.ssts, active, files)
<1> DEFINE t == disk.ssts
           t2 == disk'.ssts
<1>1. sameTables(t, t2, files)
  OBVIOUS
<1> HIDE DEF t, t2
<1>2. readAll(t2, active, files) = readAll(t, active, files)
  BY <1>1, ReadAllSame, SMTT(15)
<1> QED
  BY <1>2 DEF t, t2

\* A reader's view after a step that keeps its tables.
LEMMA ViewSame ==
    ASSUME wellOrdered, IInv, NEW r \in Readers, views'[r] = views[r],
           \A v \in views[r] : sameTables(disk.ssts, disk'.ssts, v.files)
    PROVE  {[lsn |-> v.lsn, contents |-> readAll(disk'.ssts, v.active, v.files)] : v \in views'[r]}
             = {[lsn |-> v.lsn, contents |-> readAll(disk.ssts, v.active, v.files)] : v \in views[r]}
<1>1. views[r] \subseteq View
  BY DEF IInv, typed
<1>2. \A v \in View : v.files \in Files
  BY DEF View
<1>3. ASSUME NEW v \in views[r]
      PROVE  readAll(disk'.ssts, v.active, v.files) = readAll(disk.ssts, v.active, v.files)
  <2>1. v.files \in Files /\ sameTables(disk.ssts, disk'.ssts, v.files)
    BY <1>1, <1>2
  <2> QED
    BY <2>1, DiskReadSame
<1> DEFINE f(v) == [lsn |-> v.lsn, contents |-> readAll(disk.ssts, v.active, v.files)]
           g(v) == [lsn |-> v.lsn, contents |-> readAll(disk'.ssts, v.active, v.files)]
<1>4. \A v \in views[r] : g(v) = f(v)
  BY <1>3
<1> HIDE DEF f, g
<1>5. {g(v) : v \in views'[r]} = {f(v) : v \in views[r]}
  BY <1>4
<1> QED
  BY <1>5 DEF f, g

LEMMA ShownSame ==
    ASSUME wellOrdered, IInv, views' = views,
           \A r \in Readers : \A v \in views[r] : sameTables(disk.ssts, disk'.ssts, v.files)
    PROVE  shown' = shown
<1> DEFINE a(r) == {[lsn |-> v.lsn, contents |-> readAll(disk.ssts, v.active, v.files)] : v \in views[r]}
           b(r) == {[lsn |-> v.lsn, contents |-> readAll(disk'.ssts, v.active, v.files)] : v \in views'[r]}
<1>1. \A r \in Readers : b(r) = a(r)
  BY ViewSame
<1>2. shown = [r \in Readers |-> a(r)] /\ shown' = [r \in Readers |-> b(r)]
  BY DEF shown
<1> HIDE DEF a, b
<1> QED
  BY <1>1, <1>2

\* When no table changes.
LEMMA ShownKept ==
    ASSUME wellOrdered, IInv, views' = views, disk'.ssts = disk.ssts
    PROVE  shown' = shown
<1>1. \A files : sameTables(disk.ssts, disk'.ssts, files)
  BY DEF sameTables
<1> QED
  BY <1>1, ShownSame

\* Without views.
LEMMA ShownNone ==
    ASSUME views' = noView
    PROVE  shown' = [r \in Readers |-> {}]
<1> DEFINE b(r) == {[lsn |-> v.lsn, contents |-> readAll(disk'.ssts, v.active, v.files)] : v \in views'[r]}
<1>1. \A r \in Readers : b(r) = {}
  BY DEF noView
<1>2. shown' = [r \in Readers |-> b(r)]
  BY DEF shown
<1> HIDE DEF b
<1> QED
  BY <1>1, <1>2

\* What the abstract map sees of a step.
silent ==
    /\ recovered(disk') = recovered(disk) /\ recoveredLSN(disk') = recoveredLSN(disk)
    /\ shown' = shown

wrote(b) ==
    /\ recovered(disk') = Promise!written(recovered(disk), b)
    /\ recoveredLSN(disk') = recoveredLSN(disk) + 1
    /\ shown' \in {shown, [r \in Readers |-> {}]}

stopped ==
    /\ recovered(disk') = recovered(disk) /\ recoveredLSN(disk') = recoveredLSN(disk)
    /\ shown' = [r \in Readers |-> {}]

maps == silent \/ stopped \/ \E b \in Batches : wrote(b)

\* The steps of an open engine that leave its tables, memtable and sequence
\* number alone.
LEMMA QuietServes ==
    ASSUME wellOrdered, IInv, IInv', opened, opened', views' = views, disk'.ssts = disk.ssts,
           mem'.lsn = mem.lsn, mem'.active = mem.active, mem'.files = mem.files
    PROVE  silent
<1>1. readAll(disk'.ssts, mem'.active, mem'.files) = readAll(disk.ssts, mem.active, mem.files)
  OBVIOUS
<1>2. recovered(disk') = recovered(disk) /\ recoveredLSN(disk') = recoveredLSN(disk)
  BY <1>1, OpenedServes
<1> QED
  BY <1>2, ShownKept DEF silent

\* Those that write or remove tables that are not in use.
LEMMA TablesServe ==
    ASSUME wellOrdered, IInv, IInv', opened, opened', views' = views,
           mem'.lsn = mem.lsn, mem'.active = mem.active, mem'.files = mem.files,
           sameTables(disk.ssts, disk'.ssts, mem.files),
           \A r \in Readers : \A v \in views[r] : sameTables(disk.ssts, disk'.ssts, v.files)
    PROVE  silent
<1>1. mem.files \in Files
  <2>1. mem \in Mem
    BY DEF IInv, typed
  <2> QED
    BY <2>1, MemFields
<1>2. readAll(disk'.ssts, mem.active, mem.files) = readAll(disk.ssts, mem.active, mem.files)
  BY <1>1, DiskReadSame
<1>3. recovered(disk') = recovered(disk) /\ recoveredLSN(disk') = recoveredLSN(disk)
  BY <1>2, OpenedServes
<1>4. shown' = shown
  BY ShownSame
<1> QED
  BY <1>3, <1>4 DEF silent

\* The steps of Apply and of a flush that write no table.
LEMMA QuietSteps ==
    ASSUME wellOrdered, IInv, IInv', \/ RollSegment \/ RotateWAL \/ TrimWAL \/ FinishOutputs \/ PublishManifest
                        \/ \E b \in Batches : Apply(b)
    PROVE  silent
<1>1. isDisk(disk) /\ mem \in Mem
  BY DEF IInv, typed
<1>2. \A segs : withSegs(disk, segs).ssts = disk.ssts
  BY <1>1, SegsOnly
<1>3. \A g, m : putManifest(disk, g, m).ssts = disk.ssts
  BY <1>1, PutManifestOnly
<1>4. views' = views /\ disk'.ssts = disk.ssts
  BY <1>2, <1>3 DEF RollSegment, RotateWAL, TrimWAL, FinishOutputs, PublishManifest, Apply
<1>5. pc \in Opened /\ pc' \in Opened
  BY DEF RollSegment, RotateWAL, TrimWAL, finish, FinishOutputs, PublishManifest, Apply, Opened
<1>6. opened /\ opened'
  BY <1>5 DEF opened
<1>7. \/ mem' = mem
      \/ mem' = [mem EXCEPT !.phase = "open"]
      \/ mem' = [mem EXCEPT !.plan = [files |-> noFiles, nextSST |-> mem.nextSST,
                                      compacting |-> TRUE]]
  BY DEF RollSegment, RotateWAL, TrimWAL, finish, FinishOutputs, PublishManifest, Apply
<1>8. mem'.lsn = mem.lsn /\ mem'.active = mem.active /\ mem'.files = mem.files
  <2>1. CASE mem' = mem
    BY <2>1
  <2>2. CASE mem' = [mem EXCEPT !.phase = "open"]
    <3>1. "open" \in {"manifest", "checkpoint", "open"}
      OBVIOUS
    <3> QED
      BY <1>1, <2>2, <3>1, PhaseType
  <2>3. CASE mem' = [mem EXCEPT !.plan = [files |-> noFiles, nextSST |-> mem.nextSST,
                                          compacting |-> TRUE]]
    <3> DEFINE plan == [files |-> noFiles, nextSST |-> mem.nextSST, compacting |-> TRUE]
    <3>1. plan \in Plan
      <4>1. mem.nextSST \in Nat \ {0} /\ noFiles \in Files
        BY <1>1, MemFields, NoFiles
      <4> QED
        BY <4>1 DEF Plan
    <3>2. mem' = [mem EXCEPT !.plan = plan]
      BY <2>3
    <3> HIDE DEF plan
    <3> QED
      BY <1>1, <3>1, <3>2, PlanType
  <2> QED
    BY <1>7, <2>1, <2>2, <2>3
<1> QED
  BY <1>4, <1>6, <1>8, QuietServes

\* The new table of a flush or compaction has an unused name.
LEMMA WriteServes ==
    ASSUME wellOrdered, IInv, IInv', opened, opened', views' = views,
           mem'.lsn = mem.lsn, mem'.active = mem.active, mem'.files = mem.files,
           NEW id \in Nat \ {0}, NEW r \in Records, disk' = putSST(disk, id, r),
           id \notin DOMAIN disk.ssts
    PROVE  silent
<1>1. isDisk(disk) /\ idsOf(mem.files) \subseteq DOMAIN disk.ssts
  BY DEF IInv, typed, filesOK, tablesOK
<1>2. sameTables(disk.ssts, disk'.ssts, mem.files)
  BY <1>1, PutKeepsTables
<1>3. \A q \in Readers : \A v \in views[q] : idsOf(v.files) \subseteq DOMAIN disk.ssts
  BY DEF IInv, viewsOK
<1>4. ASSUME NEW q \in Readers, NEW v \in views[q]
      PROVE  sameTables(disk.ssts, disk'.ssts, v.files)
  <2>1. idsOf(v.files) \subseteq DOMAIN disk.ssts
    BY <1>3
  <2> QED
    BY <1>1, <2>1, PutKeepsTables
<1> QED
  BY <1>2, <1>4, TablesServe

LEMMA WriteSSTMaps ==
    ASSUME wellOrdered, IInv, IInv', WriteSST
    PROVE  silent
<1> DEFINE plan == [files |-> [l0 |-> Append(mem.files.l0, mem.nextSST), l1 |-> mem.files.l1],
                    nextSST |-> mem.nextSST + 1, compacting |-> FALSE]
<1>1. /\ pc = "sst" /\ disk' = putSST(disk, mem.nextSST, mem.active) /\ views' = views
      /\ pc' = "rotate" /\ mem' = [mem EXCEPT !.plan = plan]
  BY DEF WriteSST
<1>2. opened /\ opened' /\ pc \notin {"rotate", "manifest", "current", "outputs"}
  BY <1>1 DEF opened, Opened
<1>3. isDisk(disk) /\ mem \in Mem /\ below(DOMAIN disk.ssts, mem.nextSST)
  BY <1>2 DEF IInv, typed, openedOK
<1>4. mem.nextSST \in Nat \ {0} /\ mem.active \in Records /\ mem.files \in Files
  BY <1>3, MemFields
<1>5. mem.nextSST \notin DOMAIN disk.ssts /\ mem.nextSST + 1 \in Nat \ {0}
  <2>1. DOMAIN disk.ssts \in SUBSET Nat
    BY <1>3 DEF isDisk, isTables
  <2> QED
    BY <1>3, <1>4, <2>1, NextUnused
<1>6. plan \in Plan
  BY <1>4, <1>5, AppendedL0 DEF Plan
<1> HIDE DEF plan
<1>7. mem'.lsn = mem.lsn /\ mem'.active = mem.active /\ mem'.files = mem.files
  BY <1>1, <1>3, <1>6, PlanType
<1> QED
  BY <1>1, <1>2, <1>4, <1>5, <1>7, WriteServes

LEMMA WriteOutputMaps ==
    ASSUME wellOrdered, IInv, IInv', WriteOutput
    PROVE  silent
<1> DEFINE plan == [files |-> [l0 |-> mem.plan.files.l0,
                               l1 |-> Append(mem.plan.files.l1, mem.plan.nextSST)],
                    nextSST |-> mem.plan.nextSST + 1, compacting |-> TRUE]
           all == merged(disk.ssts, mem.files)
<1>1. /\ pc = "outputs" /\ pc' = pc /\ views' = views /\ mem' = [mem EXCEPT !.plan = plan]
      /\ \E ks \in lowest(unwritten) : disk' = putSST(disk, mem.plan.nextSST, [k \in ks |-> all[k]])
  BY DEF WriteOutput
<1>2. opened /\ opened'
  BY <1>1 DEF opened, Opened
<1>3. isDisk(disk) /\ mem \in Mem /\ below(DOMAIN disk.ssts, mem.plan.nextSST)
  BY <1>1 DEF IInv, typed, outputsOK
<1>4. /\ mem.plan.nextSST \in Nat \ {0} /\ mem.files \in Files /\ mem.plan.files \in Files
      /\ isTables(disk.ssts)
  BY <1>3, MemFields DEF isDisk
<1>5. mem.plan.nextSST \notin DOMAIN disk.ssts /\ mem.plan.nextSST + 1 \in Nat \ {0}
  <2>1. DOMAIN disk.ssts \in SUBSET Nat
    BY <1>4 DEF isTables
  <2> QED
    BY <1>3, <1>4, <2>1, NextUnused
<1>6. plan \in Plan
  BY <1>4, <1>5, AppendedL1 DEF Plan
<1> HIDE DEF plan
<1>7. mem'.lsn = mem.lsn /\ mem'.active = mem.active /\ mem'.files = mem.files
  BY <1>1, <1>3, <1>6, PlanType
<1>8. PICK ks \in lowest(unwritten) : disk' = putSST(disk, mem.plan.nextSST, [k \in ks |-> all[k]])
  BY <1>1
<1>9. [k \in ks |-> all[k]] \in Records
  <2>1. ks \subseteq DOMAIN all
    BY DEF lowest, unwritten
  <2>2. all \in Records
    BY <1>4, MergedType
  <2> HIDE DEF all
  <2> QED
    BY <2>1, <2>2, PartRecords
<1> HIDE DEF all
<1> QED
  BY <1>1, <1>2, <1>4, <1>5, <1>7, <1>8, <1>9, WriteServes

LEMMA CleanObsoleteMaps ==
    ASSUME wellOrdered, IInv, IInv', CleanObsolete
    PROVE  silent
<1>1. /\ pc = "obsolete" /\ views' = views
      /\ \/ /\ \E i \in removable(pinned) : disk' = removeSSTs(disk, {i})
            /\ mem' = mem /\ pc' = pc
         \/ /\ mem' = [mem EXCEPT !.obsolete = IF pinned THEN mem.obsolete ELSE {}]
            /\ pc' = "cleanManifests" /\ disk' = disk
  BY DEF CleanObsolete
<1>2. pc \in Opened
  BY <1>1 DEF Opened
<1>3. /\ opened /\ mem.phase # "manifest" /\ isDisk(disk) /\ mem \in Mem /\ filesOK
      /\ mem.obsolete \in SUBSET Nat
  BY <1>2, InOpened, MemFields
<1>4. ASSUME NEW i \in removable(pinned), disk' = removeSSTs(disk, {i}), mem' = mem, pc' = pc
      PROVE  silent
  <2>1. ~ pinned /\ i \notin idsOf(mem.files)
    BY <1>4 DEF removable
  <2>2. {i} \cap idsOf(mem.files) = {} /\ idsOf(mem.files) \subseteq DOMAIN disk.ssts
    BY <1>3, <2>1 DEF filesOK, tablesOK
  <2>3. sameTables(disk.ssts, disk'.ssts, mem.files)
    BY <1>3, <1>4, <2>2, CutKeepsTables
  <2>4. \A r \in Readers : \A v \in views[r] : sameTables(disk.ssts, disk'.ssts, v.files)
    BY <2>1 DEF pinned
  <2>5. opened'
    BY <1>2, <1>4 DEF opened
  <2> QED
    BY <1>1, <1>3, <1>4, <2>3, <2>4, <2>5, TablesServe
<1>5. ASSUME mem' = [mem EXCEPT !.obsolete = IF pinned THEN mem.obsolete ELSE {}],
             pc' = "cleanManifests", disk' = disk
      PROVE  silent
  <2> DEFINE ids == IF pinned THEN mem.obsolete ELSE {}
  <2>1. ids \in SUBSET Nat
    BY <1>3
  <2>2. mem' = [mem EXCEPT !.obsolete = ids]
    BY <1>5
  <2> HIDE DEF ids
  <2>3. /\ mem'.lsn = mem.lsn /\ mem'.active = mem.active /\ mem'.files = mem.files
        /\ mem'.phase = mem.phase
    BY <1>3, <2>1, <2>2, ObsoleteType
  <2>4. opened'
    BY <1>3, <1>5, <2>3 DEF opened
  <2>5. disk'.ssts = disk.ssts
    BY <1>5
  <2> QED
    BY <1>1, <1>3, <2>3, <2>4, <2>5, QuietServes
<1> QED
  BY <1>1, <1>4, <1>5

LEMMA PublishCurrentMaps ==
    ASSUME wellOrdered, IInv, IInv', PublishCurrent
    PROVE  silent
<1> DEFINE g == mem.gen + 1
           obsolete == IF mem.plan.compacting THEN mem.obsolete \cup idsOf(mem.files)
                       ELSE mem.obsolete
<1>1. /\ pc = "current" /\ disk' = setCurrent(disk, g) /\ views' = views
      /\ mem' = [mem EXCEPT !.gen = g, !.flushed = mem.lsn, !.active = noRecords,
                            !.files = mem.plan.files, !.nextSST = mem.plan.nextSST,
                            !.obsolete = obsolete]
      /\ pc' \in {"obsolete", "trim"}
  BY DEF PublishCurrent
<1>2. pc \in Opened /\ pc' \in Opened
  BY <1>1 DEF Opened
<1>3. /\ opened /\ opened' /\ isDisk(disk) /\ mem \in Mem /\ filesOK /\ planOK
  BY <1>1, <1>2, InOpened DEF IInv, opened
<1>4. mem.gen \in Nat /\ mem.obsolete \in SUBSET Nat
  BY <1>3, MemFields
<1>5. g \in Nat
  BY <1>4, SMTT(20)
<1>6. obsolete \in SUBSET Nat
  <2>1. isTables(disk.ssts) /\ idsOf(mem.files) \subseteq Nat
    BY <1>3 DEF isDisk, filesOK, tablesOK, isTables
  <2> QED
    BY <1>4, <2>1
<1> HIDE DEF g, obsolete
<1>7. mem'.lsn = mem.lsn /\ mem'.active = noRecords /\ mem'.files = mem.plan.files
  BY <1>1, <1>3, <1>5, <1>6, PublishedType
<1>8. disk'.ssts = disk.ssts
  BY <1>1, <1>3, CurrentOnly
<1>9. readAll(disk'.ssts, mem'.active, mem'.files) = readAll(disk.ssts, mem.active, mem.files)
  BY <1>3, <1>7, <1>8 DEF planOK
<1>10. recovered(disk') = recovered(disk) /\ recoveredLSN(disk') = recoveredLSN(disk)
  BY <1>3, <1>7, <1>9, OpenedServes
<1> QED
  BY <1>1, <1>8, <1>10, ShownKept DEF silent

LEMMA AppendFrameMaps ==
    ASSUME wellOrdered, IInv, AppendFrame
    PROVE  batch \in Batches /\ wrote(batch)
<1> DEFINE segs2 == appendFrame(disk.segs, batch)
           d == withSegs(disk, segs2)
<1>1. pc = "append" /\ disk' = d /\ views' = views
  BY DEF AppendFrame
<1>2. opened /\ pc # "current"
  BY <1>1 DEF opened, Opened
<1>3. isDisk(disk) /\ mem \in Mem /\ batch \in Batches
  BY <1>1 DEF IInv, typed
<1>4. manifestOf(disk).flushed = mem.flushed
  <2>1. manifestOf(disk) = published
    BY <1>2, CurrentManifest
  <2> QED
    BY <1>3, <2>1, ManifestsType
<1>5. framesOK(disk.segs, mem.flushed) /\ oneMore(disk.segs, segs2, mem.flushed, batch)
  BY <1>2, <1>3, OpenedFacts, WalFrames, AppendOne, ZenonT(60)
<1> HIDE DEF segs2
<1>6. /\ recovered(d) = Promise!written(recovered(disk), batch)
      /\ recoveredLSN(d) = recoveredLSN(disk) + 1 /\ d.ssts = disk.ssts
  BY <1>3, <1>4, <1>5, FrameServes
<1> HIDE DEF d
<1>7. shown' = shown
  BY <1>1, <1>6, ShownKept
<1> QED
  BY <1>1, <1>3, <1>6, <1>7 DEF wrote

\* A step of Open before the WAL is read changes nothing of what it will serve.
LEMMA OpeningServes ==
    ASSUME wellOrdered, IInv, IInv', opening, opening', mem' = mem, views' = views, disk'.segs = disk.segs,
           sameTables(disk.ssts, disk'.ssts, mem.files)
    PROVE  silent
<1>1. mem.files \in Files /\ views = noView
  BY MemFields DEF IInv, typed, viewsOK
<1> DEFINE active == replayed(disk.segs, mem.flushed)
<1>2. /\ recovered(disk) = readAll(disk.ssts, active, mem.files)
      /\ recoveredLSN(disk) = walEnd(disk.segs, mem.flushed)
  BY ServingSoon
<1>3. /\ recovered(disk') = readAll(disk'.ssts, active, mem.files)
      /\ recoveredLSN(disk') = walEnd(disk.segs, mem.flushed)
  BY ServesNext DEF serves
<1> HIDE DEF active
<1>4. readAll(disk'.ssts, active, mem.files) = readAll(disk.ssts, active, mem.files)
  BY <1>1, DiskReadSame
<1>5. \A r \in Readers : \A v \in views[r] : sameTables(disk.ssts, disk'.ssts, v.files)
  BY <1>1 DEF noView
<1>6. shown' = shown
  BY <1>5, ShownSame
<1> QED
  BY <1>2, <1>3, <1>4, <1>6 DEF silent

LEMMA CleanSSTMaps ==
    ASSUME wellOrdered, IInv, IInv', CleanSST
    PROVE  silent
<1> DEFINE orphans == DOMAIN disk.ssts \ idsOf(mem.files)
<1>1. /\ pc = "cleanSST" /\ mem' = mem /\ views' = views
      /\ \/ pc' = "cleanManifests" /\ disk' = disk
         \/ /\ \E i \in orphans : disk' = removeSSTs(disk, {i})
            /\ pc' = pc
  BY DEF CleanSST
<1>2. opening /\ mem.phase = "manifest"
  BY <1>1 DEF opening, Opening, IInv, typed
<1>3. opening'
  BY <1>1, <1>2 DEF opening, Opening
<1>4. isDisk(disk) /\ filesOK
  BY <1>2 DEF IInv, typed
<1>5. disk'.segs = disk.segs /\ sameTables(disk.ssts, disk'.ssts, mem.files)
  <2>1. CASE disk' = disk
    BY <2>1 DEF sameTables
  <2>2. ASSUME NEW i \in orphans, disk' = removeSSTs(disk, {i})
        PROVE  disk'.segs = disk.segs /\ sameTables(disk.ssts, disk'.ssts, mem.files)
    <3>1. {i} \cap idsOf(mem.files) = {} /\ idsOf(mem.files) \subseteq DOMAIN disk.ssts
      BY <1>4 DEF filesOK, tablesOK
    <3> QED
      BY <1>4, <2>2, <3>1, CutKeeps, CutKeepsTables
  <2> QED
    BY <1>1, <2>1, <2>2
<1> QED
  BY <1>1, <1>2, <1>3, <1>5, OpeningServes

LEMMA CleanManifestsMaps ==
    ASSUME wellOrdered, IInv, IInv', CleanManifests
    PROVE  silent
<1> DEFINE others == DOMAIN disk.manifests \ {mem.gen}
<1>1. /\ pc = "cleanManifests" /\ views' = views
      /\ \/ mem.phase = "manifest" /\ pc' = "wal" /\ mem' = mem /\ disk' = disk
         \/ /\ mem.phase # "manifest" /\ pc' = "idle" /\ mem' = [mem EXCEPT !.phase = "open"]
            /\ disk' = disk
         \/ /\ \E g \in others : disk' = removeManifest(disk, g)
            /\ pc' = pc /\ mem' = mem
  BY DEF CleanManifests, finish
<1>2. isDisk(disk) /\ mem \in Mem
  BY DEF IInv, typed
<1>3. disk'.segs = disk.segs /\ disk'.ssts = disk.ssts
  <2>1. \A g : /\ removeManifest(disk, g).segs = disk.segs
               /\ removeManifest(disk, g).ssts = disk.ssts
    BY <1>2, CutManifestOnly
  <2> QED
    BY <1>1, <2>1
<1>4. mem' = mem \/ (mem.phase # "manifest" /\ mem' = [mem EXCEPT !.phase = "open"])
  BY <1>1
<1>5. ASSUME mem.phase = "manifest" PROVE silent
  <2>1. mem' = mem /\ pc' \in {"wal", "cleanManifests"}
    BY <1>1, <1>5
  <2>2. opening /\ opening'
    BY <1>1, <1>5, <2>1 DEF opening, Opening
  <2>3. sameTables(disk.ssts, disk'.ssts, mem.files)
    BY <1>3 DEF sameTables
  <2> QED
    BY <1>1, <1>3, <2>1, <2>2, <2>3, OpeningServes
<1>6. ASSUME mem.phase # "manifest" PROVE silent
  <2>1. /\ mem'.lsn = mem.lsn /\ mem'.active = mem.active /\ mem'.files = mem.files
        /\ mem'.phase # "manifest"
    <3>1. CASE mem' = mem
      BY <1>6, <3>1
    <3>2. CASE mem' = [mem EXCEPT !.phase = "open"]
      <4>1. "open" \in {"manifest", "checkpoint", "open"} /\ "open" # "manifest"
        OBVIOUS
      <4>2. /\ mem'.lsn = mem.lsn /\ mem'.active = mem.active /\ mem'.files = mem.files
            /\ mem'.phase = "open"
        BY <1>2, <3>2, <4>1, PhaseType
      <4> QED
        BY <4>1, <4>2
    <3> QED
      BY <1>4, <3>1, <3>2
  <2>2. pc' \in {"idle", "cleanManifests"}
    BY <1>1, <1>6
  <2>3. opened /\ opened'
    BY <1>1, <1>6, <2>1, <2>2 DEF opened, Opened
  <2> QED
    BY <1>1, <1>3, <2>1, <2>3, QuietServes
<1> QED
  BY <1>5, <1>6

LEMMA OpenManifestMaps ==
    ASSUME wellOrdered, IInv, IInv', OpenManifest
    PROVE  silent
<1> DEFINE m == manifestOf(disk)
           n == nextSSTOf(m.files)
           g == generationOf(disk)
<1>1. pc = "closed" /\ disk' = setCurrent(disk, g) /\ pc' = "cleanSST" /\ views' = views
  BY DEF OpenManifest
<1>2. isDisk(disk) /\ opening'
  BY <1>1 DEF IInv, typed, opening, Opening
<1>3. disk'.segs = disk.segs /\ disk'.ssts = disk.ssts
  BY <1>1, <1>2, CurrentOnly
<1>4. recovered(disk) = readAll(disk.ssts, replayed(disk.segs, m.flushed), m.files)
  BY DEF recovered
<1>5. recoveredLSN(disk) = walEnd(disk.segs, m.flushed)
  BY DEF recoveredLSN
<1> HIDE DEF m, n, g
<1>6. mem'.flushed = m.flushed /\ mem'.files = m.files
  <2>1. mem' = [emptyMem EXCEPT !.gen = g, !.flushed = m.flushed, !.files = m.files, !.nextSST = n]
    BY DEF OpenManifest, g, m, n
  <2>2. mem' = [lsn |-> 0, active |-> noRecords, gen |-> g, flushed |-> m.flushed,
                files |-> m.files, nextSST |-> n, obsolete |-> {}, phase |-> "manifest", plan |-> noPlan]
    BY <2>1 DEF emptyMem
  <2> QED
    BY <2>2
<1>7. /\ recovered(disk') = readAll(disk.ssts, replayed(disk.segs, m.flushed), m.files)
      /\ recoveredLSN(disk') = walEnd(disk.segs, m.flushed)
  BY <1>2, <1>3, <1>6, ServesNext DEF serves
<1> QED
  BY <1>1, <1>3, <1>4, <1>5, <1>7, ShownKept DEF silent

LEMMA OpenWALMaps ==
    ASSUME wellOrdered, IInv, OpenWAL
    PROVE  silent
<1> DEFINE segs2 == repaired(disk.segs, mem.flushed)
           d == withSegs(disk, segs2)
<1>1. pc = "wal" /\ walReadable(disk.segs, mem.flushed) /\ disk' = d /\ views' = views
  BY DEF OpenWAL
<1>2. opening /\ pc # "current"
  BY <1>1 DEF opening, Opening
<1>3. isDisk(disk) /\ mem \in Mem /\ openingOK
  BY <1>2 DEF IInv, typed
<1>4. disk.segs \in Seq(Segment) /\ mem.flushed \in Nat
  BY <1>3, MemFields DEF isDisk
<1>5. walOK(disk.segs, mem.flushed)
  <2>1. ~ tornFirst(disk.segs)
    <3> SUFFICES ASSUME disk.segs = <<tornHeader>> PROVE FALSE
      BY DEF tornFirst
    <3>1. disk.segs # <<>> /\ disk.segs[1] = tornHeader
      BY SMTT(20)
    <3>2. tornHeader.tail = "header"
      BY DEF tornHeader
    <3> QED
      BY <1>1, <3>1, <3>2 DEF walReadable
  <2> QED
    BY <1>3, <2>1 DEF openingOK
<1>6. framesOK(disk.segs, mem.flushed) /\ sameWAL(disk.segs, segs2, mem.flushed)
  BY <1>4, <1>5, WalFrames, Repaired DEF walKept
<1>7. manifestOf(disk).flushed = mem.flushed
  <2>1. manifestOf(disk) = published
    BY <1>2, CurrentManifest
  <2> QED
    BY <1>3, <2>1, ManifestsType
<1> HIDE DEF segs2
<1>8. /\ recovered(d) = recovered(disk) /\ recoveredLSN(d) = recoveredLSN(disk)
      /\ d.ssts = disk.ssts
  BY <1>3, <1>6, <1>7, SegsServe
<1> HIDE DEF d
<1> QED
  BY <1>1, <1>8, ShownKept DEF silent

\* A stop or an error leaves what was there, or that and the batch in hand.
LEMMA LeftMaps ==
    ASSUME wellOrdered, IInv, pc # "closed", NEW d \in interrupted, disk' = d,
           views' = noView \/ views' = views
    PROVE  maps
<1>1. d.ssts = disk.ssts
  BY InterruptedServes
<1>2. shown' = shown \/ shown' = [r \in Readers |-> {}]
  BY <1>1, ShownKept, ShownNone
<1>3. CASE recovered(d) = recovered(disk) /\ recoveredLSN(d) = recoveredLSN(disk)
  BY <1>2, <1>3 DEF maps, silent, stopped
<1>4. ASSUME batch \in Batches, recovered(d) = Promise!written(recovered(disk), batch),
             recoveredLSN(d) = recoveredLSN(disk) + 1
      PROVE  maps
  <2>1. wrote(batch)
    BY <1>2, <1>4 DEF wrote
  <2> QED
    BY <1>4, <2>1 DEF maps
<1> QED
  BY <1>3, <1>4, InterruptedServes

LEMMA StopMaps ==
    ASSUME wellOrdered, IInv, Close \/ Crash \/ Fail \/ Refuse
    PROVE  maps
<1>1. pc # "closed"
  BY DEF Close, Crash, Fail, Refuse
<1>2. disk \in interrupted
  BY DEF interrupted
<1>3. \E d \in interrupted : gone(d) \/ failed(d)
  BY <1>2 DEF Close, Crash, Fail, Refuse
<1>4. PICK d \in interrupted : gone(d) \/ failed(d)
  BY <1>3
<1>5. disk' = d /\ (views' = noView \/ views' = views)
  BY <1>4 DEF gone, failed
<1> QED
  BY <1>1, <1>5, LeftMaps

\* A new view reads what is served.
LEMMA OpenViewMaps ==
    ASSUME IInv, NEW r \in Readers, OpenView(r)
    PROVE  /\ recovered(disk') = recovered(disk) /\ recoveredLSN(disk') = recoveredLSN(disk)
           /\ shown[r] = {}
           /\ shown' = [shown EXCEPT ![r] = {[lsn |-> recoveredLSN(disk),
                                              contents |-> recovered(disk)]}]
<1> DEFINE w == [lsn |-> mem.lsn, active |-> mem.active, files |-> mem.files]
           now(v) == [lsn |-> v.lsn, contents |-> readAll(disk.ssts, v.active, v.files)]
           new == [lsn |-> recoveredLSN(disk), contents |-> recovered(disk)]
<1>1. /\ pc = "idle" /\ disk' = disk /\ views[r] = {}
      /\ views' = [views EXCEPT ![r] = {w}]
  BY DEF OpenView
<1>2. opened /\ views \in [Readers -> SUBSET View]
  BY <1>1 DEF opened, Opened, IInv, typed
<1>3. now(w) = new
  BY <1>2, Serving
<1>4. shown = [q \in Readers |-> {now(v) : v \in views[q]}]
  BY DEF shown
<1>5. shown' = [q \in Readers |-> {now(v) : v \in views'[q]}]
  BY <1>1 DEF shown
<1> HIDE DEF w, now, new
<1>6. {now(v) : v \in {w}} = {new}
  BY <1>3
<1>7. \A q \in Readers : views'[q] = IF q = r THEN {w} ELSE views[q]
  BY <1>1, <1>2
<1>8. shown[r] = {}
  BY <1>1, <1>4
<1>9. ASSUME NEW q \in Readers
      PROVE  {now(v) : v \in views'[q]} = IF q = r THEN {new} ELSE shown[q]
  <2>1. CASE q = r
    BY <1>6, <1>7, <2>1
  <2>2. CASE q # r
    <3>1. views'[q] = views[q]
      BY <1>7, <2>2
    <3> QED
      BY <1>4, <2>2, <3>1
  <2> QED
    BY <2>1, <2>2
<1>10. shown' = [q \in Readers |-> IF q = r THEN {new} ELSE shown[q]]
  BY <1>5, <1>9
<1>11. shown' = [shown EXCEPT ![r] = {new}]
  <2>1. DOMAIN shown = Readers
    BY <1>4
  <2> QED
    BY <1>10, <2>1
<1> QED
  BY <1>1, <1>8, <1>11 DEF new

\* A view that is released removes only tables that nobody reads.
LEMMA CloseViewMaps ==
    ASSUME wellOrdered, IInv, NEW r \in Readers, CloseView(r)
    PROVE  /\ recovered(disk') = recovered(disk) /\ recoveredLSN(disk') = recoveredLSN(disk)
           /\ shown' = [shown EXCEPT ![r] = {}]
<1> DEFINE open == \E q \in Readers \ {r} : views[q] # {}
           unpinned == removable(open)
           files == manifestOf(disk).files
           a(q) == {[lsn |-> v.lsn, contents |-> readAll(disk.ssts, v.active, v.files)] : v \in views[q]}
           b(q) == {[lsn |-> v.lsn, contents |-> readAll(disk'.ssts, v.active, v.files)] : v \in views'[q]}
<1>1. /\ pc \in {"idle", "poisoned"} /\ views' = [views EXCEPT ![r] = {}]
      /\ \E removed \in SUBSET unpinned : disk' = removeSSTs(disk, removed)
  BY DEF CloseView
<1>2. isDisk(disk) /\ views \in [Readers -> SUBSET View] /\ viewsOK /\ mem \in Mem
  BY DEF IInv, typed
<1>3. PICK removed \in SUBSET unpinned : disk' = removeSSTs(disk, removed)
  BY <1>1
<1>4. removed \subseteq mem.obsolete /\ (open => removed = {})
  BY <1>3 DEF removable
<1> HIDE DEF unpinned
<1>5. /\ disk'.segs = disk.segs /\ disk'.manifests = disk.manifests /\ disk'.current = disk.current
  BY <1>2, <1>3, CutKeeps
<1>6. manifestOf(disk') = manifestOf(disk)
  BY <1>5, ManifestSame
<1>7. removed \cap idsOf(files) = {} /\ idsOf(files) \subseteq DOMAIN disk.ssts /\ files \in Files
  <2>1. CASE pc = "idle"
    <3>1. opened /\ pc # "current"
      BY <2>1 DEF opened, Opened
    <3>2. filesOK /\ manifestOf(disk) = published
      BY <3>1, CurrentManifest DEF IInv
    <3>3. files = mem.files
      BY <1>2, <3>2, ManifestsType
    <3>4. mem.files \in Files
      BY <1>2, MemFields
    <3> QED
      BY <1>4, <3>2, <3>3, <3>4 DEF filesOK, tablesOK
  <2>2. CASE pc = "poisoned"
    <3>1. diskOK(disk) /\ mem.obsolete \cap idsOf(files) = {}
      BY <2>2 DEF IInv
    <3>2. files \in Files
      BY <1>2, ManifestType
    <3> QED
      BY <1>4, <3>1, <3>2 DEF diskOK, tablesOK
  <2> QED
    BY <1>1, <2>1, <2>2
<1>8. recovered(disk') = recovered(disk)
  <2> DEFINE active == replayed(disk.segs, manifestOf(disk).flushed)
  <2>1. recovered(disk) = readAll(disk.ssts, active, files)
    BY DEF recovered
  <2>2. recovered(disk') = readAll(disk'.ssts, active, files)
    BY <1>5, <1>6 DEF recovered
  <2> HIDE DEF active, files
  <2>3. sameTables(disk.ssts, disk'.ssts, files)
    BY <1>2, <1>3, <1>7, CutKeepsTables
  <2>4. readAll(disk'.ssts, active, files) = readAll(disk.ssts, active, files)
    BY <1>7, <2>3, DiskReadSame
  <2> QED
    BY <2>1, <2>2, <2>4
<1>9. recoveredLSN(disk') = recoveredLSN(disk)
  BY <1>5, <1>6 DEF recoveredLSN
<1>10. ASSUME NEW q \in Readers
       PROVE  b(q) = IF q = r THEN {} ELSE a(q)
  <2>1. CASE q = r
    <3>1. views'[q] = {}
      BY <1>1, <1>2, <2>1
    <3> QED
      BY <2>1, <3>1
  <2>2. CASE q # r
    <3>1. views'[q] = views[q]
      BY <1>1, <1>2, <2>2
    <3>2. ASSUME NEW v \in views[q] PROVE sameTables(disk.ssts, disk'.ssts, v.files)
      <4>1. removed = {} /\ idsOf(v.files) \subseteq DOMAIN disk.ssts
        BY <1>2, <1>4, <2>2, <3>2 DEF viewsOK, open
      <4>2. removed \cap idsOf(v.files) = {}
        BY <4>1
      <4> QED
        BY <1>2, <1>3, <4>1, <4>2, CutKeepsTables
    <3>3. b(q) = a(q)
      BY <3>1, <3>2, ViewSame
    <3> QED
      BY <2>2, <3>3
  <2> QED
    BY <2>1, <2>2
<1>11. shown = [q \in Readers |-> a(q)] /\ shown' = [q \in Readers |-> b(q)]
  BY DEF shown
<1> HIDE DEF a, b
<1>12. shown' = [shown EXCEPT ![r] = {}]
  <2>1. DOMAIN shown = Readers /\ \A q \in Readers : shown[q] = a(q)
    BY <1>11
  <2>2. shown' = [q \in Readers |-> IF q = r THEN {} ELSE shown[q]]
    BY <1>10, <1>11, <2>1
  <2> QED
    BY <2>1, <2>2
<1> QED
  BY <1>8, <1>9, <1>12

LEMMA StepMaps ==
    ASSUME wellOrdered, IInv, IInv', Step
    PROVE  maps
<1>1. CASE \/ RollSegment \/ RotateWAL \/ TrimWAL \/ FinishOutputs \/ PublishManifest
  BY <1>1, QuietSteps DEF maps
<1>2. CASE OpenManifest
  BY <1>2, OpenManifestMaps DEF maps
<1>3. CASE CleanSST
  BY <1>3, CleanSSTMaps DEF maps
<1>4. CASE CleanManifests
  BY <1>4, CleanManifestsMaps DEF maps
<1>5. CASE OpenWAL
  BY <1>5, OpenWALMaps DEF maps
<1>6. CASE AppendFrame
  BY <1>6, AppendFrameMaps DEF maps
<1>7. CASE WriteSST
  BY <1>7, WriteSSTMaps DEF maps
<1>8. CASE PublishCurrent
  BY <1>8, PublishCurrentMaps DEF maps
<1>9. CASE WriteOutput
  BY <1>9, WriteOutputMaps DEF maps
<1>10. CASE CleanObsolete
  BY <1>10, CleanObsoleteMaps DEF maps
<1>11. CASE Refuse
  BY <1>11, StopMaps
<1> QED
  BY <1>1, <1>2, <1>3, <1>4, <1>5, <1>6, <1>7, <1>8, <1>9, <1>10, <1>11 DEF Step

\* Each of these is a step of the abstract map, or none.
LEMMA MapsRefine ==
    ASSUME maps
    PROVE  [Promise!Next]_(Promise!vars)
<1>1. CASE silent
  BY <1>1 DEF silent, shown, Promise!vars
<1>2. CASE stopped
  <2>1. Promise!Stop
    BY <1>2 DEF stopped, shown, Promise!Stop, Promise!noView
  <2> QED
    BY <2>1 DEF Promise!Next
<1>3. ASSUME NEW b \in Batches, wrote(b)
      PROVE  [Promise!Next]_(Promise!vars)
  <2>1. Promise!Write(b)
    BY <1>3 DEF wrote, shown, Promise!Write, Promise!noView
  <2> QED
    BY <2>1 DEF Promise!Next
<1> QED
  BY <1>1, <1>2, <1>3 DEF maps

LEMMA NextMaps ==
    ASSUME wellOrdered, IInv, IInv', [Next]_vars
    PROVE  [Promise!Next]_(Promise!vars)
<1>1. CASE Step
  BY <1>1, StepMaps, MapsRefine
<1>2. CASE \E b \in Batches : Apply(b)
  BY <1>2, QuietSteps, MapsRefine DEF maps
<1>3. CASE Close \/ Crash \/ Fail
  BY <1>3, StopMaps, MapsRefine
<1>4. ASSUME NEW r \in Readers, OpenView(r)
      PROVE  [Promise!Next]_(Promise!vars)
  <2>1. Promise!OpenView(r)
    BY <1>4, OpenViewMaps DEF shown, Promise!OpenView
  <2> QED
    BY <2>1 DEF Promise!Next
<1>5. ASSUME NEW r \in Readers, CloseView(r)
      PROVE  [Promise!Next]_(Promise!vars)
  <2>1. Promise!CloseView(r)
    BY <1>5, CloseViewMaps DEF shown, Promise!CloseView
  <2> QED
    BY <2>1 DEF Promise!Next
<1>6. CASE UNCHANGED vars
  <2>1. disk' = disk /\ views' = views
    BY <1>6 DEF vars
  <2>2. silent
    BY <2>1 DEF silent, shown
  <2> QED
    BY <2>2, MapsRefine DEF maps
<1> QED
  BY <1>1, <1>2, <1>3, <1>4, <1>5, <1>6 DEF Next

\* A new directory holds nothing.
LEMMA InitMaps ==
    ASSUME Init
    PROVE  Promise!Init
<1>1. disk = emptyDisk /\ views = noView /\ isDisk(disk)
  BY DiskEmpty DEF Init
<1>2. disk.segs = <<>> /\ disk.current = 0 /\ DOMAIN disk.manifests = {}
  BY <1>1 DEF emptyDisk
<1>3. manifestOf(disk) = emptyManifest
  <2>1. generationOf(disk) = 0 /\ 0 \notin DOMAIN disk.manifests
    BY <1>2 DEF generationOf
  <2> QED
    BY <2>1 DEF manifestOf
<1>4. manifestOf(disk).flushed = 0 /\ manifestOf(disk).files = noFiles
  <2>1. emptyManifest.flushed = 0 /\ emptyManifest.files = noFiles
    BY DEF emptyManifest
  <2> QED
    BY <1>3, <2>1
<1>5. walEnd(disk.segs, 0) = 0
  BY <1>2 DEF walEnd
<1>6. recoveredLSN(disk) = 0
  BY <1>4, <1>5 DEF recoveredLSN
<1>7. replayed(disk.segs, 0) = noRecords
  <2>1. 0 \in Nat
    BY SMTT(20)
  <2> QED
    BY <1>5, <2>1, ReplayedNone
<1>8. recovered(disk) = [k \in Keys |-> "absent"]
  <2>1. recovered(disk) = readAll(disk.ssts, noRecords, noFiles)
    BY <1>4, <1>7 DEF recovered
  <2>2. DOMAIN noFiles.l0 = {} /\ DOMAIN noFiles.l1 = {}
    BY SMTT(20) DEF noFiles
  <2>3. ASSUME NEW k \in Keys
        PROVE  lookup(disk.ssts, noRecords, noFiles, k) = "absent"
    <3> DEFINE h == holders(disk.ssts, noFiles.l0, k)
               s == spanning(disk.ssts, noFiles.l1, k)
    <3>1. lookup(disk.ssts, noRecords, noFiles, k) = scan(disk.ssts, noRecords, noFiles, k, h, s)
      BY DEF lookup, spanning, scan, least
    <3>2. h = {} /\ s = {} /\ k \notin DOMAIN noRecords
      BY <2>2 DEF holders, spanning, noRecords
    <3> HIDE DEF h, s
    <3> QED
      BY <3>1, <3>2 DEF scan
  <2> QED
    BY <2>1, <2>3 DEF readAll
<1>9. [r \in Readers |-> {[lsn |-> v.lsn, contents |-> readAll(disk.ssts, v.active, v.files)] :
                              v \in views[r]}] = [r \in Readers |-> {}]
  <2> DEFINE a(r) == {[lsn |-> v.lsn, contents |-> readAll(disk.ssts, v.active, v.files)] : v \in views[r]}
  <2>1. \A r \in Readers : a(r) = {}
    BY <1>1 DEF noView
  <2> HIDE DEF a
  <2>2. [r \in Readers |-> a(r)] = [r \in Readers |-> {}]
    BY <2>1
  <2> QED
    BY <2>2 DEF a
<1> QED
  BY <1>6, <1>8, <1>9 DEF Promise!Init, Promise!noView

-----------------------------------------------------------------------------
(***************************************************************************)
(* The theorems.  That the numbers are well-ordered comes from the library *)
(* of the prover, which is instantiated here and not earlier: it makes     *)
(* every obligation after it slower.                                       *)
(***************************************************************************)
INSTANCE WellFoundedInduction

\* The numbers are well-ordered, as the lemmas above assume.
LEMMA NumbersWellOrdered == wellOrdered
<1> SUFFICES ASSUME NEW S \in SUBSET Nat, S # {}
             PROVE  \E m \in S : \A t \in S : m <= t
  BY DEF wellOrdered
<1> DEFINE R == OpToRel(<, Nat)
<1>1. PICK u \in S : \A w \in S : ~ (<<w, u>> \in R)
  <2>1. IsWellFoundedOn(R, Nat)
    BY NatLessThanWellFounded
  <2> HIDE DEF R
  <2> QED
    BY <2>1, WFMin
<1>2. \A w \in S : ~ (w < u)
  BY <1>1 DEF OpToRel
<1> QED
  BY <1>2, SMTT(15)

\* The inductive invariant holds in every state: through flushes,
\* compactions, deaths and I/O errors at any point of Open and Apply.
THEOREM EngineInvariant == Spec => []IInv
<1>1. IInv /\ [Next]_vars => IInv'
  BY NextOK, NumbersWellOrdered
<1> QED
  BY <1>1, InitOK, PTL DEF Spec

\* The files and the fields of the engine have their types; an open WAL has a
\* current segment, and writeSST never meets a table of the name it uses.
THEOREM EngineTypeCorrect == Spec => []TypeOK
<1>1. IInv => TypeOK
  BY Typed
<1> QED
  BY <1>1, EngineInvariant, PTL

\* What Get, Scan and LSN of a healthy engine answer is exactly what would be
\* recovered if the process died now: AppendFrame publishes a batch after its
\* WAL sync only, and no flush, compaction or removal of files loses one.
THEOREM EngineVisibleIsDurable == Spec => []VisibleIsDurable
<1>1. IInv => VisibleIsDurable
  BY Visible
<1> QED
  BY <1>1, EngineInvariant, PTL

\* Wherever a death, an I/O error or a refusal for lack of room cut a change
\* short, the files left behind pass the checks of openManifest and openWAL,
\* and Open succeeds unless the manifest is full.  The one exception is the
\* creation of the very first WAL segment, before anything else was written.
THEOREM EngineReopenable == Spec => []ReopenableUntilFull
<1>1. Init => bornOK
  BY BornInit
<1>2. IInv /\ IInv' /\ bornOK /\ [Next]_vars => bornOK'
  BY BornStep
<1>3. IInv /\ bornOK => ReopenableUntilFull
  BY Reopens
<1> QED
  BY <1>1, <1>2, <1>3, EngineInvariant, PTL DEF Spec

\* What the engine would recover is at every moment one durable map: Apply
\* changes it by whole batches, in order, and a flush, a compaction, a removal
\* of files, a death and a recovery do not change it at all (or by the batch in
\* hand); every view goes on reading the map as it was when it was opened.
THEOREM EngineRefines == Spec => ImplementsDurableMap
<1>1. Init => Promise!Init
  BY InitMaps
<1>2. IInv /\ IInv' /\ [Next]_vars => [Promise!Next]_(Promise!vars)
  BY NextMaps, NumbersWellOrdered
<1> QED
  BY <1>1, <1>2, EngineInvariant, PTL DEF Spec, ImplementsDurableMap, Promise!Spec
=============================================================================
