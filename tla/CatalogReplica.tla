--------------------------- MODULE CatalogReplica ---------------------------
(***************************************************************************)
(* The catalog of one replica: InstallRangeCatalog, persistCatalog and the *)
(* part of Open that loads the image, with callers that install catalogs   *)
(* concurrently.  readyLoop changes the configuration under way, and the   *)
(* process may die between any two steps.                                  *)
(*                                                                         *)
(* InstallRangeCatalog is four actions: the image is encoded and decoded   *)
(* before catalogMu is taken; under the lock it is validated against the   *)
(* installed one and the configuration, then synced, then published.       *)
(***************************************************************************)
EXTENDS RangeCatalog

CONSTANTS
    Callers,
    Peers,          \* the voters the replica was bootstrapped with
    Descriptors,    \* the descriptors callers make catalogs of
    MaxVersion,     \* bound on catalog versions
    MaxChanges,     \* bound on configuration changes
    MaxCrashes      \* bound on process deaths

ASSUME CatalogReplicaAssumption ==
    /\ Peers \subseteq Nodes /\ Descriptors \subseteq RangeDescriptor
    /\ {MaxVersion, MaxChanges, MaxCrashes} \subseteq Nat

VARIABLES
    pc,         \* where each caller is in InstallRangeCatalog
    image,      \* [Callers -> Catalog]: the decoded image of its call
    catalogMu,  \* callers holding the lock: at most one
    mem,        \* Replica.rangeCatalog: a set of at most one catalog
    disk,       \* the image under m4/catalog/complete: at most one
    conf,       \* voters of the durable ConfState
    status,     \* of the replica: "up", "fatal" or "down"
    changes, crashes,
    seen        \* auxiliary: every descriptor the replica ever routed by

vars == <<pc, image, catalogMu, mem, disk, conf, status, changes, crashes, seen>>

locals == <<pc, image, catalogMu>>

TypeOK ==
    /\ image \in [Callers -> Catalog]
    /\ pc \in [Callers -> {"idle", "encoded", "checked", "synced"}]
    /\ catalogMu \subseteq Callers
    /\ mem \subseteq Catalog /\ Cardinality(mem) <= 1
    /\ disk \subseteq Catalog /\ Cardinality(disk) <= 1
    /\ conf \subseteq Nodes
    /\ status \in {"up", "fatal", "down"}
    /\ seen \subseteq RangeDescriptor

Init ==
    /\ image = [p \in Callers |-> noCatalog]
    /\ pc = [p \in Callers |-> "idle"]
    /\ catalogMu = {} /\ mem = {} /\ disk = {} /\ seen = {}
    /\ conf = Peers
    /\ status = "up"
    /\ changes = 0 /\ crashes = 0

(***************************************************************************)
(* The catalogs callers come with: made by NewRangeCatalog, or a copy of   *)
(* the installed one from RangeCatalog(), each perhaps changed by a call   *)
(* of Replace, accepted or refused.                                        *)
(***************************************************************************)
\* Any other list of descriptors is refused at once and changes nothing.
lists == {ds \in SUBSET Descriptors : wellFormed(ds)}

Version == 1 .. MaxVersion

created == {NewRangeCatalog(v, ds) : v \in Version, ds \in lists}

replacedOnce(catalogs) ==
    UNION {Replace(c, v, ds) : c \in catalogs, v \in Version, ds \in lists}

createdAndReplaced == created \cup replacedOnce(created)

Offers == createdAndReplaced \cup replacedOnce(mem)

(***************************************************************************)
(* InstallRangeCatalog.                                                    *)
(***************************************************************************)
Encode(p) ==
    /\ pc[p] = "idle" /\ status = "up"
    /\ \E c \in Offers : decodes(c) /\ image' = [image EXCEPT ![p] = c]
    /\ pc' = [pc EXCEPT ![p] = "encoded"]
    /\ UNCHANGED <<catalogMu, mem, disk, conf, status, changes, crashes, seen>>

\* The image to install over the installed catalog, if it may be.
candidate(previous, next) ==
    IF previous = {} THEN {next}
    ELSE {inherits(c, next) : c \in {c \in previous : mayFollow(c, next)}}

admissible(p) ==
    {c \in candidate(mem, image[p]) : marshals(c) /\ ValidateAgainstVoters(c, conf)}

Check(p) ==
    /\ pc[p] = "encoded" /\ catalogMu = {}
    /\ \E c \in admissible(p) : image' = [image EXCEPT ![p] = c]
    /\ pc' = [pc EXCEPT ![p] = "checked"]
    /\ catalogMu' = {p}
    /\ UNCHANGED <<mem, disk, conf, status, changes, crashes, seen>>

Refuse(p) ==
    /\ pc[p] = "encoded" /\ catalogMu = {}
    /\ admissible(p) = {}
    /\ pc' = [pc EXCEPT ![p] = "idle"]
    /\ image' = [image EXCEPT ![p] = noCatalog]
    /\ UNCHANGED <<catalogMu, mem, disk, conf, status, changes, crashes, seen>>

\* Mutant: the batch is applied without a sync.
SyncLater(p) ==
    /\ pc[p] = "checked" /\ status = "up"
    /\ decodes(image[p])
    /\ disk' \in {disk, {image[p]}}
    /\ pc' = [pc EXCEPT ![p] = "synced"]
    /\ UNCHANGED <<image, catalogMu, mem, conf, status, changes, crashes, seen>>

\* Mutant: the record of the last catalog stays beside the new one.
SyncBoth(p) ==
    /\ pc[p] = "checked" /\ status = "up"
    /\ decodes(image[p])
    /\ disk' = disk \cup {image[p]}
    /\ pc' = [pc EXCEPT ![p] = "synced"]
    /\ UNCHANGED <<image, catalogMu, mem, conf, status, changes, crashes, seen>>

\* persistCatalog, and the fatal end of it: d.failed is set, or a batch
\* failed and may be in the log all the same.
Sync(p) ==
    /\ pc[p] = "checked" /\ status = "up"
    /\ decodes(image[p])
    /\ disk' = {image[p]}
    /\ pc' = [pc EXCEPT ![p] = "synced"]
    /\ UNCHANGED <<image, catalogMu, mem, conf, status, changes, crashes, seen>>

SyncFails(p) ==
    /\ pc[p] = "checked"
    /\ status' = "fatal"
    /\ disk' \in IF status = "up" /\ decodes(image[p]) THEN {disk, {image[p]}} ELSE {disk}
    /\ pc' = [pc EXCEPT ![p] = "idle"]
    /\ image' = [image EXCEPT ![p] = noCatalog]
    /\ catalogMu' = {}
    /\ UNCHANGED <<mem, conf, changes, crashes, seen>>

Publish(p) ==
    /\ pc[p] = "synced"
    /\ mem' = {image[p]}
    /\ seen' = seen \cup image[p].descriptors
    /\ pc' = [pc EXCEPT ![p] = "idle"]
    /\ image' = [image EXCEPT ![p] = noCatalog]
    /\ catalogMu' = {}
    /\ UNCHANGED <<disk, conf, status, changes, crashes>>

(***************************************************************************)
(* The replica around it.                                                  *)
(***************************************************************************)
\* readyLoop applies a ConfChangeV2 that adds or removes one voter.
ConfChange ==
    /\ status = "up" /\ changes < MaxChanges
    /\ changes' = changes + 1
    /\ \E n \in Nodes : conf' = IF n \in conf THEN conf \ {n} ELSE conf \cup {n}
    /\ conf' # {}
    /\ UNCHANGED <<locals, mem, disk, status, crashes, seen>>

Crash ==
    /\ status # "down" /\ crashes < MaxCrashes
    /\ crashes' = crashes + 1
    /\ status' = "down"
    /\ mem' = {} /\ catalogMu' = {}
    /\ image' = [p \in Callers |-> noCatalog]
    /\ pc' = [p \in Callers |-> "idle"]
    /\ UNCHANGED <<disk, conf, changes, seen>>

\* Open, where it succeeds; otherwise the replica stays down.
Open ==
    /\ status = "down"
    /\ \A c \in disk : decodes(c) /\ ValidateAgainstVoters(c, conf)
    /\ status' = "up"
    /\ mem' = disk
    /\ seen' = seen \cup UNION {c.descriptors : c \in disk}
    /\ UNCHANGED <<locals, disk, conf, changes, crashes>>

Next ==
    \/ \E p \in Callers : \/ Encode(p) \/ Check(p) \/ Refuse(p)
                          \/ Sync(p) \/ SyncFails(p) \/ Publish(p)
    \/ ConfChange \/ Crash \/ Open

Spec == Init /\ [][Next]_vars

(***************************************************************************)
(* Properties.                                                             *)
(***************************************************************************)
\* No fence the replica ever routed by is forgotten, whatever crash follows:
\* the durable image knows the range with a generation and an owner epoch
\* at least as high (persistCatalog before rangeCatalog is assigned).
SeenIsDurable ==
    \A d \in seen : \E c \in disk : \E h \in c.history :
        h.id = d.id /\ h.generation >= d.generation /\ h.ownerEpoch >= d.ownerEpoch

\* A range and an owner epoch identify the owner: two descriptors the replica
\* routed by at any two times, with restarts between them, that agree on both
\* have the same span, group and voters (replaceLocked and VerifyGeneration;
\* "OwnerEpoch fences ownership/configuration changes", range.go:85).
EpochIdentifiesOwner ==
    \A d, e \in seen :
        d.id = e.id /\ d.ownerEpoch = e.ownerEpoch
            => d.start = e.start /\ d.end = e.end /\ d.group = e.group /\ d.voters = e.voters

\* A range that is retired or gone from the durable catalog never becomes
\* current again in a later one ("Removed range IDs remain retired
\* tombstones, so a higher catalog version cannot resurrect an old owner").
TombstonesStay ==
    [][\A c \in disk : \E e \in disk' :
          /\ e.version >= c.version
          /\ \A h \in c.history : \E g \in e.history :
                /\ g.id = h.id
                /\ h.phase = "retired" => g.phase = "retired"
                /\ h \notin c.descriptors => g \notin e.descriptors]_disk

\* An image that InstallRangeCatalog has admitted decodes: persistCatalog, of
\* which every error is fatal to the replica, refuses it for no reason but a
\* failure of the engine.
AdmittedDecodes ==
    \A p \in Callers : pc[p] \in {"checked", "synced"} => decodes(image[p])
=============================================================================
