---------------------------- MODULE ReplicaStore ----------------------------
(***************************************************************************)
(* The data directory of a Raft replica: the engine of module Engine,      *)
(* opened through openDisk of internal/raftstore, which first looks for    *)
(* the files of an obsolete Pebble store.                                  *)
(***************************************************************************)
EXTENDS Engine

\* rejectPebbleDirectory: no CURRENT and no MANIFEST file.  (The names of its
\* other patterns never occur in the directory.)
accepted(d) == d.current = 0 /\ DOMAIN d.manifests = {}

openDisk == accepted(disk) /\ OpenManifest

StoreNext ==
    \/ pc = "closed" /\ openDisk
    \/ pc # "closed" /\ Next

StoreSpec == Init /\ [][StoreNext]_vars

\* A replica that stopped can be opened again: openDisk accepts the directory
\* its own engine left.
ReplicaReopens == pc = "closed" => accepted(disk) /\ opens(disk)
=============================================================================
