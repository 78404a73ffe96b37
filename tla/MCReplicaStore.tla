--------------------------- MODULE MCReplicaStore ---------------------------
(***************************************************************************)
(* A small instance of ReplicaStore.                                       *)
(***************************************************************************)
EXTENDS ReplicaStore

OneKey == {1}

OneBatch == {[k \in OneKey |-> "a"]}
=============================================================================
