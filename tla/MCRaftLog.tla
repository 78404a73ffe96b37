----------------------------- MODULE MCRaftLog -----------------------------
(***************************************************************************)
(* A shard with three replicas.                                            *)
(***************************************************************************)
EXTENDS RaftLog, TLC

NodeSymmetry == Permutations(Nodes)
=============================================================================
