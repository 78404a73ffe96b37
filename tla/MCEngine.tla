------------------------------ MODULE MCEngine ------------------------------
(***************************************************************************)
(* A small instance of Engine.                                             *)
(***************************************************************************)
EXTENDS EngineRefinement

ThreeKeys == 1 .. 3

put(k, v) == [j \in {k} |-> v]

\* A batch of two keys, which fills the memtable, a put and a delete.
FewBatches == {[k \in {1, 2} |-> "b"], put(3, "a"), put(1, "delete")}
=============================================================================
