-------------------------- MODULE MCCatalogReplica --------------------------
(***************************************************************************)
(* One range over the whole keyspace and its two halves.  Descriptors of   *)
(* the whole range keep, break and advance its owner epoch; the left half  *)
(* is there before and after it serves.                                    *)
(***************************************************************************)
EXTENDS CatalogReplica, TLC

MCNodes == 1 .. 3
MCPeers == {1, 2, 3}

range(id, start, end, fence, group, voters, phase) ==
    [id |-> id, start |-> start, end |-> end, generation |-> fence, ownerEpoch |-> fence,
     group |-> group, voters |-> voters, phase |-> phase]

MCDescriptors ==
    {range("whole", 1, 3, 1, 1, {1, 2, 3}, "serving"),
     range("whole", 1, 3, 1, 2, {1, 2, 3}, "serving"),
     range("whole", 1, 3, 2, 2, {1, 2, 3}, "serving"),
     range("left", 1, 2, 2, 2, {1, 2, 3}, "catching_up"),
     range("left", 1, 2, 2, 2, {1, 2, 3}, "serving"),
     range("right", 2, 3, 2, 3, {1, 2, 3}, "serving")}

Symmetry == Permutations(Callers)
=============================================================================
