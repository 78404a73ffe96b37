--------------------------- MODULE MCShardReplica ---------------------------
(***************************************************************************)
(* Instances of ShardReplica for TLC.                                      *)
(***************************************************************************)
EXTENDS ShardReplica, TLC

CONSTANTS r1, r2, o1, o2, o3, k1, v1, v2, x1, n1

put(o, v, create, match) ==
    [kind |-> "put", cmd |-> [op |-> o, key |-> k1, val |-> x1, ver |-> v,
                              create |-> create, match |-> match]]

\* Three operations on one key: writes with and without a condition and with
\* either version for the first two, a creation or a matching write for the third.
ApplyEntries ==
    {put(o, v, FALSE, {}) : o \in {o1, o2}, v \in {v1, v2}}
    \cup {put(o1, v1, FALSE, {v1}), put(o2, v2, FALSE, {v1}), put(o2, v2, TRUE, {})}
    \cup {put(o3, v1, TRUE, {}), put(o3, v2, FALSE, {v1})}
    \cup {[kind |-> "conf", type |-> "addNode", node |-> n1]}

\* Few entries, so that snapshots, restarts and two replicas fit.
SnapshotEntries ==
    {put(o1, v1, FALSE, {}), [kind |-> "conf", type |-> "addLearner", node |-> n1]}

\* The fewest with which a replica creates one snapshot and receives another.
RaceEntries == {put(o1, v1, FALSE, {}), [kind |-> "empty"]}
=============================================================================
