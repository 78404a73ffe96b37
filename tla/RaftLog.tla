------------------------------ MODULE RaftLog ------------------------------
(***************************************************************************)
(* The log that diskStore keeps for raft, and what raft concludes from it. *)
(* A replica's log is a sequence of terms: in raft an index and a term name *)
(* an entry.  go.etcd.io/raft is external and modelled by what it asks of  *)
(* its Storage once a Ready is persisted: whom it votes for, which entries *)
(* it accepts from a leader, what it counts as committed.  There are no    *)
(* snapshots here (ShardReplica has them), so indexes begin at 1.          *)
(***************************************************************************)
EXTENDS Naturals, Sequences, FiniteSets

CONSTANTS
    Nodes,
    MaxTerm, MaxIndex       \* bounds on elections and on entries

VARIABLES
    entries,    \* diskStore.entries, in memory and in the engine alike
    term,       \* diskStore.hardState's term
    leader,     \* the replica is leader of its term
    match,      \* match[n][m]: what m acknowledged to the leader n
    committed   \* ghost: the entries answered for, and the term it happened in

vars == <<entries, term, leader, match, committed>>

LastIndex(n) == Len(entries[n])

Term(n, index) == IF index = 0 THEN 0 ELSE entries[n][index]

\* Entries(lo, hi) without a size limit.
Entries(n, lo, hi) == SubSeq(entries[n], lo, hi - 1)

\* A Ready's entries are stored under their indexes.
persistReady(n, first, ready) ==
    LET last == first + Len(ready) - 1
    IN  [i \in 1 .. (IF last > LastIndex(n) THEN last ELSE LastIndex(n)) |->
            IF i \in first .. last THEN ready[i - first + 1] ELSE entries[n][i]]

\* StartNode's entries, of term 1, are on every replica.
Init ==
    /\ entries = [n \in Nodes |-> <<1>>]
    /\ term = [n \in Nodes |-> 1]
    /\ leader = [n \in Nodes |-> FALSE]
    /\ match = [n \in Nodes |-> [m \in Nodes |-> 0]]
    /\ committed = {[index |-> 1, term |-> 1, in |-> 1]}

majority(s) == 2 * Cardinality(s) > Cardinality(Nodes)

\* raft's comparison of the last entries.
isUpToDate(n, m) ==
    \/ Term(n, LastIndex(n)) > Term(m, LastIndex(m))
    \/ Term(n, LastIndex(n)) = Term(m, LastIndex(m)) /\ LastIndex(n) >= LastIndex(m)

\* A candidate gets the votes of a majority, and appends an empty entry.
Campaign(n) ==
    /\ term[n] < MaxTerm /\ LastIndex(n) < MaxIndex
    /\ \E voters \in SUBSET Nodes :
          /\ n \in voters /\ majority(voters)
          /\ \A m \in voters : term[m] <= term[n] /\ isUpToDate(n, m)
          /\ term' = [m \in Nodes |-> IF m \in voters THEN term[n] + 1 ELSE term[m]]
          /\ leader' = [m \in Nodes |-> IF m \in voters THEN m = n ELSE leader[m]]
    /\ entries' = [entries EXCEPT ![n] = persistReady(n, LastIndex(n) + 1, <<term[n] + 1>>)]
    /\ match' = [match EXCEPT ![n] = [m \in Nodes |-> IF m = n THEN LastIndex(n) + 1 ELSE 0]]
    /\ UNCHANGED committed

Propose(n) ==
    /\ leader[n] /\ LastIndex(n) < MaxIndex
    /\ entries' = [entries EXCEPT ![n] = persistReady(n, LastIndex(n) + 1, <<term[n]>>)]
    /\ match' = [match EXCEPT ![n][n] = LastIndex(n) + 1]
    /\ UNCHANGED <<term, leader, committed>>

\* The leader n sends its entries between prev and hi; m stores those from the
\* first one on that it does not have.
AppendTo(n, m, prev, hi) ==
    LET conflicts == {i \in prev + 1 .. hi : i > LastIndex(m) \/ Term(m, i) # Term(n, i)}
        conflict == CHOOSE i \in conflicts : \A j \in conflicts : i <= j
    IN  /\ leader[n] /\ m # n /\ term[m] <= term[n]
        /\ prev <= LastIndex(m) /\ Term(m, prev) = Term(n, prev)
        /\ entries' = IF conflicts = {} THEN entries
                      ELSE [entries EXCEPT ![m] =
                               persistReady(m, conflict, Entries(n, conflict, hi + 1))]
        /\ term' = [term EXCEPT ![m] = term[n]]
        /\ leader' = [leader EXCEPT ![m] = FALSE]
        /\ match' = [match EXCEPT ![n][m] = IF hi > @ THEN hi ELSE @]
        /\ UNCHANGED committed

\* An entry of the leader's term is on a majority: the proposer is answered.
Commit(n) ==
    /\ leader[n]
    /\ \E i, j \in 1 .. LastIndex(n) :
          /\ Term(n, j) = term[n] /\ i <= j
          /\ majority({m \in Nodes : match[n][m] >= j})
          /\ committed' = committed \cup {[index |-> i, term |-> Term(n, i), in |-> term[n]]}
    /\ UNCHANGED <<entries, term, leader, match>>

\* A replica stops and opens its store again.
Restart(n) ==
    /\ leader[n]
    /\ leader' = [leader EXCEPT ![n] = FALSE]
    /\ UNCHANGED <<entries, term, match, committed>>

Next ==
    \E n \in Nodes :
        \/ Campaign(n) \/ Propose(n) \/ Commit(n) \/ Restart(n)
        \/ \E m \in Nodes, prev \in 0 .. LastIndex(n) : \E hi \in prev .. LastIndex(n) :
              AppendTo(n, m, prev, hi)

Spec == Init /\ [][Next]_vars

(***************************************************************************)
(* Properties.                                                             *)
(***************************************************************************)
\* A write that was answered is on a persisted quorum and outlives the change
\* of one leader: whoever leads a later term has it in its log.
AnsweredWritesSurvive ==
    \A n \in Nodes, e \in committed :
        leader[n] /\ e.in < term[n] =>
            e.index <= LastIndex(n) /\ Term(n, e.index) = e.term
=============================================================================
