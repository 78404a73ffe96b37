------------------------------ MODULE MCSplit ------------------------------
(***************************************************************************)
(* Two keys, split between them; two commands on the left key, of which    *)
(* one succeeds only on the initial row, and one on the right key.         *)
(***************************************************************************)
EXTENDS Split

CONSTANTS c1, c2, c3

MCSource ==
    [id |-> "source", start |-> 1, end |-> Infinity, generation |-> 1, ownerEpoch |-> 1,
     group |-> 1, voters |-> Nodes, phase |-> "serving"]

MCInitialRows == {[key |-> 1, version |-> 1, sequence |-> 1]}

MCCommand ==
    [c \in Clients |->
        CASE c = c1 -> [op |-> 1, key |-> 1, version |-> 11, createOnly |-> FALSE, ifMatch |-> {}]
          [] c = c2 -> [op |-> 2, key |-> 1, version |-> 12, createOnly |-> FALSE, ifMatch |-> {1}]
          [] c = c3 -> [op |-> 3, key |-> 2, version |-> 13, createOnly |-> TRUE, ifMatch |-> {}]]
=============================================================================
