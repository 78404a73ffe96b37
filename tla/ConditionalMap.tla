--------------------------- MODULE ConditionalMap ---------------------------
(***************************************************************************)
(* What a range promises its clients, whoever serves it: a map written by  *)
(* conditional commands, each of which takes effect once, atomically, at   *)
(* the next sequence number.                                               *)
(***************************************************************************)
EXTENDS Naturals

CONSTANTS Commands, InitialRows, InitialSequence

VARIABLES
    contents,   \* the rows, at most one for a key
    sequence,   \* number of the last command
    results     \* the result of every operation, once it has one

vars == <<contents, sequence, results>>

holds(cmd, rows) ==
    /\ cmd.createOnly => \A r \in rows : r.key # cmd.key
    /\ \A v \in cmd.ifMatch : \E r \in rows : r.key = cmd.key /\ r.version = v

put(rows, r) == {x \in rows : x.key # r.key} \cup {r}

Init ==
    /\ contents = InitialRows
    /\ sequence = InitialSequence
    /\ results = {}

Write(cmd) ==
    /\ \A x \in results : x.cmd.op # cmd.op
    /\ sequence' = sequence + 1
    /\ IF holds(cmd, contents)
       THEN LET r == [key |-> cmd.key, version |-> cmd.version, sequence |-> sequence']
            IN  /\ contents' = put(contents, r)
                /\ results' = results \cup {[cmd |-> cmd, sequence |-> sequence', row |-> {r}]}
       ELSE /\ UNCHANGED contents
            /\ results' = results \cup {[cmd |-> cmd, sequence |-> sequence', row |-> {}]}

Next == \E cmd \in Commands : Write(cmd)

Spec == Init /\ [][Next]_vars
=============================================================================
