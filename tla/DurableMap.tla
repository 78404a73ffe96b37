----------------------------- MODULE DurableMap -----------------------------
(***************************************************************************)
(* What the owned engine promises its callers: an ordered map that changes *)
(* by whole batches only, survives every process death, and gives stable   *)
(* views.                                                                  *)
(***************************************************************************)
EXTENDS Naturals

CONSTANTS Keys, Values, Batches, Readers

VARIABLES
    contents,   \* [Keys -> Values \cup {"absent"}]: the durable map
    lsn,        \* number of batches written
    views       \* [Readers -> the set of the reader's open view, if any]

vars == <<contents, lsn, views>>

noView == [r \in Readers |-> {}]

\* A batch maps keys to values or to "delete".
written(c, b) ==
    [k \in Keys |-> IF k \notin DOMAIN b THEN c[k]
                    ELSE IF b[k] = "delete" THEN "absent" ELSE b[k]]

Init ==
    /\ contents = [k \in Keys |-> "absent"]
    /\ lsn = 0
    /\ views = noView

\* A batch that became durable, acknowledged or not; the process may have
\* died of it.
Write(b) ==
    /\ lsn' = lsn + 1
    /\ contents' = written(contents, b)
    /\ views' \in {views, noView}

OpenView(r) ==
    /\ views[r] = {}
    /\ views' = [views EXCEPT ![r] = {[lsn |-> lsn, contents |-> contents]}]
    /\ UNCHANGED <<contents, lsn>>

CloseView(r) ==
    /\ views' = [views EXCEPT ![r] = {}]
    /\ UNCHANGED <<contents, lsn>>

Stop ==
    /\ views' = noView
    /\ UNCHANGED <<contents, lsn>>

Next ==
    \/ \E b \in Batches : Write(b)
    \/ \E r \in Readers : OpenView(r) \/ CloseView(r)
    \/ Stop

Spec == Init /\ [][Next]_vars
=============================================================================
