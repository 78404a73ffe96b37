-------------------------- MODULE EngineRefinement --------------------------
(***************************************************************************)
(* Engine implements DurableMap: the map is what recovery would find in    *)
(* the files, and a view holds what it reads there.                        *)
(***************************************************************************)
EXTENDS Engine

\* The engine is a durable map that changes by whole batches and serves
\* stable views, through flushes, compactions, file removal, deaths and
\* recoveries.
Promise == INSTANCE DurableMap WITH
    contents <- recovered(disk),
    lsn      <- recoveredLSN(disk),
    views    <- [r \in Readers |->
                    {[lsn |-> v.lsn, contents |-> readAll(disk.ssts, v.active, v.files)] : v \in views[r]}]

ImplementsDurableMap == Promise!Spec
=============================================================================
