---------------------------- MODULE MCReadFence -----------------------------
(***************************************************************************)
(* Small instances of ReadFence.                                           *)
(***************************************************************************)
EXTENDS ReadFence

CONSTANTS c1, c2

\* The second read fills the bytes there are.
OneAndTwo == [c \in Calls |-> IF c = c1 THEN 1 ELSE 2]
=============================================================================
