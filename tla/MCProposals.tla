---------------------------- MODULE MCProposals -----------------------------
(***************************************************************************)
(* Small instances of Proposals.                                           *)
(***************************************************************************)
EXTENDS Proposals, TLC

command(op, body, size) == [op |-> op, body |-> body, bytes |-> size]

OneCommand == {command("o1", "x", 1)}

\* ... with another command that reuses its identity, which nothing fits beside,
\* and two more operations.
ThreeOperations ==
    OneCommand \cup {command("o1", "y", 3), command("o2", "x", 1), command("o3", "x", 1)}

CallSymmetry == Permutations(Calls)
=============================================================================
