----------------------------- MODULE MCGateway -----------------------------
(***************************************************************************)
(* Two connections that share one request slot and two connection slots,   *)
(* one row that both write, and a restart.                                 *)
(***************************************************************************)
EXTENDS Gateway
=============================================================================
