---------------------------- MODULE MC_RpcResults ----------------------------
(* Model-checking instance of the RPC result plumbing.                     *)
EXTENDS RpcResults
=============================================================================
