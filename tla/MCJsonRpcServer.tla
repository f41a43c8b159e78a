-------------------------- MODULE MCJsonRpcServer ---------------------------
(* Small instances of JsonRpcServer for TLC.                               *)
EXTENDS JsonRpcServer

\* calls differ in nothing but their id
AnyOrder == Permutations(Calls)
============================================================================
