-------------------------- MODULE MCRequestContext --------------------------
(***************************************************************************)
(* RequestContext for TLC.                                                 *)
(***************************************************************************)
EXTENDS RequestContext, TLC

Symmetry == Permutations(Calls) \cup Permutations(Requests)
=============================================================================
