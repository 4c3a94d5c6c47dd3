------------------------ MODULE MCConnectorLifecycle ------------------------
(***************************************************************************)
(* Interchangeable requests and resources.                                 *)
(***************************************************************************)
EXTENDS ConnectorLifecycle, TLC

Symmetry == Permutations(Requests) \union Permutations(Resources)
=============================================================================
