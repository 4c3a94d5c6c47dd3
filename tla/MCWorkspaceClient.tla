------------------------- MODULE MCWorkspaceClient --------------------------
(***************************************************************************)
(* One account and the visitor's session, two HydraDB connectors of which  *)
(* one is verified once adopted, two questions and one text.               *)
(***************************************************************************)
EXTENDS WorkspaceClient, TLC
=============================================================================
