---------------------------- MODULE MCOAuthCodes ----------------------------
(***************************************************************************)
(* Clients that registered one of the redirect URIs, and a clock on which  *)
(* a code lives for one tick.                                              *)
(***************************************************************************)
EXTENDS OAuthCodes, TLC

CONSTANTS u1

RegisteredUris == [c \in Clients |-> {u1}]
Symmetry == Permutations(Redemptions) \union Permutations(Consents)
              \union Permutations(Secrets)
=============================================================================
