----------------------------- MODULE MCAccounts -----------------------------
(***************************************************************************)
(* An anonymous browser, one signed in with Supabase and one known to the  *)
(* gateway; two requests at a time.                                        *)
(***************************************************************************)
EXTENDS Accounts

CONSTANTS b1, b2, b3, s1, u1, w1, w2, r1, r2, n1, n2, n3, pasted, shared

ThreeLogins == (b1 :> NoOne) @@ (b2 :> s1) @@ (b3 :> u1)
Hybrid == [mode |-> "unset", supabase |-> TRUE, production |-> FALSE, mcp |-> "hybrid"]
OneMode == {Hybrid}
Symmetry == Permutations(Requests) \cup Permutations(NewIds)
=============================================================================
