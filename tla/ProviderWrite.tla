--------------------------- MODULE ProviderWrite ---------------------------
(***************************************************************************)
(* What the action control plane promises about one external system: for   *)
(* every proposal, approval comes before the attempt, the attempt is made  *)
(* at most once, and the provider holds at most one issue, which only an   *)
(* attempt can have created.  How requests interleave, which of them       *)
(* crash, and what the database remembers are left to ActionExecution,     *)
(* which implements this specification.                                    *)
(***************************************************************************)
CONSTANT Proposals   \* identities of action_proposals rows

VARIABLES
  approved,          \* proposals a human has approved
  attempted,         \* proposals whose single provider attempt was claimed
  issued             \* proposals whose issue exists at the provider

vars == <<approved, attempted, issued>>

Init ==
  /\ approved = {}
  /\ attempted = {}
  /\ issued = {}

Approve(p) ==
  /\ approved' = approved \union {p}
  /\ UNCHANGED <<attempted, issued>>

Attempt(p) ==
  /\ p \in approved
  /\ p \notin attempted
  /\ attempted' = attempted \union {p}
  /\ UNCHANGED <<approved, issued>>

Issue(p) ==
  /\ p \in attempted
  /\ p \notin issued
  /\ issued' = issued \union {p}
  /\ UNCHANGED <<approved, attempted>>

Next == \E p \in Proposals : Approve(p) \/ Attempt(p) \/ Issue(p)

Spec == Init /\ [][Next]_vars
=============================================================================
