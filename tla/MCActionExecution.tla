------------------------- MODULE MCActionExecution -------------------------
(***************************************************************************)
(* A small deployment: one workspace that holds the provider credential    *)
(* and one that does not, three people, and payloads two of which share an *)
(* idempotency key because they differ only in their project.              *)
(***************************************************************************)
EXTENDS ActionExecution, TLC

CONSTANTS home, other,            \* workspaces
          operator, member, guest,\* people
          plain, moved, oversized,\* payloads
          k1, k2                  \* keys

People == {operator, member, guest}
HomeOf == operator :> home @@ member :> home @@ guest :> other
OwnerRoles == {operator, guest}

\* moved is plain with another projectId, which the key leaves out; oversized
\* passes the review route's own bounds and not those of the approve route.
DigestOf == [p \in Payloads |-> IF p = oversized THEN k2 ELSE k1]

OneHome == {home}
GroundedPairs == {<<home, plain>>, <<home, moved>>, <<home, oversized>>, <<other, plain>>}
WithinContract == {plain, moved}
=============================================================================
