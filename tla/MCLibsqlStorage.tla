-------------------------- MODULE MCLibsqlStorage --------------------------
(***************************************************************************)
(* Two calls over two keys: batches that insert both keys, one that        *)
(* inserts after an upsert, and a single upsert; production on hosted      *)
(* storage, a self-hosted deployment on node:sqlite, an instance-local     *)
(* one, and two without usable storage.                                    *)
(***************************************************************************)
EXTENDS LibsqlStorage

CONSTANTS c1, c2

Greater(value, stored) == value > stored

SomeBatches ==
  {<<Insert("a", 1), Insert("b", 1)>>, <<Upsert("b", 2), Insert("a", 2)>>,
   <<Upsert("b", 3)>>}

Hosted == [production |-> TRUE, url |-> TRUE, token |-> TRUE, path |-> TRUE,
           ephemeral |-> TRUE, builtin |-> TRUE]
HalfConfigured == [Hosted EXCEPT !.token = FALSE]
SelfHosted == [Hosted EXCEPT !.production = FALSE, !.url = FALSE]
InstanceLocal == [SelfHosted EXCEPT !.path = FALSE]
Unset == [InstanceLocal EXCEPT !.ephemeral = FALSE]
Deployments == {Hosted, HalfConfigured, SelfHosted, InstanceLocal, Unset}
=============================================================================
