------------------------- MODULE MCQueueGeneration -------------------------
(***************************************************************************)
(* Retrievals over a few kinds of evidence: tracked records, reports that  *)
(* word a task or name a product, and documents.                           *)
(***************************************************************************)
EXTENDS QueueGeneration, TLC

CONSTANTS g1, g2

Record(provider, ids, entities, wording) ==
  [provider |-> provider, ids |-> ids, entities |-> entities, wording |-> wording]

\* In the order of a retrieval: connectors are queried ORDER BY provider.
Kinds == <<Record("github", {"A-1"}, {}, "ship"),
           Record("github", {"A-1", "B-2"}, {}, "own"),
           Record("gmail", {}, {"PayShield"}, "mail"),
           Record("gmail", {}, {}, "ship"),
           Record("linear", {"B-2"}, {"PayShield"}, "ship"),
           Record("slack", {}, {}, "ship"),
           Record("document", {"A-1", "B-2"}, {}, "doc"),
           Record("document", {"B-2"}, {}, "doc")>>

UpTo(n) ==
  UNION {{[i \in 1..k |-> Kinds[pick[i]]] :
            pick \in {p \in [1..k -> DOMAIN Kinds] :
                        \A i, j \in 1..k : i < j => p[i] < p[j]}} : k \in 0..n}

\* One generation clusters anything up to three records; the other races it.
AnyAgainstOne == g1 :> UpTo(3) @@ g2 :> {<<>>, <<Kinds[1]>>}
=============================================================================
