------------------------ MODULE MCDocumentIngestion ------------------------
(***************************************************************************)
(* Two contents, one of them not a type the route accepts.                 *)
(***************************************************************************)
EXTENDS DocumentIngestion, TLC

CONSTANTS report, binary

Readable == {report}
RequestSymmetry == Permutations(Uploads) \union Permutations(Polls)
=============================================================================
