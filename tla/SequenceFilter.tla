--------------------------- MODULE SequenceFilter ---------------------------
(***************************************************************************)
(* filter, with a set for its condition, as a fold over the sequence.      *)
(***************************************************************************)
EXTENDS SequencesExt

\* What a sequence has of a set, in its order.
Keep(s, S) == FoldLeft(LAMBDA kept, x : IF x \in S THEN Append(kept, x) ELSE kept, <<>>, s)
=============================================================================
