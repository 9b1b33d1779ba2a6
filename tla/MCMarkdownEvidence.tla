------------------------ MODULE MCMarkdownEvidence ------------------------
(* A file of up to three blocks, with and without a repeated one. *)
EXTENDS MarkdownEvidence, TLC

CONSTANTS a, b, key

MCFiles == {<<key, a, b>>, <<a, b, a>>}
MCRepeated == {<<a, a, b>>}

Weight(stability, retained) ==
  [stability |-> stability, retention |-> "low", retained |-> retained, disputed |-> FALSE]

MCWeights == {Weight("mid", FALSE), Weight("mid", TRUE), Weight("high", FALSE)}
=============================================================================
