---------------------------- MODULE MCAssistant ----------------------------
(* Two clients are enough for every pair of overlapping API calls.           *)
EXTENDS Assistant, TLC

CONSTANTS c1, c2

MCClient == {c1, c2}
MCOneClient == {c1}
MCSymmetry == Permutations(MCClient)
=============================================================================
