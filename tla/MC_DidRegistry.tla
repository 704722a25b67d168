--------------------------- MODULE MC_DidRegistry ---------------------------
(* The registry instantiated for TLC: two DIDs, one VM fragment each, two *)
(* keys.  Every document shape over these is a request candidate.         *)
EXTENDS DidRegistry, TLC

CONSTANTS A, B, F1, K1, K2

MCIds == {A, B}
MCFrags == {F1}
MCKeys == {K1, K2}

(* Key material is interchangeable: swapping K1 and K2 everywhere maps    *)
(* behaviours to behaviours and preserves every property checked.         *)
KeySymmetry == Permutations(MCKeys)
=============================================================================
