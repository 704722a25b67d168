---------------------------- MODULE MC_LegacyDid ----------------------------
(* The legacy keeper for TLC: a 3-bit counter, 1-bit key bytes (so that   *)
(* the eight key bytes of the ids 0..7 differ in more than one place), one *)
(* creator and alias, and one verkey, or two where an overwrite must be   *)
(* told from a rewrite of the same record.                                *)
EXTENDS LegacyDid

CONSTANTS C1, V1, V2, L1

MCCreators == {C1}
MCVerkeys == {V1}
MCVerkeys2 == {V1, V2}
MCAliases == {L1}
=============================================================================
