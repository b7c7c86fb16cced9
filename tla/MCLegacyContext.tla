--------------------------- MODULE MCLegacyContext ---------------------------
(* LegacyContext for TLC. *)
EXTENDS LegacyContext, TLC

(* Nothing tells threads apart, nor addresses; only invariants are checked. *)
Symmetry == Permutations(Threads) \cup Permutations(Ctx)
=============================================================================
