--------------------------- MODULE MCConnLimiter ---------------------------
(***************************************************************************)
(* ConnLimiter for TLC.                                                    *)
(***************************************************************************)
EXTENDS ConnLimiter, TLC

Symmetry == Permutations(Maps) \cup Permutations(Conns)
=============================================================================
