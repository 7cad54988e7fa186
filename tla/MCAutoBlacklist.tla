--------------------------- MODULE MCAutoBlacklist ---------------------------
(* AutoBlacklist for TLC: malloc() may return any address.                    *)
EXTENDS AutoBlacklist, TLC

Symmetry == Permutations(Entry)
=============================================================================
