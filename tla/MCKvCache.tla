----------------------------- MODULE MCKvCache -----------------------------
(* A small instance of KvCache for TLC. *)
EXTENDS KvCache, TLC

RangeEnds == {-1, 1}
Symmetry == Permutations(Seqs)
=============================================================================
