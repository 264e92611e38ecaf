----------------------------- MODULE MCDashboard -----------------------------
(* A small instance of Dashboard for TLC.                                  *)
EXTENDS Dashboard, TLC

Symmetry == Permutations(Improvers) \cup Permutations(Uuids)
=============================================================================
