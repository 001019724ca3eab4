---------------------------- MODULE MCDashboard -----------------------------
(* Small instances of Dashboard for TLC. *)
EXTENDS Dashboard, TLC

Symmetry == Permutations(Task) \cup Permutations(App)
=============================================================================
