---------------------------- MODULE MCMagicLink -----------------------------
(* Small instances of MagicLink for TLC. *)
EXTENDS MagicLink, TLC

Symmetry == Permutations(Token) \cup Permutations(Email) \cup Permutations(Req)
=============================================================================
