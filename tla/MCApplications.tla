--------------------------- MODULE MCApplications ---------------------------
(* Small instances of Applications for TLC. *)
EXTENDS Applications, TLC

\* "acme" is "Acme" in lower case; titles are in lower case already.
MCLower == [x \in Company \cup Role |-> IF x = "Acme" THEN "acme" ELSE x]

Symmetry == Permutations(Req)
=============================================================================
