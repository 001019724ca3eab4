----------------------------- MODULE MCListing ------------------------------
(* A small instance of Listing: everything that is not deleted, or whatever  *)
(* was logged by hand.                                                       *)
EXTENDS Listing, TLC

MCFilter == {[source |-> Source, deleted |-> FALSE],
             [source |-> {"manual"}, deleted |-> TRUE]}

Symmetry == Permutations(App)
=============================================================================
