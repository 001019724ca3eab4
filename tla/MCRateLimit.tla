---------------------------- MODULE MCRateLimit -----------------------------
(* A small instance of RateLimit: two keys by address, one by e-mail. *)
EXTENDS RateLimit, TLC

CONSTANTS ip1, ip2, mail

MCWindow == ip1 :> 3 @@ ip2 :> 3 @@ mail :> 6
MCLimit == [k \in Key |-> 1]

Symmetry == Permutations({ip1, ip2})
=============================================================================
