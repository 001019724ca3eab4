------------------------------ MODULE SingleUse -----------------------------
(***************************************************************************)
(* What a sign-in link promises: it is issued once, is redeemed at most    *)
(* once and only while it is live, and a link that is spent or void stays  *)
(* so.                                                                     *)
(***************************************************************************)
CONSTANTS Token, Req

VARIABLES
    state,  \* of each link
    grants  \* <<t, r>>: link t signed request r in

vars == <<state, grants>>

State == {"unissued", "live", "spent", "void"}

Init ==
    /\ state = [t \in Token |-> "unissued"]
    /\ grants = {}

Issue(t) ==
    /\ state[t] = "unissued"
    /\ state' = [state EXCEPT ![t] = "live"]
    /\ UNCHANGED grants

Redeem(t, r) ==
    /\ state[t] = "live"
    /\ state' = [state EXCEPT ![t] = "spent"]
    /\ grants' = grants \cup {<<t, r>>}

\* Links that expire, or whose account turns out to be inactive.
Void(dead) ==
    /\ \A t \in dead : state[t] = "live"
    /\ state' = [t \in Token |-> IF t \in dead THEN "void" ELSE state[t]]
    /\ UNCHANGED grants

Next ==
    \/ \E t \in Token : Issue(t) \/ \E r \in Req : Redeem(t, r)
    \/ \E dead \in SUBSET Token : Void(dead)

Spec == Init /\ [][Next]_vars
=============================================================================
