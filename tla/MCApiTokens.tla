----------------------------- MODULE MCApiTokens -----------------------------
(* Small instances of ApiTokens: two tokens of one user, and another user. *)
EXTENDS ApiTokens, TLC

CONSTANTS u1, u2, t1, t2

MCToken == Req \cup {t1, t2}
Old(expires) == [owner |-> u1, expires |-> expires, revoked |-> FALSE, used |-> FALSE]
MCSeed == [t \in Token |-> IF t = t1 THEN Old(TRUE)
                           ELSE IF t = t2 THEN Old(FALSE) ELSE NoToken]
=============================================================================
