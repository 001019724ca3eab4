------------------------------ MODULE ApiTokens ------------------------------
(***************************************************************************)
(* Personal API tokens: the api_tokens table, the requests that a bearer   *)
(* token or a session authenticates (api/deps.py get_current_owner), and   *)
(* those among them that mint and revoke tokens (api/auth.py).             *)
(*                                                                         *)
(* resolve_token stamps last_used_at in the request's own transaction, so  *)
(* that the token's row stays locked until the request ends, and requests  *)
(* of one token wait for each other.  A request that revokes a token then  *)
(* wants a second row lock, and PostgreSQL aborts one of two requests that *)
(* wait for each other's.  REQUIRE_AUTH is on.                             *)
(***************************************************************************)
EXTENDS Naturals, FiniteSets

CONSTANTS
    Req,        \* requests; each is served once
    User,
    Token,      \* tokens: requests, which may each mint one, and older ones
    NoToken,    \* no row; no bearer credential
    SeedTokens  \* api_tokens at the start

\* A row of api_tokens; `expires' tells whether expires_at is set.
Row == [owner: User, expires: BOOLEAN, revoked: BOOLEAN, used: BOOLEAN]

ASSUME TokenAssumption == Req \subseteq Token /\ NoToken \notin Row \cup Token
ASSUME SeedAssumption ==
    /\ SeedTokens \in [Token -> Row \cup {NoToken}]
    /\ \A r \in Req : SeedTokens[r] = NoToken

\* "serve" is any endpoint that leaves api_tokens alone.
Operation == {"serve", "mint", "revoke"}

Phase == {"idle", "stamping", "serving", "revoking", "flushed", "done"}

Outcome == {"none", "ok", "unauthorized", "notfound", "failed"}

\* A request: its bearer token and the row it read of it, for whom it acts, the
\* token it revokes, the changes it has flushed, and the locks that go with them.
Tx == [pc: Phase, op: Operation, bearer: Token \cup {NoToken},
       row: Row \cup {NoToken}, owner: User \cup {NoToken}, target: Token,
       stamps: BOOLEAN, revokes: BOOLEAN, mints: Row \cup {NoToken}, out: Outcome]

VARIABLES
    tokens,  \* committed api_tokens
    expired, \* tokens whose expires_at, if they have one, has passed
    active,  \* users whose is_active is committed
    tx

vars == <<tokens, expired, active, tx>>

IdleTx(r) ==
    [pc |-> "idle", op |-> "serve", bearer |-> NoToken, row |-> NoToken,
     owner |-> NoToken, target |-> r, stamps |-> FALSE, revokes |-> FALSE,
     mints |-> NoToken, out |-> "none"]

Init ==
    /\ tokens = SeedTokens
    /\ expired = {}
    /\ active = User
    /\ tx = [r \in Req |-> IdleTx(r)]

-----------------------------------------------------------------------------

\* resolve_token's checks.
Valid(t) ==
    /\ tokens[t] # NoToken
    /\ ~tokens[t].revoked
    /\ ~(tokens[t].expires /\ t \in expired)
    /\ tokens[t].owner \in active

\* The rows r's UPDATEs have locked.
Locks(r) ==
    {t \in Token : \/ tx[r].stamps /\ t = tx[r].bearer
                   \/ tx[r].revokes /\ t = tx[r].target}

\* The row r's next UPDATE wants.
Wants(r) ==
    {t \in Token : \/ tx[r].pc = "stamping" /\ t = tx[r].bearer
                   \/ tx[r].pc = "revoking" /\ t = tx[r].target}

WaitsFor(r, s) == r # s /\ Wants(r) \cap Locks(s) # {}

Free(r) == ~\E s \in Req : WaitsFor(r, s)

\* The row as r's session knows it: its own bearer token's row is not read again.
Known(r, t) == IF t = tx[r].bearer THEN tx[r].row ELSE tokens[t]

\* The answer keeps for whom and what it was.
Finish(r, outcome) ==
    tx' = [tx EXCEPT ![r] = [IdleTx(r) EXCEPT !.pc = "done", !.op = tx[r].op,
              !.owner = tx[r].owner, !.target = tx[r].target, !.out = outcome]]

-----------------------------------------------------------------------------
(* get_current_owner *)

\* An `Authorization: Bearer' header: resolve_token up to its flush.
ArriveBearer(r, t, op, target) ==
    /\ tx[r].pc = "idle"
    /\ \/ /\ Valid(t)
          /\ tx' = [tx EXCEPT ![r] = [@ EXCEPT !.pc = "stamping", !.op = op,
                        !.bearer = t, !.row = tokens[t], !.owner = tokens[t].owner,
                        !.target = target]]
       \/ /\ ~Valid(t)
          /\ Finish(r, "unauthorized")
    /\ UNCHANGED <<tokens, expired, active>>

\* A session cookie, of an account that is active.
ArriveSession(r, u, op, target) ==
    /\ tx[r].pc = "idle"
    /\ \/ /\ u \in active
          /\ tx' = [tx EXCEPT ![r] = [@ EXCEPT !.pc = "serving", !.op = op,
                        !.owner = u, !.target = target]]
       \/ /\ u \notin active
          /\ Finish(r, "unauthorized")
    /\ UNCHANGED <<tokens, expired, active>>

\* The flush of last_used_at gets the token's row lock.
Stamp(r) ==
    /\ tx[r].pc = "stamping"
    /\ Free(r)
    /\ tx' = [tx EXCEPT ![r].pc = "serving", ![r].stamps = TRUE]
    /\ UNCHANGED <<tokens, expired, active>>

-----------------------------------------------------------------------------
(* The endpoints *)

Serve(r) ==
    /\ tx[r].pc = "serving" /\ tx[r].op = "serve"
    /\ tx' = [tx EXCEPT ![r].pc = "flushed"]
    /\ UNCHANGED <<tokens, expired, active>>

NewToken(o, expires) ==
    [owner |-> o, expires |-> expires, revoked |-> FALSE, used |-> FALSE]

\* create_token
Mint(r, expires) ==
    /\ tx[r].pc = "serving" /\ tx[r].op = "mint"
    /\ tx' = [tx EXCEPT ![r].pc = "flushed",
                        ![r].mints = NewToken(tx[r].owner, expires)]
    /\ UNCHANGED <<tokens, expired, active>>

\* revoke_token's SELECT by id and owner.
Found(r) ==
    /\ Known(r, tx[r].target) # NoToken
    /\ Known(r, tx[r].target).owner = tx[r].owner

RevokeMissing(r) ==
    /\ tx[r].pc = "serving" /\ tx[r].op = "revoke"
    /\ ~Found(r)
    /\ Finish(r, "notfound")
    /\ UNCHANGED <<tokens, expired, active>>

\* revoked_at is set unless the row already has one.
RevokeRead(r) ==
    /\ tx[r].pc = "serving" /\ tx[r].op = "revoke"
    /\ Found(r)
    /\ tx' = [tx EXCEPT ![r].pc = IF Known(r, tx[r].target).revoked
                                  THEN "flushed" ELSE "revoking"]
    /\ UNCHANGED <<tokens, expired, active>>

\* The UPDATE of revoked_at gets the row's lock.
RevokeFlush(r) ==
    /\ tx[r].pc = "revoking"
    /\ Free(r)
    /\ tx' = [tx EXCEPT ![r].pc = "flushed", ![r].revokes = TRUE]
    /\ UNCHANGED <<tokens, expired, active>>

-----------------------------------------------------------------------------
(* The end of a request *)

\* Variant: the stamp writes back the whole row that was read.
StampedWhole(r, t) == [tx[r].row EXCEPT !.used = TRUE]

\* Only the changed column is written.
Stamped(r, t) == [tokens[t] EXCEPT !.used = TRUE]

\* The row of t after r's UPDATEs and INSERT.
Written(r, t) ==
    LET row == IF tx[r].stamps /\ t = tx[r].bearer THEN Stamped(r, t) ELSE tokens[t]
    IN  IF tx[r].revokes /\ t = tx[r].target THEN [row EXCEPT !.revoked = TRUE]
        ELSE IF t = r /\ tx[r].mints # NoToken THEN tx[r].mints
        ELSE row

\* get_db commits.
Commit(r) ==
    /\ tx[r].pc = "flushed"
    /\ tokens' = [t \in Token |-> Written(r, t)]
    /\ Finish(r, "ok")
    /\ UNCHANGED <<expired, active>>

\* A statement, the endpoint or the commit fails: nothing is stored.
Rollback(r) ==
    /\ tx[r].pc \notin {"idle", "done"}
    /\ Finish(r, "failed")
    /\ UNCHANGED <<tokens, expired, active>>

\* Variant: nobody looks for deadlocks.
DeadlockIgnored(r) == FALSE

\* PostgreSQL aborts a transaction that waits in a circle (deadlock_timeout).
DeadlockAbort(r) ==
    /\ \E circle \in SUBSET Req :
          /\ r \in circle
          /\ \A s \in circle : /\ \E q \in circle : WaitsFor(s, q)
                               /\ \E q \in circle : WaitsFor(q, s)
    /\ Finish(r, "failed")
    /\ UNCHANGED <<tokens, expired, active>>

\* set_user_active, by an administrator.
SetActive(u) ==
    /\ active' = IF u \in active THEN active \ {u} ELSE active \cup {u}
    /\ UNCHANGED <<tokens, expired, tx>>

\* The time of expires_at passes.
Expire(t) ==
    /\ tokens[t] # NoToken /\ tokens[t].expires
    /\ t \notin expired
    /\ expired' = expired \cup {t}
    /\ UNCHANGED <<tokens, active, tx>>

-----------------------------------------------------------------------------

Arrive(r) ==
    \E op \in Operation, target \in Token :
        /\ op = "revoke" \/ target = r
        /\ \/ \E t \in Token : ArriveBearer(r, t, op, target)
           \/ \E u \in User : ArriveSession(r, u, op, target)

Step(r) ==
    \/ Stamp(r)
    \/ Serve(r) \/ (\E expires \in BOOLEAN : Mint(r, expires))
    \/ RevokeMissing(r) \/ RevokeRead(r) \/ RevokeFlush(r)
    \/ Commit(r)
    \/ DeadlockAbort(r)

Next ==
    \/ \E r \in Req : Arrive(r) \/ Step(r) \/ Rollback(r)
    \/ \E u \in User : SetActive(u)
    \/ \E t \in Token : Expire(t)

\* Requests that arrived are served; PostgreSQL grants free locks and looks for
\* deadlocks.
Fairness == \A r \in Req : WF_vars(Step(r))

Spec == Init /\ [][Next]_vars
FairSpec == Spec /\ Fairness

-----------------------------------------------------------------------------
(* Properties *)

TypeOK ==
    /\ tokens \in [Token -> Row \cup {NoToken}]
    /\ expired \subseteq Token
    /\ active \subseteq User
    /\ tx \in [Req -> Tx]

\* models/api_token.py: "a revoked token is permanently dead": a revocation that
\* was answered holds, whatever request of the token still commits its stamp.
RevokedForGood ==
    \A r \in Req :
        tx[r].op = "revoke" /\ tx[r].out = "ok"
        => tokens[tx[r].target] # NoToken /\ tokens[tx[r].target].revoked

\* token_service.py, revoke_token: "Revoke a token the caller owns": a token is
\* only revoked at the commit of a request that acts for its owner.
RevokedByOwner ==
    [][\A t \in Token :
          (tokens[t] # NoToken /\ ~tokens[t].revoked /\ tokens'[t].revoked)
          => \E r \in Req : /\ tx[r].pc = "flushed" /\ tx'[r].out = "ok"
                            /\ tx[r].owner = tokens[t].owner]_vars

\* Requests that hold the row of their own token and want another one's, to
\* revoke it, are all answered in the end.
EveryRequestEnds ==
    \A r \in Req : tx[r].pc # "idle" ~> tx[r].pc = "done"

-----------------------------------------------------------------------------
(* What is inductive *)

\* What a request x carries of its bearer token, once it has one.
KnowsBearer(x) ==
    x.bearer # NoToken =>
        /\ x.row \in Row /\ ~x.row.revoked /\ x.row.owner = x.owner
        /\ tokens[x.bearer] # NoToken
        /\ tokens[x.bearer].owner = x.owner

\* What it knows of the token it revokes: its UPDATE is pending, or was not
\* needed.
KnowsTarget(x) ==
    /\ x.revokes => x.pc = "flushed"
    /\ x.pc = "revoking" \/ x.revokes \/ (x.pc = "flushed" /\ x.op = "revoke") =>
        /\ tokens[x.target] # NoToken
        /\ tokens[x.target].owner = x.owner
    /\ x.pc = "flushed" /\ x.op = "revoke" =>
        x.revokes \/ tokens[x.target].revoked

\* A request's own id is free until it commits.
Fits(r) ==
    /\ tx[r].pc = "idle" => tx[r].bearer = NoToken
    /\ tx[r].pc # "done" => tokens[r] = NoToken /\ tx[r].out = "none"
    /\ tx[r].stamps \/ tx[r].pc = "stamping" => tx[r].bearer # NoToken
    /\ tx[r].mints # NoToken => tx[r].pc = "flushed" /\ tx[r].op = "mint"
    /\ tx[r].pc = "revoking" => tx[r].op = "revoke"
    /\ tx[r].pc \in {"stamping", "serving"} => ~tx[r].revokes
    /\ tx[r].pc \in {"stamping", "serving", "revoking", "flushed"} => tx[r].owner \in User
    /\ KnowsBearer(tx[r])
    /\ KnowsTarget(tx[r])

Inv ==
    /\ TypeOK
    /\ \A r \in Req : Fits(r)
    /\ RevokedForGood
=============================================================================
