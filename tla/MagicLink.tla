----------------------------- MODULE MagicLink ------------------------------
(***************************************************************************)
(* Sign-in by e-mailed link and the sessions it mints: the login_tokens    *)
(* and users tables, GET /auth/verify as a transaction of several          *)
(* statements, POST /auth/request-link, POST /auth/logout-all, the sweep   *)
(* of dead tokens, and the administrator's switch of an account.           *)
(* Transactions are READ COMMITTED and commit when the endpoint returns    *)
(* (db/session.py get_db).                                                 *)
(***************************************************************************)
EXTENDS Naturals, FiniteSets

CONSTANTS
    Token,   \* login tokens; each is drawn once (secrets.token_urlsafe)
    Email,   \* normalised e-mail addresses
    Req,     \* requests: verifications and logouts
    TTL,     \* MAGIC_LINK_TTL_MIN
    MaxTime, \* bound on the clock
    NoLink, NoUser

ASSUME TTLAssumption == TTL \in Nat \ {0}
ASSUME TimeAssumption == MaxTime \in Nat

Time == 0..MaxTime

Link == [email: Email, expires: Nat, consumed: BOOLEAN]

\* `by' is the request that inserted the account: its identity.
User == [by: Req, active: BOOLEAN, tv: Nat]

ASSUME NoLinkAssumption == NoLink \notin Link
ASSUME NoUserAssumption == NoUser \notin User

Phase == {"idle", "locking", "finding", "signup", "inserted", "reselect",
          "ready", "denying", "bumping", "done"}

Outcome == {"none", "signedin", "rejected", "denied", "loggedout", "failed"}

\* A request: the link it opens and the address it gives, the token_version it
\* read, and when it checked the link.
Tx == [pc: Phase, token: Token \cup {NoLink}, email: Email \cup {NoUser},
       tv: Nat, at: Time, out: Outcome]

IdleTx == [pc |-> "idle", token |-> NoLink, email |-> NoUser, tv |-> 0,
           at |-> 0, out |-> "none"]

VARIABLES
    now,    \* the clock
    links,  \* committed login_tokens
    issued, \* history: every link as it was issued
    users,  \* committed users, by e-mail address
    tx      \* the requests' transactions; a "signedin" one holds its session

vars == <<now, links, issued, users, tx>>

Init ==
    /\ now = 0
    /\ links = [t \in Token |-> NoLink]
    /\ issued = [t \in Token |-> NoLink]
    /\ users = [e \in Email |-> NoUser]
    /\ tx = [r \in Req |-> IdleTx]

-----------------------------------------------------------------------------

\* The row is past use: consumed, or past its expiry.
Dead(t) == links[t] # NoLink /\ (links[t].consumed \/ links[t].expires <= now)

\* Variant: the clean-up deletes every earlier link of the address.
LinksOf(e) == {t \in Token : links[t] # NoLink /\ links[t].email = e}

DeadLinksOf(e) == {t \in Token : Dead(t) /\ links[t].email = e}

\* Variant: the expiry is not looked at.
RedeemableEver(t, e) ==
    links[t] # NoLink /\ links[t].email = e /\ ~links[t].consumed

\* verify_login's checks of the row it locked.
Redeemable(t, e) == links[t] # NoLink /\ links[t].email = e /\ ~Dead(t)

\* The row lock of SELECT ... FOR UPDATE, kept to the transaction's end.
Holding == {"finding", "signup", "inserted", "reselect", "ready", "denying"}

HoldsLink(r) == tx[r].pc \in Holding

\* Variant: the session is not closed, and its lock survives the request.
LinkLockedForever(t) ==
    \E r \in Req : tx[r].pc \in Holding \cup {"done"} /\ tx[r].token = t

LinkLocked(t) == \E r \in Req : HoldsLink(r) /\ tx[r].token = t

\* An uncommitted INSERT of the account: the unique index on lower(email)
\* makes another INSERT of it wait for this transaction's end.
AccountPending(e) ==
    \E r \in Req : tx[r].pc = "inserted" /\ tx[r].email = e

\* get_current_owner: the session of a signed-in request is accepted.
Accepted(r) ==
    /\ tx[r].out = "signedin"
    /\ users[tx[r].email] # NoUser
    /\ users[tx[r].email].active
    /\ users[tx[r].email].tv = tx[r].tv

Goto(r, pc) == tx' = [tx EXCEPT ![r].pc = pc]

Finish(r, outcome) ==
    tx' = [tx EXCEPT ![r].pc = "done", ![r].out = outcome]

-----------------------------------------------------------------------------
(* POST /auth/request-link: request_login *)

\* The DELETE of this address's dead tokens waits for locks on them; the new
\* token and it commit together.
RequestLink(t, e) ==
    LET dead == DeadLinksOf(e)
        new == [email |-> e, expires |-> now + TTL, consumed |-> FALSE]
    IN  /\ issued[t] = NoLink
        /\ \A d \in dead : ~LinkLocked(d)
        /\ links' = [d \in Token |-> IF d = t THEN new
                                     ELSE IF d \in dead THEN NoLink ELSE links[d]]
        /\ issued' = [issued EXCEPT ![t] = new]
        /\ UNCHANGED <<now, users, tx>>

\* Variant: the sweep only deletes consumed links.
SweepConsumed ==
    LET spent == {d \in Token : links[d] # NoLink /\ links[d].consumed}
    IN  /\ spent # {}
        /\ links' = [d \in Token |-> IF d \in spent THEN NoLink ELSE links[d]]
        /\ UNCHANGED <<now, issued, users, tx>>

\* purge_expired_login_tokens, run by _login_token_sweep_loop.
Sweep ==
    /\ \E d \in Token : Dead(d)
    /\ \A d \in Token : Dead(d) => ~LinkLocked(d)
    /\ links' = [d \in Token |-> IF Dead(d) THEN NoLink ELSE links[d]]
    /\ UNCHANGED <<now, issued, users, tx>>

-----------------------------------------------------------------------------
(* GET /auth/verify: verify, verify_login, _get_or_create_user *)

OpenLink(r, t, e) ==
    /\ tx[r].pc = "idle"
    /\ tx' = [tx EXCEPT ![r].pc = "locking", ![r].token = t, ![r].email = e]
    /\ UNCHANGED <<now, links, issued, users>>

Locked(r) ==
    IF Redeemable(tx[r].token, tx[r].email)
    THEN tx' = [tx EXCEPT ![r].pc = "finding", ![r].at = now]
    ELSE Finish(r, "rejected")

\* Variant: a plain SELECT, which does not wait for the row's lock.
LockLinkUnlocked(r) ==
    /\ tx[r].pc = "locking"
    /\ Locked(r)
    /\ UNCHANGED <<now, links, issued, users>>

\* SELECT ... FOR UPDATE, the checks, and the pending consumed_at.
LockLink(r) ==
    /\ tx[r].pc = "locking"
    /\ ~LinkLocked(tx[r].token)
    /\ Locked(r)
    /\ UNCHANGED <<now, links, issued, users>>

\* The SELECT of an existing account, first or after losing the INSERT.
FindUser(r) ==
    LET user == users[tx[r].email]
    IN  /\ tx[r].pc \in {"finding", "reselect"}
        /\ \/ /\ user = NoUser
              /\ tx[r].pc = "finding"
              /\ Goto(r, "signup")
           \/ /\ user # NoUser
              /\ user.active
              /\ tx' = [tx EXCEPT ![r].pc = "ready", ![r].tv = user.tv]
           \/ /\ user # NoUser
              /\ ~user.active
              /\ Goto(r, "denying")
        /\ UNCHANGED <<now, links, issued, users>>

\* Variant: no unique index on the address, so that every INSERT goes through.
InsertUserUnindexed(r) ==
    /\ tx[r].pc = "signup"
    /\ tx' = [tx EXCEPT ![r].pc = "inserted", ![r].tv = 0]
    /\ UNCHANGED <<now, links, issued, users>>

\* INSERT of the account in a SAVEPOINT; the loser of a race reselects.
InsertUser(r) ==
    /\ tx[r].pc = "signup"
    /\ ~AccountPending(tx[r].email)
    /\ \/ /\ users[tx[r].email] = NoUser
          /\ tx' = [tx EXCEPT ![r].pc = "inserted", ![r].tv = 0]
       \/ /\ users[tx[r].email] # NoUser
          /\ Goto(r, "reselect")
    /\ UNCHANGED <<now, links, issued, users>>

NewUser(r) == [by |-> r, active |-> TRUE, tv |-> 0]

\* Variant: consumed_at is not written.
SignInUnconsumed(r) ==
    /\ tx[r].pc \in {"ready", "inserted"}
    /\ users' = IF tx[r].pc = "inserted"
                THEN [users EXCEPT ![tx[r].email] = NewUser(r)] ELSE users
    /\ Finish(r, "signedin")
    /\ UNCHANGED <<now, links, issued>>

\* The commit after verify_login returned: the link is consumed, a new account
\* is stored, and the response carries the session.
SignIn(r) ==
    /\ tx[r].pc \in {"ready", "inserted"}
    /\ links' = [links EXCEPT ![tx[r].token].consumed = TRUE]
    /\ users' = IF tx[r].pc = "inserted"
                THEN [users EXCEPT ![tx[r].email] = NewUser(r)] ELSE users
    /\ Finish(r, "signedin")
    /\ UNCHANGED <<now, issued>>

\* verify's except branch: its commit of the failed attempt also stores the
\* consumed_at that verify_login had set before it met the inactive account.
Deny(r) ==
    /\ tx[r].pc = "denying"
    /\ links' = [links EXCEPT ![tx[r].token].consumed = TRUE]
    /\ Finish(r, "denied")
    /\ UNCHANGED <<now, issued, users>>

-----------------------------------------------------------------------------
(* POST /auth/logout-all: get_current_owner, then bump_token_version *)

LogoutCheck(r, s) ==
    /\ tx[r].pc = "idle"
    /\ Accepted(s)
    /\ tx' = [tx EXCEPT ![r].pc = "bumping", ![r].email = tx[s].email,
                        ![r].tv = tx[s].tv]
    /\ UNCHANGED <<now, links, issued, users>>

\* Variant: the counter is read by the check and written back plus one.
LogoutBumpStale(r) ==
    /\ tx[r].pc = "bumping"
    /\ users' = [users EXCEPT ![tx[r].email].tv = tx[r].tv + 1]
    /\ Finish(r, "loggedout")
    /\ UNCHANGED <<now, links, issued>>

\* UPDATE users SET token_version = token_version + 1.
LogoutBump(r) ==
    /\ tx[r].pc = "bumping"
    /\ users' = [users EXCEPT ![tx[r].email].tv = @ + 1]
    /\ Finish(r, "loggedout")
    /\ UNCHANGED <<now, links, issued>>

\* set_user_active, by an administrator.
SetActive(e, active) ==
    /\ users[e] # NoUser
    /\ users[e].active # active
    /\ users' = [users EXCEPT ![e].active = active]
    /\ UNCHANGED <<now, links, issued, tx>>

\* A statement or the commit fails, or the process dies: nothing is stored.
Rollback(r) ==
    /\ tx[r].pc \notin {"idle", "done"}
    /\ Finish(r, "failed")
    /\ UNCHANGED <<now, links, issued, users>>

Tick ==
    /\ now < MaxTime
    /\ now' = now + 1
    /\ UNCHANGED <<links, issued, users, tx>>

-----------------------------------------------------------------------------

Step(r) ==
    LockLink(r) \/ FindUser(r) \/ InsertUser(r) \/ SignIn(r) \/ Deny(r)
    \/ LogoutBump(r)

Arrive(r) ==
    \/ \E t \in Token, e \in Email : OpenLink(r, t, e)
    \/ \E s \in Req : LogoutCheck(r, s)

Environment ==
    \/ \E t \in Token, e \in Email : RequestLink(t, e)
    \/ \E e \in Email, active \in BOOLEAN : SetActive(e, active)
    \/ Tick

\* No request is under way, and the bounds may leave nothing else to happen.
Quiet ==
    /\ \A r \in Req : tx[r].pc \in {"idle", "done"}
    /\ UNCHANGED vars

Next ==
    \/ \E r \in Req : Arrive(r) \/ Step(r) \/ Rollback(r)
    \/ Sweep
    \/ Environment
    \/ Quiet

Spec == Init /\ [][Next]_vars

-----------------------------------------------------------------------------
(* Properties *)

TypeOK ==
    /\ now \in Time
    /\ links \in [Token -> Link \cup {NoLink}]
    /\ issued \in [Token -> Link \cup {NoLink}]
    /\ users \in [Email -> User \cup {NoUser}]
    /\ tx \in [Req -> Tx]

SignedIn(r) == tx[r].out = "signedin"

\* A link signs in at most one request, though several open it at once,
\* some of them fail half-way and are retried, and the row is later deleted.
SignsInOnce ==
    \A r, s \in Req :
        SignedIn(r) /\ SignedIn(s) /\ tx[r].token = tx[s].token => r = s

\* A request is signed in only with a link issued for its address, checked
\* before the link expired.
LinkHonoured ==
    \A r \in Req : SignedIn(r) =>
        /\ issued[tx[r].token] # NoLink
        /\ issued[tx[r].token].email = tx[r].email
        /\ tx[r].at < issued[tx[r].token].expires

\* auth_service.py, request_login: "any still-valid outstanding link is left
\* intact": no request for another link, and no sweep, deletes one; nor do they
\* delete a link that a verification has under its lock, though it expires
\* meanwhile.
LiveLinksKept ==
    [][\A t \in Token :
          links[t] # NoLink /\ (Dead(t) => LinkLocked(t)) => links'[t] # NoLink]_vars

\* Racing first sign-ins of one address end with one account: a stored account
\* is never replaced by the INSERT of another request.
OneAccount ==
    [][\A e \in Email : users[e] # NoUser =>
          users'[e] # NoUser /\ users'[e].by = users[e].by]_vars

\* "Log out everywhere" covers every session that exists when it commits,
\* however many logouts and sign-ins overlap it.
LogoutCoversAll ==
    [][\A r, s \in Req :
          (/\ tx[r].pc = "bumping" /\ tx'[r].out = "loggedout"
           /\ SignedIn(s) /\ tx[s].email = tx[r].email)
          => tx[s].tv # users'[tx[s].email].tv]_vars

\* A session that token_version revoked is never accepted again.
RevokedStaysRevoked ==
    [][\A s \in Req :
          SignedIn(s) /\ users[tx[s].email].tv # tx[s].tv
          => users'[tx[s].email].tv # tx[s].tv]_vars

\* Every request that arrived is answered: link locks and pending accounts
\* never make two requests wait for each other.
EveryRequestEnds ==
    \A r \in Req : tx[r].pc # "idle" ~> tx[r].pc = "done"

\* A dead token is deleted in the end ("so the table can't grow unbounded").
DeadLinksSwept ==
    \A t \in Token : Dead(t) ~> links[t] = NoLink

-----------------------------------------------------------------------------
(* What is inductive *)

\* A stored link is the one issued, until it is deleted.
StoredAsIssued ==
    \A t \in Token : links[t] # NoLink =>
        /\ issued[t] # NoLink
        /\ links[t].email = issued[t].email
        /\ links[t].expires = issued[t].expires

\* Parts of a request's state x.
NamesLink(x) ==
    x.pc \in Holding \cup {"locking"} \/ x.out = "signedin"
        => x.token \in Token /\ x.email \in Email

\* The row lock keeps the link as it was checked.
HoldsLiveLink(x) ==
    x.pc \in Holding =>
        /\ links[x.token] # NoLink
        /\ links[x.token].email = x.email
        /\ ~links[x.token].consumed
        /\ x.at < links[x.token].expires

\* The account it read is there, with a token_version as large.
KnowsAccount(x) ==
    /\ x.pc \in {"ready", "bumping"} \/ x.out = "signedin" =>
        x.email \in Email /\ users[x.email] # NoUser
    /\ x.pc = "ready" \/ x.out = "signedin" => x.tv <= users[x.email].tv

\* Its pending INSERT is the account's only one.
InsertsFirst(x) ==
    x.pc = "inserted" => users[x.email] = NoUser /\ x.tv = 0

\* Its session spent the link for good.
SpentLink(x) ==
    x.out = "signedin" =>
        /\ links[x.token] = NoLink \/ links[x.token].consumed
        /\ issued[x.token] # NoLink
        /\ issued[x.token].email = x.email
        /\ x.at < issued[x.token].expires

Undecided(x) == x.pc # "done" => x.out = "none"

Fits(x) ==
    /\ NamesLink(x)
    /\ HoldsLiveLink(x)
    /\ KnowsAccount(x)
    /\ InsertsFirst(x)
    /\ SpentLink(x)
    /\ Undecided(x)

HoldersApart ==
    \A r, s \in Req :
        HoldsLink(r) /\ HoldsLink(s) /\ tx[r].token = tx[s].token => r = s

InsertersApart ==
    \A r, s \in Req :
        /\ tx[r].pc = "inserted"
        /\ tx[s].pc = "inserted"
        /\ tx[r].email = tx[s].email
        => r = s

Inv ==
    /\ TypeOK
    /\ StoredAsIssued
    /\ \A r \in Req : Fits(tx[r])
    /\ HoldersApart
    /\ InsertersApart
    /\ SignsInOnce

-----------------------------------------------------------------------------
(* The promise of SingleUse, kept. *)

\* A link under check counts as live until its transaction ends.
Usable(t) ==
    links[t] # NoLink /\ ~links[t].consumed
    /\ (links[t].expires > now \/ LinkLocked(t))

LinkState(t) ==
    CASE issued[t] = NoLink -> "unissued"
      [] Usable(t) -> "live"
      [] \E r \in Req : SignedIn(r) /\ tx[r].token = t -> "spent"
      [] OTHER -> "void"

Promise == INSTANCE SingleUse WITH
    state <- [t \in Token |-> LinkState(t)],
    grants <- {<<tx[r].token, r>> : r \in {s \in Req : SignedIn(s)}}

PromiseKept == Promise!Spec
=============================================================================
