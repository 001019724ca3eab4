------------------------------ MODULE Sessions -------------------------------
(***************************************************************************)
(* The sessions that MagicLink mints, as JSON Web Tokens: each is signed   *)
(* with the JWT_SECRET of the process that issued it and expires after     *)
(* SESSION_DAYS (services/auth_service.py issue_session, decode_session).  *)
(* The operator restarts the service with another configuration, to rotate *)
(* the secret or to go to production, if the guardrails of core/config.py  *)
(* let it boot; requests under way end with the process.                   *)
(***************************************************************************)
EXTENDS MagicLink

CONSTANTS
    Secret,      \* values of JWT_SECRET
    DevSecret,   \* DEV_JWT_SECRET
    NoSecret,    \* the blank JWT_SECRET_PREVIOUS
    Settings,    \* the configurations that the operator writes
    SessionDays, \* SESSION_DAYS, on the clock of the links
    MaxRestarts  \* bound on the restarts

ASSUME SecretAssumption == DevSecret \in Secret /\ NoSecret \notin Secret
ASSUME SessionAssumption == SessionDays \in Nat \ {0} /\ MaxRestarts \in Nat

\* A configuration, as far as sessions depend on it; APP_BASE_URL is https and
\* REQUIRE_AUTH is on.
Config == [production: BOOLEAN, secret: Secret, previous: Secret \cup {NoSecret}]

ASSUME SettingsAssumption == Settings \subseteq Config

\* A session: its key and its `exp'; its `sub' and `tv' are in tx.
Session == [key: Secret \cup {NoSecret}, exp: Nat]

NoSession == [key |-> NoSecret, exp |-> 0]

VARIABLES
    config,
    session,  \* the session of each signed-in request
    restarts,
    rotated,  \* history: when the rotation in progress began
    orderly   \* history: the operator rotated as config.py's comments say

sessionVars == <<config, session, restarts, rotated, orderly>>
allVars == <<vars, sessionVars>>

-----------------------------------------------------------------------------
(* Booting *)

\* Variant: the previous secret is not looked at.
BootsAnyPrevious(c) == c.production => c.secret # DevSecret

\* _production_guardrails
Boots(c) == c.production => c.secret # DevSecret /\ c.previous # DevSecret

SessionsInit ==
    /\ Init
    /\ config \in {c \in Settings : Boots(c) /\ c.previous = NoSecret}
    /\ session = [r \in Req |-> NoSession]
    /\ restarts = 0
    /\ rotated = 0
    /\ orderly = TRUE

\* A new secret while no rotation is in progress, the old one kept to verify.
Rotates(c) ==
    /\ config.previous = NoSecret
    /\ c.secret # config.secret
    /\ c.previous = config.secret

\* config.py: "Drop it after one SESSION_DAYS window."
Drops(c) ==
    /\ c.secret = config.secret
    /\ c.previous = NoSecret
    /\ now >= rotated + SessionDays

SameSecrets(c) == c.secret = config.secret /\ c.previous = config.previous

\* The process ends, and boots with configuration c.
Restart(c) ==
    /\ restarts < MaxRestarts
    /\ Boots(c)
    /\ config' = c
    /\ restarts' = restarts + 1
    /\ rotated' = IF c.previous = NoSecret THEN 0
                  ELSE IF SameSecrets(c) THEN rotated ELSE now
    /\ orderly' = (orderly /\ (SameSecrets(c) \/ Rotates(c) \/ Drops(c)))
    /\ tx' = [r \in Req |-> IF tx[r].pc \in {"idle", "done"} THEN tx[r]
                            ELSE [tx[r] EXCEPT !.pc = "done", !.out = "failed"]]
    /\ UNCHANGED <<now, links, issued, users, session>>

-----------------------------------------------------------------------------
(* Issuing and decoding *)

\* Variant: the fallback secret is forgotten.
DecodesCurrent(r) ==
    /\ session[r].key = config.secret
    /\ session[r].exp > now

\* decode_session: the signature by either secret, and the expiry.
Decodes(r) ==
    /\ session[r].key \in {config.secret, config.previous} \ {NoSecret}
    /\ session[r].exp > now

\* _set_session_cookie, issue_session
Issue(r) ==
    session' = [session EXCEPT ![r] =
        [key |-> config.secret, exp |-> now + SessionDays]]

Verify(r) ==
    /\ SignIn(r)
    /\ Issue(r)
    /\ UNCHANGED <<config, restarts, rotated, orderly>>

\* The steps of a request that neither issue nor decode a session.
Plain(r) ==
    /\ \/ LockLink(r) \/ FindUser(r) \/ InsertUser(r) \/ Deny(r) \/ LogoutBump(r)
       \/ Rollback(r)
       \/ \E t \in Token, e \in Email : OpenLink(r, t, e)
    /\ UNCHANGED sessionVars

Logout(r) ==
    /\ \E s \in Req : Decodes(s) /\ LogoutCheck(r, s)
    /\ UNCHANGED sessionVars

Surroundings ==
    /\ Sweep \/ Environment \/ Quiet
    /\ UNCHANGED sessionVars

SessionsNext ==
    \/ \E r \in Req : Verify(r) \/ Plain(r) \/ Logout(r)
    \/ Surroundings
    \/ \E c \in Settings : Restart(c)

Serving(r) ==
    \/ Verify(r)
    \/ Step(r) /\ UNCHANGED sessionVars

\* Every request that arrived is served, and the sweep loop never stops: it
\* starts again with the process.
SessionsSpec ==
    /\ SessionsInit
    /\ [][SessionsNext]_allVars
    /\ WF_allVars(Sweep /\ UNCHANGED sessionVars)
    /\ \A r \in Req : WF_allVars(Serving(r))

-----------------------------------------------------------------------------
(* Properties *)

SessionsTypeOK ==
    /\ TypeOK
    /\ config \in Config
    /\ session \in [Req -> Session]
    /\ restarts \in 0..MaxRestarts
    /\ rotated \in Time
    /\ orderly \in BOOLEAN

\* config.py, JWT_SECRET_PREVIOUS: "a secret swap doesn't invalidate everyone's
\* session": whatever sequence of restarts rotates the secret and drops the old
\* one in time, a session that neither expired nor was revoked is accepted.
RotationKeepsSessions ==
    orderly =>
        \A r \in Req : Accepted(r) /\ session[r].exp > now => Decodes(r)

\* In production no session is accepted that the development secret signed,
\* whatever the service ran as before.
NoDevSessions ==
    config.production => \A r \in Req : Decodes(r) => session[r].key # DevSecret
=============================================================================
