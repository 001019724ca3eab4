----------------------------- MODULE Generation -----------------------------
(***************************************************************************)
(* Tailoring a résumé with the LLM, its audit log, and the connection pool *)
(* they share: POST /generate-resume-from-jd and POST /generate-resume.    *)
(* The request's session keeps its pooled connection from its first        *)
(* statement until the endpoint's transaction ends, the LLM call included; *)
(* the audit layer opens a session of its own for every write, and so      *)
(* takes a second connection while the request holds the first.  A request *)
(* with an API token also keeps the token's row locked for as long, since  *)
(* it stamps last_used_at when it authenticates.                           *)
(***************************************************************************)
EXTENDS Naturals, FiniteSets

CONSTANTS
    Req,      \* requests; an application is named by the request logging it
    Token,    \* API tokens
    PoolSize, \* pool_size + max_overflow
    NoAudit, NoToken

ASSUME PoolAssumption == PoolSize \in Nat \ {0}
ASSUME ReqAssumption == IsFiniteSet(Req)
ASSUME NoTokenAssumption == NoToken \notin Token

\* POST /generate-resume, and ...-from-jd with preview off and on.
Kind == {"structured", "from_jd", "preview"}

\* How tailor ended: the last is any exception but NotFoundError, LLMError and
\* ValidationError, such as a TypeError when the model answers a JSON list.
Tailored == {"success", "llm_error", "validation_error", "exception"}

Phase == {"idle", "connecting", "stamping", "loading", "calling",
          "auditing", "writing", "logging", "attaching", "linking", "committing", "done"}

Outcome == {"none", "created", "previewed", "bad_gateway", "unprocessable",
            "unauthorized", "not_found", "error", "unavailable", "failed"}

\* A row of resume_generations; `application' is application_id.
Audit == [status: {"success", "llm_error", "validation_error"},
          preview: BOOLEAN, application: BOOLEAN]

ASSUME NoAuditAssumption == NoAudit \notin Audit

\* A request: what it asked, its API token (none: it shows a session cookie),
\* how tailor ended, whether last_generation_id was set, and its answer.
Tx == [pc: Phase, kind: Kind, token: Token \cup {NoToken},
       tailored: Tailored \cup {"none"}, generation: BOOLEAN, out: Outcome]

VARIABLES
    tx,
    audit,  \* committed resume_generations, by the request that wrote each
    apps,   \* committed job_applications
    others  \* connections that other requests of the process hold

vars == <<tx, audit, apps, others>>

IdleTx == [pc |-> "idle", kind |-> "structured", token |-> NoToken,
           tailored |-> "none", generation |-> FALSE, out |-> "none"]

Init ==
    /\ tx = [r \in Req |-> IdleTx]
    /\ audit = [r \in Req |-> NoAudit]
    /\ apps = {}
    /\ others = 0

-----------------------------------------------------------------------------
(* The pool *)

HoldsTwo == {"writing", "linking"}
Served == HoldsTwo \cup
    {"loading", "calling", "auditing", "logging", "attaching", "committing"}
Connected == Served \cup {"stamping"}

OneConnection == {r \in Req : tx[r].pc \in Connected}
TwoConnections == {r \in Req : tx[r].pc \in HoldsTwo}

\* Connections checked out by these requests: one by each session.
InUse == Cardinality(OneConnection) + Cardinality(TwoConnections)

Available == InUse + others < PoolSize

\* The pool never hands out more connections than it has (db/session.py, the
\* engine's pool_size and max_overflow).
PoolBound == InUse + others <= PoolSize

\* The rest of the service takes connections and gives them back.
OtherRequests ==
    /\ others' \in {n \in 0..PoolSize : n < others \/ InUse + n <= PoolSize} \ {others}
    /\ UNCHANGED <<tx, audit, apps>>

\* A token's row is locked from its UPDATE to the end of the transaction.
StampedBy(k) == {r \in Req : tx[r].token = k /\ tx[r].pc \in Served}

Move(r, pc) == tx' = [tx EXCEPT ![r].pc = pc]

\* The transaction of a request ends, and its lock and context are gone.
Ended(t, outcome) ==
    [t EXCEPT !.pc = "done", !.out = outcome, !.token = NoToken, !.generation = FALSE]

Finish(r, outcome) == tx' = [tx EXCEPT ![r] = Ended(tx[r], outcome)]

-----------------------------------------------------------------------------
(* The request's session *)

Arrive(r, kind, token) ==
    /\ tx[r].pc = "idle"
    /\ tx' = [tx EXCEPT ![r].pc = "connecting", ![r].kind = kind, ![r].token = token]
    /\ UNCHANGED <<audit, apps, others>>

\* The endpoint begins.
Begin(r) == Move(r, IF tx[r].kind = "structured" THEN "logging" ELSE "loading")

\* get_current_owner: the session's first statement checks a connection out, and
\* finds the cookie's account active, or the token valid.
Connect(r) ==
    /\ tx[r].pc = "connecting"
    /\ Available
    /\ IF tx[r].token = NoToken THEN Begin(r) ELSE Move(r, "stamping")
    /\ UNCHANGED <<audit, apps, others>>

\* Nothing came free within pool_timeout: the request fails.
ConnectTimeout(r) ==
    /\ tx[r].pc = "connecting"
    /\ ~Available
    /\ Finish(r, "unavailable")
    /\ UNCHANGED <<audit, apps, others>>

\* No credentials, or the statement finds them no good: 401.
Refuse(r) ==
    /\ tx[r].pc = "connecting"
    /\ Finish(r, "unauthorized")
    /\ UNCHANGED <<audit, apps, others>>

\* resolve_token's UPDATE of last_used_at waits for the token's row.
Stamp(r) ==
    /\ tx[r].pc = "stamping"
    /\ StampedBy(tx[r].token) = {}
    /\ Begin(r)
    /\ UNCHANGED <<audit, apps, others>>

\* base_resume_service.get_required; a missing base résumé is not audited.
LoadBase(r) ==
    /\ tx[r].pc = "loading"
    /\ Move(r, "calling") \/ Finish(r, "not_found")
    /\ UNCHANGED <<audit, apps, others>>

\* llm_client.complete and the validation of its output.
CallLLM(r, result) ==
    /\ tx[r].pc = "calling"
    /\ LET t == [tx[r] EXCEPT !.tailored = result]
       IN  tx' = [tx EXCEPT ![r] = IF result = "exception" THEN Ended(t, "error")
                                   ELSE [t EXCEPT !.pc = "auditing"]]
    /\ UNCHANGED <<audit, apps, others>>

-----------------------------------------------------------------------------
(* track_llm_call and _persist *)

\* The answer of an attempt that ended here.
ResultOf(t) ==
    CASE t.tailored = "llm_error" -> "bad_gateway"
      [] t.tailored = "validation_error" -> "unprocessable"
      [] OTHER -> "previewed"

\* The decorator returns or re-raises, with or without an audit row.
Audited(r, written) ==
    IF tx[r].tailored = "success" /\ tx[r].kind = "from_jd"
    THEN tx' = [tx EXCEPT ![r].pc = "logging", ![r].generation = written]
    ELSE Finish(r, ResultOf(tx[r]))

AuditConnect(r) ==
    /\ tx[r].pc = "auditing"
    /\ Available
    /\ Move(r, "writing")
    /\ UNCHANGED <<audit, apps, others>>

\* Variant: the pool's TimeoutError is not swallowed.
AuditTimeoutRaised(r) ==
    /\ tx[r].pc = "auditing"
    /\ ~Available
    /\ Finish(r, "unavailable")
    /\ UNCHANGED <<audit, apps, others>>

\* Variant: the pool waits for ever.
AuditTimeoutNever(r) == FALSE

\* No second connection within pool_timeout: the row is given up.
AuditTimeout(r) ==
    /\ tx[r].pc = "auditing"
    /\ ~Available
    /\ Audited(r, FALSE)
    /\ UNCHANGED <<audit, apps, others>>

\* Variant: the status is taken from the answer, not from the attempt.
NewAuditOfAnswer(t) ==
    [status |-> ResultOf(t), preview |-> t.kind = "preview", application |-> FALSE]

\* Variant: the preview mode is not recorded.
NewAuditModeless(t) ==
    [status |-> t.tailored, preview |-> FALSE, application |-> FALSE]

NewAudit(t) ==
    [status |-> t.tailored, preview |-> t.kind = "preview", application |-> FALSE]

AuditCommit(r) ==
    /\ tx[r].pc = "writing"
    /\ audit' = [audit EXCEPT ![r] = NewAudit(tx[r])]
    /\ Audited(r, TRUE)
    /\ UNCHANGED <<apps, others>>

\* The INSERT or its commit fails: logged and swallowed.
AuditFail(r) ==
    /\ tx[r].pc = "writing"
    /\ Audited(r, FALSE)
    /\ UNCHANGED <<audit, apps, others>>

-----------------------------------------------------------------------------
(* generate_and_log, attach_application, and get_db's commit *)

\* The application is inserted and flushed, not committed; without an audit row
\* there is nothing to link.
LogApplication(r) ==
    /\ tx[r].pc = "logging"
    /\ Move(r, IF tx[r].kind = "from_jd" /\ tx[r].generation
               THEN "attaching" ELSE "committing")
    /\ UNCHANGED <<audit, apps, others>>

AttachConnect(r) ==
    /\ tx[r].pc = "attaching"
    /\ Available
    /\ Move(r, "linking")
    /\ UNCHANGED <<audit, apps, others>>

\* No second connection within pool_timeout: the link is given up.
AttachTimeout(r) ==
    /\ tx[r].pc = "attaching"
    /\ ~Available
    /\ Move(r, "committing")
    /\ UNCHANGED <<audit, apps, others>>

\* The UPDATE commits on its own, before the application does.
Attach(r) ==
    /\ tx[r].pc = "linking"
    /\ audit' = [audit EXCEPT ![r].application = TRUE]
    /\ Move(r, "committing")
    /\ UNCHANGED <<apps, others>>

AttachFail(r) ==
    /\ tx[r].pc = "linking"
    /\ Move(r, "committing")
    /\ UNCHANGED <<audit, apps, others>>

Commit(r) ==
    /\ tx[r].pc = "committing"
    /\ apps' = apps \cup {r}
    /\ Finish(r, "created")
    /\ UNCHANGED <<audit, others>>

\* A statement or the commit fails, or the process dies: what the request's own
\* session had not committed is lost.
Rollback(r) ==
    /\ tx[r].pc \notin {"idle", "done"}
    /\ Finish(r, "failed")
    /\ UNCHANGED <<audit, apps, others>>

-----------------------------------------------------------------------------

Session(r) ==
    Connect(r) \/ ConnectTimeout(r) \/ Stamp(r) \/ LoadBase(r)
    \/ LogApplication(r) \/ Commit(r)
    \/ \E result \in Tailored : CallLLM(r, result)

AuditLayer(r) ==
    AuditConnect(r) \/ AuditTimeout(r) \/ AuditCommit(r) \/ AuditFail(r)
    \/ AttachConnect(r) \/ AttachTimeout(r) \/ Attach(r) \/ AttachFail(r)

Step(r) == Session(r) \/ AuditLayer(r)

Quiet == (\A r \in Req : tx[r].pc = "done") /\ UNCHANGED vars

Next ==
    \/ Quiet
    \/ OtherRequests
    \/ \E r \in Req :
          \/ Step(r) \/ Refuse(r) \/ Rollback(r)
          \/ \E kind \in Kind, token \in Token \cup {NoToken} : Arrive(r, kind, token)

\* The LLM answers or times out (LLM_TIMEOUT_SEC), and so does the pool.
Fairness == \A r \in Req : WF_vars(Step(r))

Spec == Init /\ [][Next]_vars
FairSpec == Spec /\ Fairness

-----------------------------------------------------------------------------
(* Properties *)

TypeOK ==
    /\ tx \in [Req -> Tx]
    /\ audit \in [Req -> Audit \cup {NoAudit}]
    /\ apps \subseteq Req
    /\ others \in Nat

\* generation_audit_service.py: "logging must not mask the result": while the
\* audit layer has the request, only the LLM's result, or the request's own
\* failure, decides its answer.
ResultNotMasked ==
    [][\A r \in Req :
          (/\ tx[r].pc \in {"auditing", "writing", "attaching", "linking"}
           /\ tx'[r].pc = "done" /\ tx'[r].out # "failed")
          => tx[r].tailored # "none" /\ tx'[r].out = ResultOf(tx[r])]_vars

\* The audit log tells what happened: each row has its attempt's status; only a
\* generation that was to be kept, never a preview or a failure, is linked, and
\* the application it is linked to exists, or the request that was to store it
\* is under way, or failed after it had linked it.
AuditTruthful ==
    \A r \in Req : audit[r] # NoAudit =>
        /\ audit[r].status = tx[r].tailored
        /\ audit[r].preview <=> tx[r].kind = "preview"
        /\ audit[r].application =>
              /\ audit[r].status = "success"
              /\ ~audit[r].preview
              /\ tx[r].pc = "done" /\ tx[r].out # "failed" => r \in apps

\* Requests that hold one connection and wait for a second never wait for each
\* other for ever.
EveryRequestEnds ==
    \A r \in Req : tx[r].pc # "idle" ~> tx[r].pc = "done"

-----------------------------------------------------------------------------
(* What is inductive *)

\* Nothing is logged as an application unless its résumé was made.
OnlyMadeIsLogged ==
    \A r \in apps :
        /\ tx[r].kind # "preview"
        /\ tx[r].kind = "from_jd" => tx[r].tailored = "success"

\* How far a request x can have come, given its audit row a.
Fits(x, a) ==
    /\ x.pc \in {"idle", "connecting", "stamping", "loading", "calling"} =>
          x.tailored = "none" /\ ~x.generation /\ a = NoAudit
    /\ x.pc \in {"loading", "calling"} => x.kind # "structured"
    /\ x.pc \in {"auditing", "writing"} =>
          /\ a = NoAudit /\ ~x.generation
          /\ x.kind \in {"from_jd", "preview"}
          /\ x.tailored \in {"success", "llm_error", "validation_error"}
    /\ x.pc \in {"logging", "attaching", "linking", "committing"} =>
          x.kind # "preview" /\ (x.kind = "from_jd" => x.tailored = "success")
    /\ x.pc \in {"attaching", "linking"} => x.kind = "from_jd" /\ a # NoAudit
    /\ x.pc = "logging" /\ x.generation => a # NoAudit
    /\ a # NoAudit /\ a.application => x.pc \in {"committing", "done"}

Inv ==
    /\ TypeOK
    /\ AuditTruthful
    /\ OnlyMadeIsLogged
    /\ \A r \in Req : Fits(tx[r], audit[r])
    /\ \A r \in apps : tx[r].pc = "done"
=============================================================================
