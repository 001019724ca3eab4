------------------------------ MODULE Tailoring ------------------------------
(***************************************************************************)
(* The résumé generator next to the base résumé it tailors: module         *)
(* Generation's requests read the row that module BaseResume's PUTs write, *)
(* and both take their connections from one pool.  The PUTs come from the  *)
(* dashboard, which shows a cookie.                                        *)
(***************************************************************************)
EXTENDS Generation, BaseResume

VARIABLES
    from, \* the raw_text each request under way was prompted with
    fresh \* history: the texts stored since each of them arrived, until it reads one

tailoringVars == <<vars, baseVars, from, fresh>>

NoText == "none"

ASSUME NoTextAssumption == NoText \notin Text
ASSUME PutAssumption == IsFiniteSet(Put)

TextOf(b) == IF b = NoBase THEN {} ELSE {b.raw_text}

TailoringInit ==
    /\ Init
    /\ BaseInit
    /\ from = [r \in Req |-> NoText]
    /\ fresh = [r \in Req |-> {}]

-----------------------------------------------------------------------------

\* It has not loaded the base résumé yet, and may.
Expects(r) ==
    /\ tx[r].pc \in {"connecting", "stamping", "loading"}
    /\ tx[r].kind # "structured"

\* What a request knew is gone when it has ended.
Keep(r) ==
    IF tx'[r].pc = "done"
    THEN /\ from' = [from EXCEPT ![r] = NoText]
         /\ fresh' = [fresh EXCEPT ![r] = {}]
    ELSE UNCHANGED <<from, fresh>>

\* Variant: the first text that was loaded is cached.
PromptCached(r) ==
    /\ LoadBase(r)
    /\ (tx'[r].pc = "calling") <=> (base # NoBase)
    /\ from' = [from EXCEPT ![r] =
                    IF \E s \in Req : from[s] # NoText
                    THEN CHOOSE t \in Text : \E s \in Req : from[s] = t
                    ELSE IF base = NoBase THEN NoText ELSE base.raw_text]
    /\ UNCHANGED <<baseVars, fresh>>

\* tailor: get_required, and the prompt rendered from the row's raw_text.
Prompt(r) ==
    /\ LoadBase(r)
    /\ (tx'[r].pc = "calling") <=> (base # NoBase)
    /\ IF base = NoBase THEN Keep(r)
       ELSE from' = [from EXCEPT ![r] = base.raw_text] /\ UNCHANGED fresh
    /\ UNCHANGED baseVars

\* The steps of a tailoring request that do not look at the base résumé.
Elsewhere(r) ==
    /\ \/ Connect(r) \/ ConnectTimeout(r) \/ Stamp(r)
       \/ LogApplication(r) \/ Commit(r) \/ AuditLayer(r)
       \/ \E result \in Tailored : CallLLM(r, result)
    /\ Keep(r)
    /\ UNCHANGED baseVars

Ask(r) ==
    /\ \E kind \in Kind, token \in Token \cup {NoToken} : Arrive(r, kind, token)
    /\ fresh' = IF tx'[r].kind = "structured" THEN fresh
                ELSE [fresh EXCEPT ![r] = TextOf(base)]
    /\ UNCHANGED <<baseVars, from>>

EndEarly(r) ==
    /\ Refuse(r) \/ Rollback(r)
    /\ Keep(r)
    /\ UNCHANGED baseVars

\* The connections of the PUTs.
Pooled ==
    /\ others' = Cardinality(Putting')
    /\ UNCHANGED <<tx, audit, apps, from>>

PutBegin(p) ==
    /\ Available
    /\ \E body \in Body : PutRead(p, body)
    /\ Pooled
    /\ UNCHANGED fresh

PutGo(p) ==
    /\ PutStep(p)
    /\ Pooled
    /\ fresh' = [r \in Req |-> IF Expects(r) THEN fresh[r] \cup TextOf(base')
                                ELSE fresh[r]]

PutFail(p) ==
    /\ PutRollback(p)
    /\ Pooled
    /\ UNCHANGED fresh

Serve(r) == Prompt(r) \/ Elsewhere(r)

Over ==
    /\ \A r \in Req : tx[r].pc = "done"
    /\ \A p \in Put : put[p].pc \in {"idle", "done"}
    /\ UNCHANGED tailoringVars

TailoringNext ==
    \/ Over
    \/ \E r \in Req : Ask(r) \/ Serve(r) \/ EndEarly(r)
    \/ \E p \in Put : PutBegin(p) \/ PutGo(p) \/ PutFail(p)

\* As in Generation; a PUT waits for nothing but another PUT's transaction.
TailoringSpec ==
    /\ TailoringInit
    /\ [][TailoringNext]_tailoringVars
    /\ \A r \in Req : WF_tailoringVars(Serve(r))
    /\ \A p \in Put : WF_tailoringVars(PutGo(p))

-----------------------------------------------------------------------------
(* Properties *)

TailoringTypeOK ==
    /\ TypeOK
    /\ BaseTypeOK
    /\ from \in [Req -> Text \cup {NoText}]
    /\ fresh \in [Req -> SUBSET Text]

\* A résumé is tailored from a text that was stored when its request arrived or
\* was stored since: a PUT that was answered before the request was sent is
\* never missed.
TailoredFromStored ==
    \A r \in Req : from[r] # NoText => from[r] \in fresh[r]

\* Everyone is answered: requests that hold one connection and wait for a second,
\* those that hold one and wait for the row of their API token, and PUTs that
\* wait for each other never wait for ever.
EveryoneEnds ==
    /\ EveryRequestEnds
    /\ \A p \in Put : put[p].pc # "idle" ~> put[p].pc = "done"
=============================================================================
