-------------------------- MODULE TailoringProofs ---------------------------
(* Theorems about Generation, about BaseResume, and about their composition  *)
(* Tailoring, for every value of the constants: the requests and the PUTs    *)
(* behave, next to each other, as Generation and BaseResume say they do      *)
(* alone, so that what is proved of those holds here.                        *)
EXTENDS Tailoring, FiniteSetTheorems, TLAPS

-----------------------------------------------------------------------------
(* Generation: steps of one request *)

\* A step that moves one request to a state that fits its audit row.
LEMMA MoveStep ==
  ASSUME Inv, NEW r \in Req, NEW x \in Tx, tx[r].pc # "done",
         tx' = [tx EXCEPT ![r] = x], UNCHANGED <<audit, apps, others>>,
         Fits(x, audit[r]),
         audit[r] # NoAudit => x.tailored = tx[r].tailored /\ x.kind = tx[r].kind,
         audit[r] # NoAudit /\ audit[r].application /\ x.pc = "done" => x.out = "failed"
  PROVE  Inv'
<1>1. /\ tx'[r] = x /\ r \notin apps
      /\ \A s \in Req \ {r} : tx'[s] = tx[s]
  BY DEF Inv, TypeOK
<1>2. TypeOK'
  BY DEF Inv, TypeOK
<1>3. AuditTruthful'
  BY <1>1 DEF Inv, AuditTruthful
<1>4. OnlyMadeIsLogged' /\ \A s \in apps' : tx'[s].pc = "done"
  BY <1>1 DEF Inv, OnlyMadeIsLogged, TypeOK
<1>5. \A s \in Req : Fits(tx'[s], audit'[s])
  BY <1>1 DEF Inv
<1> QED BY <1>2, <1>3, <1>4, <1>5 DEF Inv

\* A request under way moves to pc, if it fits there.
LEMMA MoveInv ==
  ASSUME Inv, NEW r \in Req, NEW pc \in Phase \ {"done"}, tx[r].pc # "done",
         Move(r, pc), UNCHANGED <<audit, apps, others>>,
         Fits([tx[r] EXCEPT !.pc = pc], audit[r])
  PROVE  Inv'
<1> DEFINE x == [tx[r] EXCEPT !.pc = pc]
<1>1. /\ x \in Tx /\ x.tailored = tx[r].tailored /\ x.kind = tx[r].kind
      /\ x.pc # "done"
  BY DEF Inv, TypeOK, Tx
<1>2. tx' = [tx EXCEPT ![r] = x] /\ Fits(x, audit[r])
  BY DEF Move
<1> HIDE DEF x
<1> QED BY <1>1, <1>2, MoveStep

\* What is left of a request that has ended.
LEMMA EndedFields ==
  ASSUME NEW t \in Tx, NEW o \in Outcome
  PROVE  /\ Ended(t, o) \in Tx
         /\ Ended(t, o).pc = "done"
         /\ Ended(t, o).out = o
         /\ Ended(t, o).kind = t.kind
         /\ Ended(t, o).tailored = t.tailored
         /\ ~Ended(t, o).generation
BY DEF Ended, Tx, Phase

\* Ending a request changes no table; before its commit it may only fail.
LEMMA FinishInv ==
  ASSUME Inv, NEW r \in Req, NEW o \in Outcome, tx[r].pc # "done", Finish(r, o),
         o = "failed" \/ tx[r].pc # "committing",
         UNCHANGED <<audit, apps, others>>
  PROVE  Inv'
<1> DEFINE x == Ended(tx[r], o)
<1>1. /\ x \in Tx /\ x.pc = "done" /\ x.out = o
      /\ x.kind = tx[r].kind /\ x.tailored = tx[r].tailored
  BY EndedFields DEF Inv, TypeOK
<1>2. tx' = [tx EXCEPT ![r] = x]
  BY DEF Finish
<1> HIDE DEF x
<1>3. Fits(x, audit[r])
  BY <1>1 DEF Fits
<1>4. audit[r] # NoAudit /\ audit[r].application => x.out = "failed"
  BY <1>1 DEF Inv, Fits
<1> QED BY <1>1, <1>2, <1>3, <1>4, MoveStep

-----------------------------------------------------------------------------
(* Generation: the actions *)

\* A new request has neither attempt nor audit row.
LEMMA ArriveInv ==
  ASSUME Inv, NEW r \in Req, NEW kind \in Kind, NEW token \in Token \cup {NoToken},
         Arrive(r, kind, token)
  PROVE  Inv'
<1> DEFINE x == [tx[r] EXCEPT !.pc = "connecting", !.kind = kind, !.token = token]
<1>1. /\ x \in Tx /\ x.pc = "connecting" /\ x.tailored = tx[r].tailored
      /\ x.generation = tx[r].generation
  BY DEF Inv, TypeOK, Tx, Phase
<1>2. /\ tx[r].pc = "idle" /\ tx[r].tailored = "none" /\ ~tx[r].generation
      /\ audit[r] = NoAudit
  BY DEF Arrive, Inv, Fits
<1>3. tx' = [tx EXCEPT ![r] = x] /\ UNCHANGED <<audit, apps, others>>
  BY DEF Arrive
<1> HIDE DEF x
<1>4. Fits(x, audit[r])
  BY <1>1, <1>2 DEF Fits
<1> QED BY <1>1, <1>2, <1>3, <1>4, MoveStep

\* A request that begins has no attempt yet.
LEMMA BeginInv ==
  ASSUME Inv, NEW r \in Req, tx[r].pc \in {"connecting", "stamping"}, Begin(r),
         UNCHANGED <<audit, apps, others>>
  PROVE  Inv'
<1> DEFINE pc == IF tx[r].kind = "structured" THEN "logging" ELSE "loading"
<1>1. /\ tx[r] \in Tx /\ tx[r].tailored = "none" /\ audit[r] = NoAudit
      /\ ~tx[r].generation
  BY DEF Inv, TypeOK, Fits
<1>2. Fits([tx[r] EXCEPT !.pc = pc], audit[r])
  <2>1. CASE tx[r].kind = "structured"
    BY <1>1, <2>1 DEF Fits, Tx
  <2>2. CASE tx[r].kind # "structured"
    BY <1>1, <2>2 DEF Fits, Tx
  <2> QED BY <2>1, <2>2
<1> QED BY <1>2, MoveInv DEF Begin, Phase

\* The request's own session, up to the commit.
LEMMA SessionInv ==
  ASSUME Inv, NEW r \in Req,
         \/ Connect(r) \/ ConnectTimeout(r) \/ Refuse(r) \/ Stamp(r)
         \/ LoadBase(r) \/ LogApplication(r)
  PROVE  Inv'
<1>0. tx[r] \in Tx /\ Fits(tx[r], audit[r])
  BY DEF Inv, TypeOK
<1>1. CASE Connect(r)
  <2>1. CASE tx[r].token = NoToken
    BY <1>1, <2>1, BeginInv DEF Connect
  <2>2. CASE tx[r].token # NoToken
    <3>1. Fits([tx[r] EXCEPT !.pc = "stamping"], audit[r])
      BY <1>0, <1>1 DEF Connect, Fits, Tx
    <3> QED BY <1>1, <2>2, <3>1, MoveInv DEF Connect, Phase
  <2> QED BY <2>1, <2>2
<1>2. CASE ConnectTimeout(r) \/ Refuse(r)
  BY <1>2, FinishInv DEF ConnectTimeout, Refuse, Outcome
<1>3. CASE Stamp(r)
  BY <1>3, BeginInv DEF Stamp
<1>4. CASE LoadBase(r)
  <2>1. Fits([tx[r] EXCEPT !.pc = "calling"], audit[r])
    BY <1>0, <1>4 DEF LoadBase, Fits, Tx
  <2> QED BY <1>4, <2>1, MoveInv, FinishInv DEF LoadBase, Phase, Outcome
<1>5. CASE LogApplication(r)
  <2> DEFINE pc == IF tx[r].kind = "from_jd" /\ tx[r].generation
                   THEN "attaching" ELSE "committing"
  <2>1. Fits([tx[r] EXCEPT !.pc = pc], audit[r])
    <3>1. tx[r].pc = "logging"
      BY <1>5 DEF LogApplication
    <3> QED BY <1>0, <3>1 DEF Fits, Tx
  <2> QED BY <1>5, <2>1, MoveInv DEF LogApplication, Phase
<1> QED BY <1>1, <1>2, <1>3, <1>4, <1>5

\* The LLM's answer is kept until it is audited.
LEMMA CallLLMInv ==
  ASSUME Inv, NEW r \in Req, NEW result \in Tailored, CallLLM(r, result)
  PROVE  Inv'
<1> DEFINE t == [tx[r] EXCEPT !.tailored = result]
           x == IF result = "exception" THEN Ended(t, "error")
                ELSE [t EXCEPT !.pc = "auditing"]
<1>0. /\ tx[r] \in Tx /\ tx[r].pc = "calling" /\ audit[r] = NoAudit
      /\ ~tx[r].generation
  BY DEF CallLLM, Inv, TypeOK, Fits
<1>1. /\ x \in Tx /\ x.tailored = result /\ x.kind = tx[r].kind
      /\ x.pc = (IF result = "exception" THEN "done" ELSE "auditing")
      /\ ~x.generation
  <2>1. t \in Tx /\ t.tailored = result /\ t.kind = tx[r].kind /\ ~t.generation
    BY <1>0 DEF Tx
  <2>2. CASE result = "exception"
    <3>1. "error" \in Outcome
      BY DEF Outcome
    <3>2. x = Ended(t, "error")
      BY <2>2
    <3> HIDE DEF x, t
    <3> QED BY <2>1, <2>2, <3>1, <3>2, EndedFields
  <2>3. CASE result # "exception"
    BY <2>1, <2>3 DEF Tx, Phase
  <2> QED BY <2>2, <2>3
<1>2. tx' = [tx EXCEPT ![r] = x] /\ UNCHANGED <<audit, apps, others>>
  BY DEF CallLLM
<1>3. tx[r].kind # "structured"
  BY <1>0 DEF Inv, Fits
<1> HIDE DEF x
<1>4. Fits(x, audit[r])
  BY <1>0, <1>1, <1>3 DEF Fits, Tailored, Tx, Kind
<1> QED BY <1>0, <1>1, <1>2, <1>4, MoveStep

\* The audit layer's waits and give-ups, before and after the application.
LEMMA WaitInv ==
  ASSUME Inv, NEW r \in Req,
         AuditConnect(r) \/ AttachConnect(r) \/ AttachTimeout(r) \/ AttachFail(r)
  PROVE  Inv'
<1>0. tx[r] \in Tx /\ Fits(tx[r], audit[r])
  BY DEF Inv, TypeOK
<1>1. CASE AuditConnect(r)
  <2>1. Fits([tx[r] EXCEPT !.pc = "writing"], audit[r])
    BY <1>0, <1>1 DEF AuditConnect, Fits, Tx
  <2> QED BY <1>1, <2>1, MoveInv DEF AuditConnect, Phase
<1>2. CASE AttachConnect(r)
  <2>1. Fits([tx[r] EXCEPT !.pc = "linking"], audit[r])
    BY <1>0, <1>2 DEF AttachConnect, Fits, Tx
  <2> QED BY <1>2, <2>1, MoveInv DEF AttachConnect, Phase
<1>3. CASE AttachTimeout(r) \/ AttachFail(r)
  <2>1. Fits([tx[r] EXCEPT !.pc = "committing"], audit[r])
    BY <1>0, <1>3 DEF AttachTimeout, AttachFail, Fits, Tx
  <2> QED BY <1>3, <2>1, MoveInv DEF AttachTimeout, AttachFail, Phase
<1> QED BY <1>1, <1>2, <1>3

\* Where a request goes when its attempt was audited, or given up.
LEMMA AuditedState ==
  ASSUME Inv, NEW r \in Req, NEW written \in BOOLEAN,
         tx[r].pc \in {"auditing", "writing"}, Audited(r, written)
  PROVE  \E x \in Tx :
            /\ tx' = [tx EXCEPT ![r] = x]
            /\ x.tailored = tx[r].tailored /\ x.kind = tx[r].kind
            /\ x.pc \in {"logging", "done"}
            /\ x.pc = "logging" =>
                  x.tailored = "success" /\ x.kind = "from_jd" /\ x.generation = written
<1>0. tx[r] \in Tx
  BY DEF Inv, TypeOK
<1>1. CASE tx[r].tailored = "success" /\ tx[r].kind = "from_jd"
  <2> DEFINE x == [tx[r] EXCEPT !.pc = "logging", !.generation = written]
  <2>1. x \in Tx /\ tx' = [tx EXCEPT ![r] = x]
    BY <1>0, <1>1 DEF Audited, Tx, Phase
  <2>2. /\ x.tailored = tx[r].tailored /\ x.kind = tx[r].kind
        /\ x.generation = written /\ x.pc = "logging"
    BY <1>0 DEF Tx
  <2> HIDE DEF x
  <2> QED BY <1>1, <2>1, <2>2
<1>2. CASE ~(tx[r].tailored = "success" /\ tx[r].kind = "from_jd")
  <2> DEFINE x == Ended(tx[r], ResultOf(tx[r]))
  <2>1. ResultOf(tx[r]) \in Outcome
    BY DEF ResultOf, Outcome
  <2>2. x \in Tx /\ x.tailored = tx[r].tailored /\ x.kind = tx[r].kind /\ x.pc = "done"
    BY <1>0, <2>1, EndedFields
  <2>3. tx' = [tx EXCEPT ![r] = x]
    BY <1>2 DEF Audited, Finish
  <2> HIDE DEF x
  <2> QED BY <2>2, <2>3
<1> QED BY <1>1, <1>2

\* An attempt whose audit row was given up is answered as it ended.
LEMMA UnauditedInv ==
  ASSUME Inv, NEW r \in Req, AuditTimeout(r) \/ AuditFail(r)
  PROVE  Inv'
<1>1. PICK x \in Tx :
            /\ tx' = [tx EXCEPT ![r] = x]
            /\ x.tailored = tx[r].tailored /\ x.kind = tx[r].kind
            /\ x.pc \in {"logging", "done"}
            /\ x.pc = "logging" =>
                  x.tailored = "success" /\ x.kind = "from_jd" /\ x.generation = FALSE
  BY AuditedState DEF AuditTimeout, AuditFail
<1>2. tx[r].pc # "done" /\ audit[r] = NoAudit /\ UNCHANGED <<audit, apps, others>>
  BY DEF AuditTimeout, AuditFail, Inv, Fits
<1>3. Fits(x, audit[r])
  BY <1>1, <1>2 DEF Fits
<1> QED BY <1>1, <1>2, <1>3, MoveStep

\* A step that writes the request's audit row.
LEMMA WriteStep ==
  ASSUME Inv, NEW r \in Req, NEW x \in Tx, NEW a \in Audit, tx[r].pc # "done",
         tx' = [tx EXCEPT ![r] = x], audit' = [audit EXCEPT ![r] = a],
         UNCHANGED <<apps, others>>, Fits(x, a),
         a.status = x.tailored, a.preview <=> x.kind = "preview",
         a.application => a.status = "success" /\ ~a.preview /\ x.pc # "done"
  PROVE  Inv'
<1>1. /\ tx'[r] = x /\ audit'[r] = a /\ r \notin apps
      /\ \A s \in Req \ {r} : tx'[s] = tx[s] /\ audit'[s] = audit[s]
  BY DEF Inv, TypeOK
<1>2. TypeOK'
  BY DEF Inv, TypeOK
<1>3. AuditTruthful'
  BY <1>1 DEF Inv, AuditTruthful
<1>4. OnlyMadeIsLogged' /\ \A s \in apps' : tx'[s].pc = "done"
  BY <1>1 DEF Inv, OnlyMadeIsLogged, TypeOK
<1>5. \A s \in Req : Fits(tx'[s], audit'[s])
  BY <1>1 DEF Inv
<1> QED BY <1>2, <1>3, <1>4, <1>5 DEF Inv

\* The row of an attempt records its status and its mode.
LEMMA AuditCommitInv ==
  ASSUME Inv, NEW r \in Req, AuditCommit(r)
  PROVE  Inv'
<1> DEFINE a == NewAudit(tx[r])
<1>1. PICK x \in Tx :
            /\ tx' = [tx EXCEPT ![r] = x]
            /\ x.tailored = tx[r].tailored /\ x.kind = tx[r].kind
            /\ x.pc \in {"logging", "done"}
            /\ x.pc = "logging" =>
                  x.tailored = "success" /\ x.kind = "from_jd" /\ x.generation = TRUE
  BY AuditedState DEF AuditCommit
<1>2. tx[r].pc = "writing" /\ tx[r] \in Tx /\ Fits(tx[r], audit[r])
  BY DEF AuditCommit, Inv, TypeOK
<1>3. /\ a \in Audit /\ a.status = x.tailored /\ ~a.application
      /\ a.preview <=> x.kind = "preview"
  BY <1>1, <1>2 DEF NewAudit, Audit, Fits
<1>4. a # NoAudit
  BY <1>3, NoAuditAssumption
<1>5. audit' = [audit EXCEPT ![r] = a] /\ UNCHANGED <<apps, others>>
  BY DEF AuditCommit
<1> HIDE DEF a
<1>6. Fits(x, a)
  BY <1>1, <1>3, <1>4 DEF Fits
<1> QED BY <1>1, <1>2, <1>3, <1>5, <1>6, WriteStep

\* Only the row of a committed-to generation is linked.
LEMMA AttachInv ==
  ASSUME Inv, NEW r \in Req, Attach(r)
  PROVE  Inv'
<1> DEFINE a == [audit[r] EXCEPT !.application = TRUE]
           x == [tx[r] EXCEPT !.pc = "committing"]
<1>1. /\ tx[r].pc = "linking" /\ tx[r] \in Tx
      /\ tx[r].kind = "from_jd" /\ tx[r].tailored = "success"
      /\ audit[r] # NoAudit /\ audit[r] \in Audit
  BY DEF Attach, Inv, TypeOK, Fits
<1>2. audit[r].status = "success" /\ ~audit[r].preview
  BY <1>1 DEF Inv, AuditTruthful, Audit
<1>3. a \in Audit /\ a.status = "success" /\ ~a.preview
  BY <1>1, <1>2 DEF Audit
<1>4. /\ x \in Tx /\ x.pc = "committing" /\ x.kind = "from_jd"
      /\ x.tailored = "success"
  BY <1>1 DEF Tx, Phase
<1>5. /\ tx' = [tx EXCEPT ![r] = x] /\ audit' = [audit EXCEPT ![r] = a]
      /\ UNCHANGED <<apps, others>>
  BY DEF Attach, Move
<1> HIDE DEF a, x
<1>6. Fits(x, a)
  BY <1>4 DEF Fits
<1> QED BY <1>1, <1>3, <1>4, <1>5, <1>6, WriteStep

\* The commit stores the application of a request that may log one.
LEMMA CommitInv ==
  ASSUME Inv, NEW r \in Req, Commit(r)
  PROVE  Inv'
<1> DEFINE x == Ended(tx[r], "created")
<1>1. tx[r].pc = "committing" /\ tx[r] \in Tx /\ Fits(tx[r], audit[r])
  BY DEF Commit, Inv, TypeOK
<1>2. /\ x \in Tx /\ x.pc = "done" /\ x.kind = tx[r].kind
      /\ x.tailored = tx[r].tailored
  BY <1>1, EndedFields DEF Outcome
<1>3. tx' = [tx EXCEPT ![r] = x] /\ apps' = apps \cup {r} /\ UNCHANGED <<audit, others>>
  BY DEF Commit, Finish
<1> HIDE DEF x
<1>4. tx'[r] = x /\ \A s \in Req \ {r} : tx'[s] = tx[s]
  BY <1>3 DEF Inv, TypeOK
<1>5. TypeOK'
  BY <1>2, <1>3 DEF Inv, TypeOK
<1>6. AuditTruthful'
  BY <1>2, <1>3, <1>4 DEF Inv, AuditTruthful
<1>7. OnlyMadeIsLogged' /\ \A s \in apps' : tx'[s].pc = "done"
  BY <1>1, <1>2, <1>3, <1>4 DEF Inv, OnlyMadeIsLogged, TypeOK, Fits
<1>8. \A s \in Req : Fits(tx'[s], audit'[s])
  BY <1>2, <1>3, <1>4 DEF Inv, Fits
<1> QED BY <1>5, <1>6, <1>7, <1>8 DEF Inv

-----------------------------------------------------------------------------
(* Generation: the invariant *)

\* Nothing is asked, audited or logged at first.
LEMMA InitInv == Init => Inv
<1> SUFFICES ASSUME Init PROVE Inv
  OBVIOUS
<1>1. IdleTx \in Tx /\ IdleTx.pc = "idle" /\ IdleTx.tailored = "none"
      /\ ~IdleTx.generation
  BY DEF IdleTx, Tx, Phase, Kind, Outcome
<1>2. TypeOK
  BY <1>1 DEF Init, TypeOK
<1>3. \A r \in Req : Fits(tx[r], audit[r])
  BY <1>1 DEF Init, Fits
<1> QED BY <1>2, <1>3 DEF Init, Inv, AuditTruthful, OnlyMadeIsLogged

\* Every step keeps the invariant.
LEMMA NextInv == Inv /\ [Next]_vars => Inv'
<1> SUFFICES ASSUME Inv, [Next]_vars PROVE Inv'
  OBVIOUS
<1>1. ASSUME NEW r \in Req, Step(r) PROVE Inv'
  <2>1. CASE Session(r)
    BY <2>1, SessionInv, CallLLMInv, CommitInv DEF Session
  <2>2. CASE AuditLayer(r)
    BY <2>2, WaitInv, UnauditedInv, AuditCommitInv, AttachInv DEF AuditLayer
  <2> QED BY <1>1, <2>1, <2>2 DEF Step
<1>2. ASSUME NEW r \in Req, Refuse(r) \/ Rollback(r) PROVE Inv'
  BY <1>2, SessionInv, FinishInv DEF Rollback, Outcome
<1>3. ASSUME NEW r \in Req, NEW kind \in Kind, NEW token \in Token \cup {NoToken},
             Arrive(r, kind, token)
      PROVE  Inv'
  BY <1>3, ArriveInv
<1>4. CASE OtherRequests
  BY <1>4, PoolAssumption
  DEF OtherRequests, Inv, TypeOK, AuditTruthful, OnlyMadeIsLogged, Fits
<1>5. CASE UNCHANGED vars
  BY <1>5 DEF vars, Inv, TypeOK, AuditTruthful, OnlyMadeIsLogged
<1> QED BY <1>1, <1>2, <1>3, <1>4, <1>5 DEF Next, Quiet

\* The invariant holds in every reachable state.
THEOREM Invariance == Spec => []Inv
BY InitInv, NextInv, PTL DEF Spec

\* The variables keep their types (the columns of resume_generations).
THEOREM TypeCorrect == Spec => []TypeOK
<1>1. Inv => TypeOK
  BY DEF Inv
<1> QED BY <1>1, Invariance, PTL

\* However attempts overlap, time out and fail, an audit row tells how its own
\* attempt ended, and only a committed-to generation is linked.
THEOREM AuditIsTruthful == Spec => []AuditTruthful
<1>1. Inv => AuditTruthful
  BY DEF Inv
<1> QED BY <1>1, Invariance, PTL

\* No preview and no failed attempt ever logs an application.
THEOREM ApplicationsAreMade == Spec => []OnlyMadeIsLogged
<1>1. Inv => OnlyMadeIsLogged
  BY DEF Inv
<1> QED BY <1>1, Invariance, PTL

-----------------------------------------------------------------------------
(* Generation: the audit layer and the answer *)

\* An attempt that the audit layer has, and that ends without having failed,
\* ends with its own result.
LEMMA AuditLayerAnswers ==
  ASSUME Inv, NEW r \in Req,
         tx[r].pc \in {"auditing", "writing", "attaching", "linking"},
         tx'[r].pc = "done", tx'[r].out # "failed",
         Step(r) \/ Refuse(r) \/ Rollback(r)
         \/ \E kind \in Kind, token \in Token \cup {NoToken} : Arrive(r, kind, token)
  PROVE  tx[r].tailored # "none" /\ tx'[r].out = ResultOf(tx[r])
<1>0. tx[r] \in Tx /\ Fits(tx[r], audit[r])
  BY DEF Inv, TypeOK
<1>1. tx[r].tailored # "none"
  BY <1>0 DEF Fits
<1>2. ASSUME NEW o, Finish(r, o) PROVE tx'[r].out = o
  <2> DEFINE x == Ended(tx[r], o)
  <2>1. x.out = o
    BY <1>0 DEF Ended, Tx
  <2>2. tx'[r] = x
    BY <1>2 DEF Finish, Inv, TypeOK
  <2> QED BY <2>1, <2>2
<1>3. ASSUME NEW pc, Move(r, pc), pc # "done" PROVE FALSE
  BY <1>0, <1>3 DEF Move, Inv, TypeOK, Tx
<1>4. ASSUME NEW written, Audited(r, written)
      PROVE  tx'[r].out = ResultOf(tx[r])
  <2>1. CASE tx[r].tailored = "success" /\ tx[r].kind = "from_jd"
    <3>1. tx'[r].pc = "logging"
      BY <1>0, <1>4, <2>1 DEF Audited, Inv, TypeOK, Tx
    <3> QED BY <3>1
  <2> QED BY <1>2, <1>4, <2>1 DEF Audited
<1>5. CASE AuditTimeout(r) \/ AuditCommit(r) \/ AuditFail(r)
  BY <1>1, <1>4, <1>5 DEF AuditTimeout, AuditCommit, AuditFail
<1>6. ~(AuditConnect(r) \/ AttachConnect(r) \/ AttachTimeout(r) \/ Attach(r)
        \/ AttachFail(r))
  BY <1>3 DEF AuditConnect, AttachConnect, AttachTimeout, Attach, AttachFail
<1>7. ~Rollback(r)
  BY <1>2 DEF Rollback
<1> QED BY <1>5, <1>6, <1>7
        DEF Step, Session, AuditLayer, Connect, ConnectTimeout, Stamp, LoadBase,
            LogApplication, Commit, CallLLM, Refuse, Arrive

\* A request's step moves no other request.
LEMMA OthersStay ==
  ASSUME TypeOK, NEW r \in Req, NEW s \in Req, s # r,
         Step(s) \/ Refuse(s) \/ Rollback(s)
         \/ \E kind \in Kind, token \in Token \cup {NoToken} : Arrive(s, kind, token)
  PROVE  tx'[r] = tx[r]
<1>1. ASSUME NEW x, tx' = [tx EXCEPT ![s] = x] PROVE tx'[r] = tx[r]
  BY <1>1 DEF TypeOK
<1>2. ASSUME NEW pc, Move(s, pc) PROVE tx'[r] = tx[r]
  BY <1>2 DEF Move, TypeOK
<1>3. ASSUME NEW o, Finish(s, o) PROVE tx'[r] = tx[r]
  BY <1>1, <1>3 DEF Finish
<1>4. ASSUME NEW written, Audited(s, written) PROVE tx'[r] = tx[r]
  BY <1>3, <1>4 DEF Audited, TypeOK
<1>5. CASE Session(s)
  <2>1. CASE \E result \in Tailored : CallLLM(s, result)
    BY <1>1, <2>1 DEF CallLLM
  <2> QED BY <1>2, <1>3, <1>5, <2>1
          DEF Session, Connect, ConnectTimeout, Stamp, Begin, LoadBase,
              LogApplication, Commit
<1>6. CASE AuditLayer(s)
  BY <1>2, <1>4, <1>6 DEF AuditLayer, AuditConnect, AuditTimeout, AuditCommit,
     AuditFail, AttachConnect, AttachTimeout, Attach, AttachFail
<1>7. CASE Refuse(s) \/ Rollback(s)
  BY <1>3, <1>7 DEF Refuse, Rollback
<1>8. CASE \E kind \in Kind, token \in Token \cup {NoToken} : Arrive(s, kind, token)
  BY <1>8 DEF Arrive, TypeOK
<1> QED BY <1>5, <1>6, <1>7, <1>8 DEF Step

\* generation_audit_service.py: "logging must not mask the result".  However the
\* pool, the audit row's INSERT and the link fail, a client is told what the LLM
\* gave, or that the request itself failed.
THEOREM AuditMasksNothing == Spec => ResultNotMasked
<1>1. ASSUME Inv, [Next]_vars, NEW r \in Req,
             tx[r].pc \in {"auditing", "writing", "attaching", "linking"},
             tx'[r].pc = "done", tx'[r].out # "failed"
      PROVE  tx[r].tailored # "none" /\ tx'[r].out = ResultOf(tx[r])
  <2>1. tx'[r] # tx[r]
    BY <1>1
  <2>2. PICK s \in Req :
          \/ Step(s) \/ Refuse(s) \/ Rollback(s)
          \/ \E kind \in Kind, token \in Token \cup {NoToken} : Arrive(s, kind, token)
    BY <1>1, <2>1 DEF Next, Quiet, OtherRequests, vars
  <2>3. s = r
    BY <1>1, <2>1, <2>2, OthersStay DEF Inv
  <2> QED BY <1>1, <2>2, <2>3, AuditLayerAnswers
<1>2. Inv /\ [Next]_vars =>
        [\A r \in Req :
          (/\ tx[r].pc \in {"auditing", "writing", "attaching", "linking"}
           /\ tx'[r].pc = "done" /\ tx'[r].out # "failed")
          => tx[r].tailored # "none" /\ tx'[r].out = ResultOf(tx[r])]_vars
  BY <1>1
<1> QED BY <1>2, Invariance, PTL DEF Spec, ResultNotMasked

-----------------------------------------------------------------------------
(* Generation: the pool *)

\* The sets behind InUse are finite.
LEMMA Countable ==
  ASSUME NEW S \in SUBSET Req
  PROVE  IsFiniteSet(S) /\ Cardinality(S) \in Nat
BY ReqAssumption, FS_Subset, FS_CardinalityType

\* Fewer requests that hold connections need fewer connections.
LEMMA PoolShrinks ==
  ASSUME PoolBound, TypeOK, UNCHANGED others,
         OneConnection' \subseteq OneConnection,
         TwoConnections' \subseteq TwoConnections
  PROVE  PoolBound'
<1>1. /\ Cardinality(OneConnection) \in Nat /\ Cardinality(OneConnection') \in Nat
      /\ Cardinality(TwoConnections) \in Nat /\ Cardinality(TwoConnections') \in Nat
  BY Countable DEF OneConnection, TwoConnections
<1>2. /\ Cardinality(OneConnection') <= Cardinality(OneConnection)
      /\ Cardinality(TwoConnections') <= Cardinality(TwoConnections)
  BY Countable, FS_Subset DEF OneConnection, TwoConnections
<1> QED BY <1>1, <1>2, PoolAssumption
    DEF PoolBound, InUse, OneConnection, TwoConnections, TypeOK

\* One more connection, taken while one is available.
LEMMA PoolGrows ==
  ASSUME PoolBound, TypeOK, Available, UNCHANGED others, NEW r \in Req,
         \/ /\ OneConnection' \subseteq OneConnection \cup {r}
            /\ TwoConnections' \subseteq TwoConnections
         \/ /\ OneConnection' \subseteq OneConnection
            /\ TwoConnections' \subseteq TwoConnections \cup {r}
  PROVE  PoolBound'
<1>1. ASSUME NEW S \in SUBSET Req, NEW T \in SUBSET Req, T \subseteq S \cup {r}
      PROVE  Cardinality(T) <= Cardinality(S) + 1
  <2>1. IsFiniteSet(S) /\ Cardinality(S) \in Nat
    BY Countable
  <2>2. /\ IsFiniteSet(S \cup {r})
        /\ Cardinality(S \cup {r}) = IF r \in S THEN Cardinality(S) ELSE Cardinality(S) + 1
    BY <2>1, FS_AddElement
  <2>3. Cardinality(T) <= Cardinality(S \cup {r})
    BY <1>1, <2>2, FS_Subset
  <2>4. Cardinality(T) \in Nat
    BY Countable
  <2> QED BY <2>1, <2>2, <2>3, <2>4
<1>2. ASSUME NEW S \in SUBSET Req, NEW T \in SUBSET Req, T \subseteq S
      PROVE  Cardinality(T) <= Cardinality(S)
  BY <1>2, Countable, FS_Subset
<1>3. /\ OneConnection \in SUBSET Req /\ OneConnection' \in SUBSET Req
      /\ TwoConnections \in SUBSET Req /\ TwoConnections' \in SUBSET Req
  BY DEF OneConnection, TwoConnections
<1>4. /\ Cardinality(OneConnection) \in Nat /\ Cardinality(OneConnection') \in Nat
      /\ Cardinality(TwoConnections) \in Nat /\ Cardinality(TwoConnections') \in Nat
  BY <1>3, Countable
<1>5. Cardinality(OneConnection') + Cardinality(TwoConnections')
        <= Cardinality(OneConnection) + Cardinality(TwoConnections) + 1
  BY <1>1, <1>2, <1>3, <1>4
<1> QED BY <1>4, <1>5, PoolAssumption
    DEF PoolBound, Available, InUse, OneConnection, TwoConnections, TypeOK

\* A request that moves on with the connections it has, or fewer.
LEMMA PoolKept ==
  ASSUME PoolBound, TypeOK, UNCHANGED others, NEW r \in Req, NEW x,
         tx' = [tx EXCEPT ![r] = x],
         x.pc \in Connected => tx[r].pc \in Connected,
         x.pc \in HoldsTwo => tx[r].pc \in HoldsTwo
  PROVE  PoolBound'
<1>1. tx'[r] = x /\ \A s \in Req \ {r} : tx'[s] = tx[s]
  BY DEF TypeOK
<1>2. /\ OneConnection' \subseteq OneConnection
      /\ TwoConnections' \subseteq TwoConnections
  BY <1>1 DEF OneConnection, TwoConnections
<1> QED BY <1>2, PoolShrinks

\* A request that takes one of those available.
LEMMA PoolTaken ==
  ASSUME PoolBound, TypeOK, Available, UNCHANGED others, NEW r \in Req, NEW x,
         tx' = [tx EXCEPT ![r] = x],
         x.pc \in HoldsTwo => tx[r].pc \in Connected
  PROVE  PoolBound'
<1>1. tx'[r] = x /\ \A s \in Req \ {r} : tx'[s] = tx[s]
  BY DEF TypeOK
<1>2. CASE x.pc \in HoldsTwo
  <2>1. /\ OneConnection' \subseteq OneConnection
        /\ TwoConnections' \subseteq TwoConnections \cup {r}
    BY <1>1, <1>2 DEF OneConnection, TwoConnections
  <2> QED BY <2>1, PoolGrows
<1>3. CASE x.pc \notin HoldsTwo
  <2>1. /\ OneConnection' \subseteq OneConnection \cup {r}
        /\ TwoConnections' \subseteq TwoConnections
    BY <1>1, <1>3 DEF OneConnection, TwoConnections
  <2> QED BY <2>1, PoolGrows
<1> QED BY <1>2, <1>3

\* Every step of a request keeps the bound.
LEMMA PoolStep ==
  ASSUME PoolBound, TypeOK, NEW r \in Req,
         \/ Step(r) \/ Refuse(r) \/ Rollback(r)
         \/ \E kind \in Kind, token \in Token \cup {NoToken} : Arrive(r, kind, token)
  PROVE  PoolBound'
<1> USE DEF Connected, Served, HoldsTwo
<1>0. tx[r] \in Tx
  BY DEF TypeOK
<1>1. ASSUME NEW pc, Move(r, pc), UNCHANGED others,
             \/ Available /\ (pc \in HoldsTwo => tx[r].pc \in Connected)
             \/ tx[r].pc \in Connected /\ pc \notin HoldsTwo
      PROVE  PoolBound'
  <2> DEFINE x == [tx[r] EXCEPT !.pc = pc]
  <2>1. x.pc = pc
    BY <1>0 DEF Tx
  <2>2. tx' = [tx EXCEPT ![r] = x]
    BY <1>1 DEF Move
  <2> HIDE DEF x
  <2> QED BY <1>1, <2>1, <2>2, PoolKept, PoolTaken
<1>2. ASSUME NEW o, Finish(r, o), UNCHANGED others PROVE PoolBound'
  <2> DEFINE x == Ended(tx[r], o)
  <2>1. x.pc = "done"
    BY <1>0 DEF Ended, Tx
  <2>2. tx' = [tx EXCEPT ![r] = x]
    BY <1>2 DEF Finish
  <2> HIDE DEF x
  <2> QED BY <1>2, <2>1, <2>2, PoolKept
<1>3. ASSUME Begin(r), UNCHANGED others,
             \/ tx[r].pc = "connecting" /\ Available
             \/ tx[r].pc = "stamping"
      PROVE  PoolBound'
  BY <1>1, <1>3 DEF Begin
<1>4. ASSUME NEW written, Audited(r, written), UNCHANGED others,
             tx[r].pc \in {"auditing", "writing"}
      PROVE  PoolBound'
  <2>1. CASE tx[r].tailored = "success" /\ tx[r].kind = "from_jd"
    <3> DEFINE x == [tx[r] EXCEPT !.pc = "logging", !.generation = written]
    <3>1. x.pc = "logging"
      BY <1>0 DEF Tx
    <3>2. tx' = [tx EXCEPT ![r] = x]
      BY <1>4, <2>1 DEF Audited
    <3> HIDE DEF x
    <3> QED BY <1>4, <3>1, <3>2, PoolKept
  <2> QED BY <1>2, <1>4, <2>1 DEF Audited
<1>5. CASE Connect(r) \/ ConnectTimeout(r) \/ Stamp(r) \/ Refuse(r) \/ Rollback(r)
  BY <1>1, <1>2, <1>3, <1>5 DEF Connect, ConnectTimeout, Stamp, Refuse, Rollback
<1>6. CASE LoadBase(r) \/ LogApplication(r) \/ Commit(r)
  BY <1>1, <1>2, <1>6 DEF LoadBase, LogApplication, Commit
<1>7. CASE AuditConnect(r) \/ AttachConnect(r)
  BY <1>1, <1>7 DEF AuditConnect, AttachConnect
<1>8. CASE AttachTimeout(r) \/ Attach(r) \/ AttachFail(r)
  BY <1>1, <1>8 DEF AttachTimeout, Attach, AttachFail
<1>9. CASE AuditTimeout(r) \/ AuditCommit(r) \/ AuditFail(r)
  BY <1>4, <1>9 DEF AuditTimeout, AuditCommit, AuditFail
<1>10. ASSUME NEW result \in Tailored, CallLLM(r, result) PROVE PoolBound'
  <2> DEFINE t == [tx[r] EXCEPT !.tailored = result]
             x == IF result = "exception" THEN Ended(t, "error")
                  ELSE [t EXCEPT !.pc = "auditing"]
  <2>1. x.pc \in {"done", "auditing"}
    BY <1>0 DEF Ended, Tx
  <2>2. tx' = [tx EXCEPT ![r] = x] /\ UNCHANGED others /\ tx[r].pc = "calling"
    BY <1>10 DEF CallLLM
  <2> HIDE DEF x
  <2> QED BY <2>1, <2>2, PoolKept
<1>11. ASSUME NEW kind \in Kind, NEW token \in Token \cup {NoToken},
              Arrive(r, kind, token)
       PROVE  PoolBound'
  <2> DEFINE x == [tx[r] EXCEPT !.pc = "connecting", !.kind = kind, !.token = token]
  <2>1. x.pc = "connecting"
    BY <1>0 DEF Tx
  <2>2. tx' = [tx EXCEPT ![r] = x] /\ UNCHANGED others
    BY <1>11 DEF Arrive
  <2> HIDE DEF x
  <2> QED BY <2>1, <2>2, PoolKept
<1> QED BY <1>5, <1>6, <1>7, <1>8, <1>9, <1>10, <1>11 DEF Step, Session, AuditLayer

\* However many requests hold a connection and want a second, the pool never
\* hands out more than it has.
THEOREM PoolIsBounded == Spec => []PoolBound
<1>1. Init => PoolBound
  <2> SUFFICES ASSUME Init PROVE PoolBound
    OBVIOUS
  <2>1. OneConnection = {} /\ TwoConnections = {}
    BY DEF Init, IdleTx, OneConnection, TwoConnections, Connected, Served, HoldsTwo
  <2>2. Cardinality({}) = 0
    BY FS_EmptySet
  <2> QED BY <2>1, <2>2, PoolAssumption DEF Init, PoolBound, InUse
<1>2. PoolBound /\ TypeOK /\ [Next]_vars => PoolBound'
  <2> SUFFICES ASSUME PoolBound, TypeOK, [Next]_vars PROVE PoolBound'
    OBVIOUS
  <2>1. CASE OtherRequests
    <3>1. InUse' = InUse
      BY <2>1 DEF OtherRequests, InUse, OneConnection, TwoConnections
    <3>2. InUse \in Nat
      BY Countable DEF InUse, OneConnection, TwoConnections
    <3>3. others' \in 0..PoolSize /\ (others' < others \/ InUse + others' <= PoolSize)
      BY <2>1 DEF OtherRequests
    <3>4. InUse + others <= PoolSize /\ others \in Nat /\ PoolSize \in Nat
      BY PoolAssumption DEF PoolBound, TypeOK
    <3>5. InUse + others' <= PoolSize
      <4> DEFINE i == InUse
                 m == others
                 n == others'
      <4>1. i \in Nat /\ m \in Nat /\ n \in Nat /\ PoolSize \in Nat
        BY <3>2, <3>3, <3>4
      <4>2. i + m <= PoolSize /\ (n < m \/ i + n <= PoolSize)
        BY <3>3, <3>4
      <4> HIDE DEF i, m, n
      <4>3. i + n <= PoolSize
        BY <4>1, <4>2
      <4> QED BY <4>3 DEF i, n
    <3> QED BY <3>1, <3>5 DEF PoolBound
  <2>2. CASE UNCHANGED vars
    BY <2>2 DEF vars, PoolBound, InUse, OneConnection, TwoConnections
  <2> QED BY <2>1, <2>2, PoolStep DEF Next, Quiet
<1> QED BY <1>1, <1>2, TypeCorrect, PTL DEF Spec

-----------------------------------------------------------------------------
(* BaseResume: the PUTs *)

\* What a PUT x knows, when the row is b.
PutFits(x, b) ==
    /\ x.pc \in {"writing", "inserted", "updated"} => x.payload \in Base
    /\ x.pc = "updated" => x.read # NoBase
    /\ x.read # NoBase => b # NoBase

PutInv ==
    /\ BaseTypeOK
    /\ ResumeWhole
    /\ \A p \in Put : PutFits(put[p], base)
    /\ others = Cardinality(Putting)
    /\ others <= PoolSize

\* A step that moves one PUT and stores nothing.
LEMMA PutStays ==
  ASSUME PutInv, NEW p \in Put, NEW x \in PutTx,
         put' = [put EXCEPT ![p] = x], UNCHANGED <<base, last>>,
         PutFits(x, base)
  PROVE  BaseTypeOK' /\ ResumeWhole' /\ \A q \in Put : PutFits(put'[q], base')
<1>1. BaseTypeOK' /\ ResumeWhole'
  BY DEF PutInv, BaseTypeOK, ResumeWhole
<1>2. \A q \in Put : PutFits(put'[q], base')
  BY DEF PutInv, BaseTypeOK
<1> QED BY <1>1, <1>2

\* What is left of a PUT that has ended.
LEMMA FinishedPut ==
  ASSUME PutInv, NEW p \in Put, NEW out \in PutOutcome, FinishPut(p, out)
  PROVE  \E x \in PutTx : /\ put' = [put EXCEPT ![p] = x]
                          /\ x.pc = "done" /\ x.read = NoBase
<1> DEFINE x == [IdlePut EXCEPT !.pc = "done", !.out = out]
<1>1. x \in PutTx /\ x.pc = "done" /\ x.read = NoBase
  BY DEF IdlePut, PutTx, PutPhase, PutOutcome
<1>2. put' = [put EXCEPT ![p] = x]
  BY DEF FinishPut
<1> HIDE DEF x
<1> QED BY <1>1, <1>2

\* An UPDATE on the row that was read writes the whole body.
LEMMA WritesBody ==
  ASSUME NEW x \in PutTx, x.payload \in Base, x.read \in Base
  PROVE  Written(x, x.read) = x.payload
<1>1. DOMAIN x.read = DOMAIN x.payload
  BY DEF Base
<1>2. \A c \in DOMAIN x.read :
        (IF x.payload[c] = x.read[c] THEN x.read[c] ELSE x.payload[c]) = x.payload[c]
  OBVIOUS
<1>3. x.payload = [c \in DOMAIN x.payload |-> x.payload[c]]
  BY DEF Base
<1> QED BY <1>1, <1>2, <1>3 DEF Written

\* An UPDATE of a row makes a row.
LEMMA WritesRow ==
  ASSUME NEW x \in PutTx, x.payload \in Base, x.read \in Base, NEW row \in Base
  PROVE  Written(x, row) \in Base
BY DEF Written, Base

\* The PUTs' own steps.
LEMMA PutStepInv ==
  ASSUME PutInv, NEW p \in Put,
         \/ PutStep(p) \/ PutRollback(p) \/ \E body \in Body : PutRead(p, body)
  PROVE  BaseTypeOK' /\ ResumeWhole' /\ \A q \in Put : PutFits(put'[q], base')
<1>0. put[p] \in PutTx /\ PutFits(put[p], base) /\ base \in Base \cup {NoBase}
  BY DEF PutInv, BaseTypeOK
<1>1. ASSUME NEW body \in Body, PutRead(p, body)
      PROVE  BaseTypeOK' /\ ResumeWhole' /\ \A q \in Put : PutFits(put'[q], base')
  <2> DEFINE x == [put[p] EXCEPT !.pc = "writing", !.payload = body, !.read = base]
  <2>1. x \in PutTx /\ x.pc = "writing" /\ x.payload \in Base /\ x.read = base
    BY <1>0, BodyAssumption DEF PutTx, PutPhase
  <2>2. put' = [put EXCEPT ![p] = x] /\ UNCHANGED <<base, last>>
    BY <1>1 DEF PutRead
  <2> HIDE DEF x
  <2>3. PutFits(x, base)
    BY <2>1 DEF PutFits
  <2> QED BY <2>1, <2>2, <2>3, PutStays
<1>2. ASSUME NEW out \in PutOutcome, FinishPut(p, out), UNCHANGED <<base, last>>
      PROVE  BaseTypeOK' /\ ResumeWhole' /\ \A q \in Put : PutFits(put'[q], base')
  <2>1. PICK x \in PutTx : /\ put' = [put EXCEPT ![p] = x]
                           /\ x.pc = "done" /\ x.read = NoBase
    BY <1>2, FinishedPut
  <2>2. PutFits(x, base)
    BY <2>1 DEF PutFits
  <2> QED BY <1>2, <2>1, <2>2, PutStays
<1>3. ASSUME NEW pc \in {"inserted", "updated"}, GotoPut(p, pc), put[p].pc = "writing",
             pc = "updated" => put[p].read # NoBase, UNCHANGED <<base, last>>
      PROVE  BaseTypeOK' /\ ResumeWhole' /\ \A q \in Put : PutFits(put'[q], base')
  <2> DEFINE x == [put[p] EXCEPT !.pc = pc]
  <2>1. /\ x \in PutTx /\ x.pc = pc
        /\ x.payload = put[p].payload /\ x.read = put[p].read
    BY <1>0 DEF PutTx, PutPhase
  <2>2. put' = [put EXCEPT ![p] = x]
    BY <1>3 DEF GotoPut
  <2> HIDE DEF x
  <2>3. PutFits(x, base)
    BY <1>0, <1>3, <2>1 DEF PutFits
  <2> QED BY <1>3, <2>1, <2>2, <2>3, PutStays
<1>4. CASE PutInsert(p) \/ PutUpdate(p) \/ PutRollback(p)
  BY <1>2, <1>3, <1>4 DEF PutInsert, PutUpdate, PutRollback, PutOutcome
<1>5. CASE PutCommit(p)
  <2>0. "stored" \in PutOutcome
    BY DEF PutOutcome
  <2>1. PICK x \in PutTx : /\ put' = [put EXCEPT ![p] = x]
                           /\ x.pc = "done" /\ x.read = NoBase
    BY <1>5, <2>0, FinishedPut DEF PutCommit
  <2>2. put[p].payload \in Base
    BY <1>0, <1>5 DEF PutCommit, PutFits
  <2>3. base' \in Base /\ (put[p].read = base => base' = put[p].payload)
    <3>1. CASE put[p].pc = "inserted"
      BY <1>5, <2>2, <3>1 DEF PutCommit
    <3>2. CASE put[p].pc = "updated"
      <4>1. put[p].read \in Base /\ base \in Base
        BY <1>0, <3>2 DEF PutFits, PutTx
      <4>2. base' = Written(put[p], base)
        BY <1>5, <3>2 DEF PutCommit
      <4>3. base' \in Base
        BY <1>0, <2>2, <4>1, <4>2, WritesRow
      <4>4. put[p].read = base => base' = put[p].payload
        BY <1>0, <2>2, <4>1, <4>2, WritesBody
      <4> QED BY <4>3, <4>4
    <3> QED BY <1>5, <3>1, <3>2 DEF PutCommit
  <2>4. last' = IF put[p].read = base THEN put[p].payload ELSE NoBase
    BY <1>5 DEF PutCommit
  <2>5. BaseTypeOK' /\ ResumeWhole'
    BY <2>1, <2>2, <2>3, <2>4 DEF PutInv, BaseTypeOK, ResumeWhole
  <2>6. \A q \in Put : PutFits(put'[q], base')
    BY <2>1, <2>3, NoBaseAssumption DEF PutInv, BaseTypeOK, PutFits
  <2> QED BY <2>5, <2>6
<1> QED BY <1>1, <1>4, <1>5 DEF PutStep

\* The steps of the tailoring requests leave the PUTs alone.
LEMMA RequestsApart ==
  ASSUME NEW r \in Req, Ask(r) \/ Serve(r) \/ EndEarly(r)
  PROVE  UNCHANGED <<baseVars, others>>
<1>1. CASE Ask(r)
  BY <1>1 DEF Ask, Arrive
<1>2. CASE Prompt(r)
  BY <1>2 DEF Prompt, LoadBase
<1>3. CASE Elsewhere(r)
  <2>1. CASE AuditLayer(r)
    BY <1>3, <2>1 DEF Elsewhere, AuditLayer, AuditConnect, AuditTimeout, AuditCommit,
       AuditFail, AttachConnect, AttachTimeout, Attach, AttachFail
  <2>2. CASE ~AuditLayer(r)
    BY <1>3, <2>2 DEF Elsewhere, Connect, ConnectTimeout, Stamp, LogApplication, Commit,
       CallLLM
  <2> QED BY <2>1, <2>2
<1>4. CASE EndEarly(r)
  BY <1>4 DEF EndEarly, Refuse, Rollback
<1> QED BY <1>1, <1>2, <1>3, <1>4 DEF Serve

\* A step of a PUT takes one connection more, or none.
LEMMA PuttingCounted ==
  ASSUME PutInv, NEW p \in Put,
         \/ PutBegin(p) \/ PutGo(p) \/ PutFail(p)
  PROVE  /\ others' = Cardinality(Putting')
         /\ others' \in Nat
         /\ others' <= others \/ (Available /\ others' <= others + 1)
<1>1. IsFiniteSet(Putting) /\ IsFiniteSet(Putting')
  BY PutAssumption, FS_Subset DEF Putting
<1>2. Cardinality(Putting) \in Nat /\ Cardinality(Putting') \in Nat
  BY <1>1, FS_CardinalityType
<1>3. others' = Cardinality(Putting')
  BY DEF PutBegin, PutGo, PutFail, Pooled
<1>4. ASSUME PutBegin(p) PROVE Available /\ others' <= others + 1
  <2>1. Putting' \subseteq Putting \cup {p}
    BY <1>4 DEF PutBegin, PutRead, Putting, PutInv, BaseTypeOK
  <2>2. /\ IsFiniteSet(Putting \cup {p})
        /\ Cardinality(Putting \cup {p})
             = IF p \in Putting THEN Cardinality(Putting) ELSE Cardinality(Putting) + 1
    BY <1>1, FS_AddElement
  <2>3. Cardinality(Putting') <= Cardinality(Putting \cup {p})
    BY <2>1, <2>2, FS_Subset
  <2>4. Cardinality(Putting \cup {p}) \in Nat
    BY <2>2, FS_CardinalityType
  <2>5. Cardinality(Putting') <= Cardinality(Putting) + 1
    BY <1>2, <2>2, <2>3, <2>4
  <2> QED BY <1>3, <1>4, <2>5 DEF PutBegin, PutInv
<1>5. ASSUME PutGo(p) \/ PutFail(p) PROVE others' <= others
  <2>1. p \in Putting
    BY <1>5 DEF PutGo, PutFail, PutStep, PutInsert, PutUpdate, PutCommit, PutRollback,
       Putting, PutPhase
  <2>2. \A q \in Put \ {p} : put'[q] = put[q]
    BY <1>5 DEF PutGo, PutFail, PutStep, PutInsert, PutUpdate, PutCommit, PutRollback,
       GotoPut, FinishPut, PutInv, BaseTypeOK
  <2>3. Putting' \subseteq Putting
    BY <2>1, <2>2 DEF Putting
  <2>4. Cardinality(Putting') <= Cardinality(Putting)
    BY <1>1, <2>3, FS_Subset
  <2> QED BY <1>3, <2>4 DEF PutInv
<1> QED BY <1>2, <1>3, <1>4, <1>5

\* The connections of the tailoring requests are counted by a natural number.
LEMMA InUseNat == InUse \in Nat
BY Countable DEF InUse, OneConnection, TwoConnections

\* Every step keeps what the PUTs rely on.
LEMMA PutNextInv == PutInv /\ [TailoringNext]_tailoringVars => PutInv'
<1> SUFFICES ASSUME PutInv, [TailoringNext]_tailoringVars PROVE PutInv'
  OBVIOUS
<1>1. ASSUME UNCHANGED <<baseVars, others>> PROVE PutInv'
  <2>1. BaseTypeOK' /\ ResumeWhole' /\ \A p \in Put : PutFits(put'[p], base')
    BY <1>1 DEF PutInv, baseVars, BaseTypeOK, ResumeWhole
  <2>2. Putting' = Putting
    BY <1>1 DEF baseVars, Putting
  <2> QED BY <1>1, <2>1, <2>2 DEF PutInv
<1>2. ASSUME NEW p \in Put, PutBegin(p) \/ PutGo(p) \/ PutFail(p) PROVE PutInv'
  <2>1. BaseTypeOK' /\ ResumeWhole' /\ \A q \in Put : PutFits(put'[q], base')
    BY <1>2, PutStepInv DEF PutBegin, PutGo, PutFail
  <2>2. /\ others' = Cardinality(Putting') /\ others' \in Nat
        /\ others' <= others \/ (Available /\ others' <= others + 1)
    BY <1>2, PuttingCounted
  <2>3. others' <= PoolSize
    <3>1. others \in Nat /\ others <= PoolSize
      <4>1. IsFiniteSet(Putting)
        BY PutAssumption, FS_Subset DEF Putting
      <4> QED BY <4>1, FS_CardinalityType DEF PutInv
    <3>2. CASE others' <= others
      BY <2>2, <3>1, <3>2, PoolAssumption
    <3>3. CASE Available /\ others' <= others + 1
      BY <2>2, <3>1, <3>3, InUseNat, PoolAssumption DEF Available
    <3> QED BY <2>2, <3>2, <3>3
  <2> QED BY <2>1, <2>2, <2>3 DEF PutInv
<1> QED BY <1>1, <1>2, RequestsApart DEF TailoringNext, tailoringVars, vars, Over

\* At first nothing is stored, and nobody stores anything.
LEMMA PutInitInv == TailoringInit => PutInv
<1> SUFFICES ASSUME TailoringInit PROVE PutInv
  OBVIOUS
<1>1. IdlePut \in PutTx /\ IdlePut.pc = "idle" /\ IdlePut.read = NoBase
  BY DEF IdlePut, PutTx, PutPhase, PutOutcome
<1>2. base = NoBase /\ last = NoBase /\ put = [p \in Put |-> IdlePut] /\ others = 0
  BY DEF TailoringInit, Init, BaseInit
<1>3. Putting = {}
  BY <1>1, <1>2 DEF Putting, PutPhase
<1>4. Cardinality({}) = 0
  BY FS_EmptySet
<1>5. BaseTypeOK /\ ResumeWhole /\ \A p \in Put : PutFits(put[p], base)
  BY <1>1, <1>2 DEF BaseTypeOK, ResumeWhole, PutFits
<1> QED BY <1>2, <1>3, <1>4, <1>5, PoolAssumption DEF PutInv

LEMMA PutInvariance == TailoringSpec => []PutInv
BY PutInitInv, PutNextInv, PTL DEF TailoringSpec

\* Whatever PUTs overlap, and whoever else uses the pool, the stored résumé is
\* one body as it was put last, unless that PUT had read another row.
THEOREM ResumeIsWhole == TailoringSpec => []ResumeWhole
<1>1. PutInv => ResumeWhole
  BY DEF PutInv
<1> QED BY <1>1, PutInvariance, PTL

-----------------------------------------------------------------------------
(* Generation and BaseResume, implemented *)

\* A step of a PUT is a step of the rest of the service, for Generation.
LEMMA PutsAreOthers ==
  ASSUME PutInv, PutInv', NEW p \in Put, PutBegin(p) \/ PutGo(p) \/ PutFail(p)
  PROVE  [Next]_vars
<1>1. UNCHANGED <<tx, audit, apps>>
  BY DEF PutBegin, PutGo, PutFail, Pooled
<1>2. /\ others' \in Nat
      /\ others' <= others \/ (Available /\ others' <= others + 1)
  BY PuttingCounted
<1>3. others' <= PoolSize
  BY DEF PutInv
<1>4. others \in Nat
  <2>1. IsFiniteSet(Putting)
    BY PutAssumption, FS_Subset DEF Putting
  <2> QED BY <2>1, FS_CardinalityType DEF PutInv
<1>5. others' \in 0..PoolSize
  BY <1>2, <1>3, PoolAssumption
<1>6. CASE others' = others
  BY <1>1, <1>6 DEF vars
<1>7. CASE others' # others
  <2>1. others' < others \/ InUse + others' <= PoolSize
    <3>1. CASE others' <= others
      BY <1>2, <1>4, <1>7, <3>1
    <3>2. CASE Available /\ others' <= others + 1
      <4> DEFINE i == InUse
                 m == others
                 n == others'
      <4>1. i \in Nat /\ m \in Nat /\ n \in Nat /\ PoolSize \in Nat
        BY <1>2, <1>4, InUseNat, PoolAssumption
      <4>2. i + m < PoolSize /\ n <= m + 1
        BY <3>2 DEF Available
      <4> HIDE DEF i, m, n
      <4>3. i + n <= PoolSize
        BY <4>1, <4>2
      <4> QED BY <4>3 DEF i, n
    <3> QED BY <1>2, <3>1, <3>2
  <2>2. OtherRequests
    BY <1>1, <1>5, <1>7, <2>1 DEF OtherRequests
  <2> QED BY <2>2 DEF Next
<1> QED BY <1>6, <1>7

\* Each step, seen by either component, is a step of it or none.
LEMMA StepsImplement ==
  PutInv /\ PutInv' /\ [TailoringNext]_tailoringVars => [Next]_vars /\ [PutNext]_baseVars
<1> SUFFICES ASSUME PutInv, PutInv', [TailoringNext]_tailoringVars
             PROVE  [Next]_vars /\ [PutNext]_baseVars
  OBVIOUS
<1>1. ASSUME NEW r \in Req, Ask(r) \/ Serve(r) \/ EndEarly(r)
      PROVE  [Next]_vars /\ [PutNext]_baseVars
  <2>1. UNCHANGED baseVars
    BY <1>1, RequestsApart
  <2>2. CASE Ask(r)
    BY <2>1, <2>2 DEF Ask, Next
  <2>3. CASE Serve(r)
    <3>1. Step(r)
      BY <2>3 DEF Serve, Prompt, Elsewhere, Step, Session
    <3> QED BY <2>1, <3>1 DEF Next
  <2>4. CASE EndEarly(r)
    BY <2>1, <2>4 DEF EndEarly, Next
  <2> QED BY <1>1, <2>2, <2>3, <2>4
<1>2. ASSUME NEW p \in Put, PutBegin(p) \/ PutGo(p) \/ PutFail(p)
      PROVE  [Next]_vars /\ [PutNext]_baseVars
  <2>1. [Next]_vars
    BY <1>2, PutsAreOthers
  <2>2. PutNext
    BY <1>2 DEF PutBegin, PutGo, PutFail, PutNext
  <2> QED BY <2>1, <2>2
<1>3. CASE UNCHANGED tailoringVars
  BY <1>3 DEF tailoringVars
<1> QED BY <1>1, <1>2, <1>3 DEF TailoringNext, Over

\* The composition implements both components: next to PUTs that share its pool
\* and write what it reads, a tailoring request does nothing that Generation does
\* not, and the PUTs nothing that BaseResume does not.
THEOREM Implements == TailoringSpec => Spec /\ BaseSpec
<1>1. TailoringInit => Init /\ BaseInit
  BY DEF TailoringInit
<1> QED BY <1>1, StepsImplement, PutInvariance, PTL DEF TailoringSpec, Spec, BaseSpec

\* So the audit log is truthful and the pool is bounded here, too.
THEOREM GeneratorKeepsItsPromises ==
  TailoringSpec => []TypeOK /\ []AuditTruthful /\ []PoolBound
BY Implements, TypeCorrect, AuditIsTruthful, PoolIsBounded, PTL

-----------------------------------------------------------------------------
(* What a résumé is tailored from *)

Early == {"idle", "connecting", "stamping", "loading"}

FreshInv ==
    /\ from \in [Req -> Text \cup {NoText}]
    /\ fresh \in [Req -> SUBSET Text]
    /\ TailoredFromStored
    /\ \A r \in Req : Expects(r) => TextOf(base) \subseteq fresh[r]
    /\ \A r \in Req : tx[r].pc \in Early => from[r] = NoText

\* A request's step does not take it back before its reading of the base résumé.
LEMMA NeverBack ==
  ASSUME TypeOK, NEW r \in Req, Elsewhere(r) \/ EndEarly(r) \/ LoadBase(r)
  PROVE  /\ \A s \in Req \ {r} : tx'[s] = tx[s]
         /\ tx'[r].kind = tx[r].kind
         /\ tx'[r].pc \in Early => tx[r].pc \in Early
         /\ tx[r].pc # "idle"
<1> USE DEF Early
<1>0. tx[r] \in Tx /\ tx \in [Req -> Tx]
  BY DEF TypeOK
<1> DEFINE Good == /\ \A s \in Req \ {r} : tx'[s] = tx[s]
                   /\ tx'[r].kind = tx[r].kind
                   /\ tx'[r].pc \in Early => tx[r].pc \in Early
<1>1. ASSUME NEW pc, Move(r, pc), pc \in Early => tx[r].pc \in Early PROVE Good
  BY <1>0, <1>1 DEF Move, Tx
<1>2. ASSUME NEW o, Finish(r, o) PROVE Good
  BY <1>0, <1>2 DEF Finish, Ended, Tx
<1>3. ASSUME Begin(r), tx[r].pc \in Early PROVE Good
  BY <1>1, <1>3 DEF Begin
<1>4. ASSUME NEW w, Audited(r, w) PROVE Good
  <2>1. CASE tx[r].tailored = "success" /\ tx[r].kind = "from_jd"
    BY <1>0, <1>4, <2>1 DEF Audited, Tx
  <2> QED BY <1>2, <1>4, <2>1 DEF Audited
<1>5. CASE AuditLayer(r)
  BY <1>1, <1>4, <1>5 DEF AuditLayer, AuditConnect, AuditTimeout, AuditCommit,
     AuditFail, AttachConnect, AttachTimeout, Attach, AttachFail
<1>6. ASSUME NEW result \in Tailored, CallLLM(r, result) PROVE Good
  BY <1>0, <1>6 DEF CallLLM, Ended, Tx
<1>7. CASE Connect(r) \/ ConnectTimeout(r) \/ Stamp(r) \/ LogApplication(r) \/ Commit(r)
  BY <1>1, <1>2, <1>3, <1>7 DEF Connect, ConnectTimeout, Stamp, LogApplication, Commit
<1>8. CASE EndEarly(r) \/ LoadBase(r)
  BY <1>1, <1>2, <1>8 DEF EndEarly, Refuse, Rollback, LoadBase
<1>9. tx[r].pc # "idle"
  BY DEF Elsewhere, EndEarly, LoadBase, Refuse, Rollback, Connect, ConnectTimeout,
     Stamp, LogApplication, Commit, CallLLM, AuditLayer, AuditConnect, AuditTimeout,
     AuditCommit, AuditFail, AttachConnect, AttachTimeout, Attach, AttachFail
<1> QED BY <1>5, <1>6, <1>7, <1>8, <1>9 DEF Elsewhere

\* A step of a request that is not its reading.
LEMMA KeepInv ==
  ASSUME FreshInv, TypeOK, NEW r \in Req, Elsewhere(r) \/ EndEarly(r) \/ LoadBase(r),
         Keep(r), UNCHANGED base
  PROVE  FreshInv'
<1>1. /\ \A s \in Req \ {r} : tx'[s] = tx[s]
      /\ tx'[r].kind = tx[r].kind
      /\ tx'[r].pc \in Early => tx[r].pc \in Early \ {"idle"}
  BY NeverBack
<1>2. \A s \in Req : Expects(s)' => Expects(s) /\ tx'[s].pc # "done"
  BY <1>1 DEF Expects, Early, TypeOK, Tx
<1>3. CASE tx'[r].pc = "done"
  <2>1. /\ from' = [from EXCEPT ![r] = NoText]
        /\ fresh' = [fresh EXCEPT ![r] = {}]
    BY <1>3 DEF Keep
  <2>2. \A s \in Req : Expects(s)' => s # r
    BY <1>2, <1>3
  <2> QED BY <1>1, <1>2, <1>3, <2>1, <2>2 DEF FreshInv, TailoredFromStored, Early
<1>4. CASE tx'[r].pc # "done"
  <2>1. UNCHANGED <<from, fresh>>
    BY <1>4 DEF Keep
  <2> QED BY <1>1, <1>2, <2>1 DEF FreshInv, TailoredFromStored
<1> QED BY <1>3, <1>4

\* Every step keeps the texts that were stored since a request arrived.
LEMMA FreshNextInv ==
  FreshInv /\ Inv /\ PutInv /\ PutInv' /\ [TailoringNext]_tailoringVars => FreshInv'
<1> SUFFICES ASSUME FreshInv, Inv, PutInv, PutInv', [TailoringNext]_tailoringVars
             PROVE  FreshInv'
  OBVIOUS
<1>0. /\ TypeOK /\ base \in Base \cup {NoBase} /\ base' \in Base \cup {NoBase}
      /\ TextOf(base) \subseteq Text /\ TextOf(base') \subseteq Text
  BY DEF Inv, PutInv, BaseTypeOK, TextOf, Base
<1>1. ASSUME NEW r \in Req, Ask(r) PROVE FreshInv'
  <2>1. PICK kind \in Kind, token \in Token \cup {NoToken} : Arrive(r, kind, token)
    BY <1>1 DEF Ask
  <2>2. /\ \A s \in Req \ {r} : tx'[s] = tx[s]
        /\ tx[r].pc = "idle" /\ tx'[r].kind = kind
    BY <1>0, <2>1 DEF Arrive, TypeOK, Tx
  <2>3. UNCHANGED <<base, from>>
    BY <1>1 DEF Ask, baseVars
  <2>4. fresh' = IF kind = "structured" THEN fresh
                 ELSE [fresh EXCEPT ![r] = TextOf(base)]
    BY <1>1, <2>2 DEF Ask
  <2>5. from[r] = NoText
    BY <2>2 DEF FreshInv, Early
  <2>6. \A s \in Req : Expects(s)' => (s # r /\ Expects(s)) \/ (s = r /\ kind # "structured")
    BY <2>2 DEF Expects
  <2> QED BY <1>0, <2>2, <2>3, <2>4, <2>5, <2>6 DEF FreshInv, TailoredFromStored
<1>2. ASSUME NEW r \in Req, Prompt(r) PROVE FreshInv'
  <2>1. LoadBase(r) /\ UNCHANGED base
    BY <1>2 DEF Prompt, baseVars
  <2>2. CASE base = NoBase
    BY <1>0, <1>2, <2>1, <2>2, KeepInv DEF Prompt
  <2>3. CASE base # NoBase
    <3>1. from' = [from EXCEPT ![r] = base.raw_text] /\ UNCHANGED fresh
      BY <1>2, <2>3 DEF Prompt
    <3>2. tx'[r].pc = "calling" /\ \A s \in Req \ {r} : tx'[s] = tx[s]
      BY <1>0, <1>2, <2>1, <2>3, NeverBack DEF Prompt
    <3>3. Expects(r)
      BY <2>1 DEF LoadBase, Inv, Fits, Expects
    <3>4. base.raw_text \in fresh[r] /\ base.raw_text \in Text
      BY <1>0, <2>3, <3>3 DEF FreshInv, TextOf
    <3>5. \A s \in Req : Expects(s)' => s # r /\ Expects(s)
      BY <3>2 DEF Expects
    <3> QED BY <2>1, <3>1, <3>2, <3>4, <3>5 DEF FreshInv, TailoredFromStored, Early
  <2> QED BY <2>2, <2>3
<1>3. ASSUME NEW r \in Req, Elsewhere(r) \/ EndEarly(r) PROVE FreshInv'
  <2>1. Keep(r) /\ UNCHANGED base
    BY <1>3 DEF Elsewhere, EndEarly, baseVars
  <2> QED BY <1>0, <1>3, <2>1, KeepInv
<1>4. ASSUME NEW p \in Put, PutBegin(p) \/ PutFail(p) PROVE FreshInv'
  <2>1. UNCHANGED <<tx, from, fresh, base>>
    BY <1>4 DEF PutBegin, PutFail, Pooled, PutRead, PutRollback
  <2> QED BY <2>1 DEF FreshInv, TailoredFromStored, Expects
<1>5. ASSUME NEW p \in Put, PutGo(p) PROVE FreshInv'
  <2>1. UNCHANGED <<tx, from>>
    BY <1>5 DEF PutGo, Pooled
  <2>2. fresh' = [r \in Req |-> IF Expects(r) THEN fresh[r] \cup TextOf(base')
                                ELSE fresh[r]]
    BY <1>5 DEF PutGo
  <2>3. \A r \in Req : Expects(r)' <=> Expects(r)
    BY <2>1 DEF Expects
  <2>4. \A r \in Req : fresh[r] \subseteq fresh'[r] /\ fresh'[r] \in SUBSET Text
    BY <1>0, <2>2 DEF FreshInv
  <2>5. \A r \in Req : Expects(r) => TextOf(base') \subseteq fresh'[r]
    BY <2>2
  <2>6. fresh' \in [Req -> SUBSET Text]
    BY <2>2, <2>4
  <2> QED BY <2>1, <2>3, <2>4, <2>5, <2>6 DEF FreshInv, TailoredFromStored, TextOf
<1>6. CASE UNCHANGED tailoringVars
  BY <1>6 DEF tailoringVars, vars, baseVars, FreshInv, TailoredFromStored, Expects
<1> QED BY <1>1, <1>2, <1>3, <1>4, <1>5, <1>6 DEF TailoringNext, Serve, Over

LEMMA FreshInitInv == TailoringInit => FreshInv
BY DEF TailoringInit, BaseInit, FreshInv, TailoredFromStored, Init, IdleTx, Expects,
       TextOf

\* However PUTs and tailoring requests overlap, a request's prompt holds a text
\* that was stored when it arrived, or was stored after that.
THEOREM PromptsAreFresh == TailoringSpec => []TailoredFromStored
<1>1. FreshInv => TailoredFromStored
  BY DEF FreshInv
<1> QED BY <1>1, FreshInitInv, FreshNextInv, PutInvariance, Implements, Invariance, PTL
    DEF TailoringSpec

\* Every variable of the composition keeps its type.
THEOREM TailoringTypeCorrect == TailoringSpec => []TailoringTypeOK
<1>1. TypeOK /\ PutInv /\ FreshInv => TailoringTypeOK
  BY DEF PutInv, FreshInv, TailoringTypeOK
<1>2. TailoringSpec => []FreshInv
  BY FreshInitInv, FreshNextInv, PutInvariance, Implements, Invariance, PTL
     DEF TailoringSpec
<1> QED BY <1>1, <1>2, PutInvariance, Implements, TypeCorrect, PTL

\* Next to PUTs that take the pool's connections away, too, the audit layer
\* changes no answer.
THEOREM AnswersAreTheResults == TailoringSpec => ResultNotMasked
BY Implements, AuditMasksNothing, PTL
=============================================================================
