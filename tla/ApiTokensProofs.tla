--------------------------- MODULE ApiTokensProofs ---------------------------
(***************************************************************************)
(* What a revocation is worth, for any number of requests, users and       *)
(* tokens.  Only a commit writes api_tokens; every other step concerns one *)
(* request's own transaction, so that it is enough to know that the request *)
(* still fits (Fits) and what a commit does to a row (RowsOnlyGrow).       *)
(***************************************************************************)
EXTENDS ApiTokens, TLAPS

\* What every step but a commit does: it changes one request, not the table.
Local(r) ==
    /\ tokens' = tokens
    /\ tx'[r] \in Tx
    /\ tx' = [tx EXCEPT ![r] = tx'[r]]
    /\ tx'[r].out # "ok"
    /\ Fits(r)'

\* The first values satisfy the invariant.
LEMMA InitInv == Init => Inv
<1> SUFFICES ASSUME Init PROVE Inv
  OBVIOUS
<1>1. \A r \in Req : IdleTx(r) \in Tx
  BY TokenAssumption DEF IdleTx, Tx, Phase, Operation, Outcome
<1>2. TypeOK
  BY <1>1, SeedAssumption DEF Init, TypeOK
<1>3. \A r \in Req : Fits(r)
  BY SeedAssumption DEF Init, Fits, IdleTx, KnowsBearer, KnowsTarget
<1>4. RevokedForGood
  BY DEF Init, RevokedForGood, IdleTx
<1> QED
  BY <1>2, <1>3, <1>4 DEF Inv

\* A request that ends without a commit is in order: nothing is left of it.
LEMMA FinishLocal ==
  ASSUME Inv, NEW r \in Req, NEW out \in Outcome, out # "ok",
         Finish(r, out), tokens' = tokens
  PROVE  Local(r)
<1>1. tx[r] \in Tx /\ tx \in [Req -> Tx]
  BY DEF Inv, TypeOK
<1>2. tx'[r] = [IdleTx(r) EXCEPT !.pc = "done", !.op = tx[r].op,
                   !.owner = tx[r].owner, !.target = tx[r].target, !.out = out]
  BY <1>1 DEF Finish
<1>3. tx'[r] \in Tx
  BY <1>1, <1>2, TokenAssumption DEF IdleTx, Tx, Phase, Operation, Outcome
<1>4. tx' = [tx EXCEPT ![r] = tx'[r]]
  BY <1>1, <1>2 DEF Finish
<1>5. Fits(r)'
  BY <1>2, <1>3 DEF Fits, KnowsBearer, KnowsTarget, IdleTx
<1> QED
  BY <1>2, <1>3, <1>4, <1>5 DEF Local, IdleTx

\* A step that is local to a request keeps the invariant.
LEMMA LocalInv ==
  ASSUME Inv, NEW r \in Req, Local(r), expired' \subseteq Token, active' \subseteq User
  PROVE  Inv'
<1>1. TypeOK'
  BY DEF Inv, TypeOK, Local
<1>2. \A s \in Req : s # r => tx'[s] = tx[s]
  BY DEF Inv, TypeOK, Local
<1>3. \A s \in Req : Fits(s)'
  BY <1>2 DEF Inv, Local, Fits, KnowsBearer, KnowsTarget
<1>4. RevokedForGood'
  BY <1>2 DEF Inv, Local, RevokedForGood
<1> QED
  BY <1>1, <1>3, <1>4 DEF Inv

\* Arrivals are local.
LEMMA ArriveLocal ==
  ASSUME Inv, NEW r \in Req, Arrive(r)
  PROVE  Local(r) /\ UNCHANGED <<expired, active>>
<1>1. PICK op \in Operation, target \in Token :
         \/ \E t \in Token : ArriveBearer(r, t, op, target)
         \/ \E u \in User : ArriveSession(r, u, op, target)
  BY DEF Arrive
<1>2. tx[r] \in Tx /\ tx \in [Req -> Tx] /\ Fits(r) /\ tx[r].pc = "idle"
  BY <1>1 DEF Inv, TypeOK, ArriveBearer, ArriveSession
<1>3. "unauthorized" \in Outcome
  BY DEF Outcome
<1>4. CASE \E t \in Token : ArriveBearer(r, t, op, target)
  <2>1. PICK t \in Token : ArriveBearer(r, t, op, target)
    BY <1>4
  <2>2. CASE Valid(t)
    <3>1. tx'[r] = [tx[r] EXCEPT !.pc = "stamping", !.op = op, !.bearer = t,
                      !.row = tokens[t], !.owner = tokens[t].owner, !.target = target]
      BY <1>2, <2>1, <2>2 DEF ArriveBearer
    <3>2. tokens[t] \in Row /\ ~tokens[t].revoked
      BY <2>2 DEF Valid, Inv, TypeOK
    <3>3. tx'[r] \in Tx
      BY <1>2, <3>1, <3>2 DEF Tx, Phase, Row
    <3>4. tx' = [tx EXCEPT ![r] = tx'[r]] /\ tokens' = tokens
      BY <1>2, <2>1, <2>2 DEF ArriveBearer
    <3>5. Fits(r)'
      BY <1>2, <3>1, <3>2, <3>4, TokenAssumption DEF Fits, KnowsBearer, KnowsTarget, Row, Tx
    <3> QED
      BY <1>2, <2>1, <3>1, <3>3, <3>4, <3>5 DEF Local, Fits, ArriveBearer, Tx
  <2>3. CASE ~Valid(t)
    BY <1>3, <2>1, <2>3, FinishLocal DEF ArriveBearer
  <2> QED
    BY <2>2, <2>3
<1>5. CASE \E u \in User : ArriveSession(r, u, op, target)
  <2>1. PICK u \in User : ArriveSession(r, u, op, target)
    BY <1>5
  <2>2. CASE u \in active
    <3>1. tx'[r] = [tx[r] EXCEPT !.pc = "serving", !.op = op, !.owner = u,
                                 !.target = target]
      BY <1>2, <2>1, <2>2 DEF ArriveSession
    <3>2. tx'[r] \in Tx
      BY <1>2, <3>1 DEF Tx, Phase
    <3>3. tx' = [tx EXCEPT ![r] = tx'[r]] /\ tokens' = tokens
      BY <1>2, <2>1, <2>2 DEF ArriveSession
    <3> QED
      BY <1>2, <2>1, <3>1, <3>2, <3>3 DEF Local, Fits, KnowsBearer, KnowsTarget,
         ArriveSession, Tx
  <2>3. CASE u \notin active
    BY <1>3, <2>1, <2>3, FinishLocal DEF ArriveSession
  <2> QED
    BY <2>2, <2>3
<1> QED
  BY <1>1, <1>4, <1>5

\* So are the steps of a request up to its commit.
LEMMA StepLocal ==
  ASSUME Inv, NEW r \in Req, Step(r), ~Commit(r)
  PROVE  Local(r) /\ UNCHANGED <<expired, active>>
<1>1. tx[r] \in Tx /\ tx \in [Req -> Tx] /\ Fits(r)
  BY DEF Inv, TypeOK
<1>2. tokens \in [Token -> Row \cup {NoToken}]
  BY DEF Inv, TypeOK
<1>3. "notfound" \in Outcome /\ "failed" \in Outcome
  BY DEF Outcome
<1>4. ASSUME NEW pc \in Phase, tx' = [tx EXCEPT ![r].pc = pc]
      PROVE  /\ tx'[r] = [tx[r] EXCEPT !.pc = pc]
             /\ tx'[r] \in Tx
             /\ tx' = [tx EXCEPT ![r] = tx'[r]]
  BY <1>1, <1>4 DEF Tx
<1>5. CASE Stamp(r)
  <2>1. tx'[r] = [tx[r] EXCEPT !.pc = "serving", !.stamps = TRUE]
    BY <1>1, <1>5 DEF Stamp, Tx
  <2>2. tx'[r] \in Tx /\ tx' = [tx EXCEPT ![r] = tx'[r]]
    BY <1>1, <1>5, <2>1 DEF Stamp, Tx, Phase
  <2>3. Fits(r)'
    BY <1>1, <1>5, <2>1 DEF Stamp, Fits, KnowsBearer, KnowsTarget, Tx
  <2> QED
    BY <1>1, <1>5, <2>1, <2>2, <2>3 DEF Stamp, Local, Fits, Tx
<1>6. CASE Serve(r)
  <2>1. /\ tx'[r] = [tx[r] EXCEPT !.pc = "flushed"]
        /\ tx'[r] \in Tx
        /\ tx' = [tx EXCEPT ![r] = tx'[r]]
    BY <1>4, <1>6 DEF Serve, Phase
  <2> QED
    BY <1>1, <1>6, <2>1 DEF Serve, Local, Fits, KnowsBearer, KnowsTarget, Tx
<1>7. ASSUME NEW expires \in BOOLEAN, Mint(r, expires)
      PROVE  Local(r) /\ UNCHANGED <<expired, active>>
  <2>1. tx'[r] = [tx[r] EXCEPT !.pc = "flushed",
                               !.mints = NewToken(tx[r].owner, expires)]
    BY <1>1, <1>7 DEF Mint, Tx
  <2>2. NewToken(tx[r].owner, expires) \in Row
    BY <1>1, <1>7 DEF Mint, NewToken, Fits, Row
  <2>3. tx'[r] \in Tx
    BY <1>1, <2>1, <2>2 DEF Tx, Phase
  <2>4. tx' = [tx EXCEPT ![r] = tx'[r]]
    BY <1>1, <1>7, <2>1 DEF Mint, Tx
  <2>5. Fits(r)'
    BY <1>1, <1>7, <2>1 DEF Mint, Fits, KnowsBearer, KnowsTarget, Tx
  <2> QED
    BY <1>1, <1>7, <2>1, <2>3, <2>4, <2>5 DEF Mint, Local, Fits, Tx
<1>8. CASE RevokeMissing(r)
  BY <1>3, <1>8, FinishLocal DEF RevokeMissing
<1>9. CASE RevokeRead(r)
  <2> DEFINE pc == IF Known(r, tx[r].target).revoked THEN "flushed" ELSE "revoking"
  <2>1. /\ tx'[r] = [tx[r] EXCEPT !.pc = pc]
        /\ tx'[r] \in Tx
        /\ tx' = [tx EXCEPT ![r] = tx'[r]]
    BY <1>4, <1>9 DEF RevokeRead, Phase
  <2>2. /\ tokens[tx[r].target] # NoToken
        /\ tokens[tx[r].target].owner = tx[r].owner
    BY <1>1, <1>9, TokenAssumption DEF RevokeRead, Found, Known, Fits, KnowsBearer, Tx
  <2>3. Known(r, tx[r].target).revoked => tokens[tx[r].target].revoked
    BY <1>1, <1>9, TokenAssumption DEF RevokeRead, Known, Fits, KnowsBearer, Tx
  <2>4. Fits(r)'
    BY <1>1, <1>9, <2>1, <2>2, <2>3 DEF RevokeRead, Fits, KnowsBearer, KnowsTarget, Tx
  <2> QED
    BY <1>1, <1>9, <2>1, <2>4 DEF RevokeRead, Local, Fits, Tx
<1>10. CASE RevokeFlush(r)
  <2>1. tx'[r] = [tx[r] EXCEPT !.pc = "flushed", !.revokes = TRUE]
    BY <1>1, <1>10 DEF RevokeFlush, Tx
  <2>2. tx'[r] \in Tx /\ tx' = [tx EXCEPT ![r] = tx'[r]]
    BY <1>1, <1>10, <2>1 DEF RevokeFlush, Tx, Phase
  <2>3. Fits(r)'
    BY <1>1, <1>10, <2>1 DEF RevokeFlush, Fits, KnowsBearer, KnowsTarget, Tx
  <2> QED
    BY <1>1, <1>10, <2>1, <2>2, <2>3 DEF RevokeFlush, Local, Fits, Tx
<1>11. CASE DeadlockAbort(r)
  BY <1>3, <1>11, FinishLocal DEF DeadlockAbort
<1> QED
  BY <1>5, <1>6, <1>7, <1>8, <1>9, <1>10, <1>11 DEF Step

\* What a commit makes of a row: it stays, with its owner, and stays revoked;
\* and it is revoked only by a request that acts for its owner.
LEMMA RowsOnlyGrow ==
  ASSUME Inv, NEW r \in Req, Commit(r), NEW t \in Token, tokens[t] # NoToken
  PROVE  /\ tokens'[t] \in Row
         /\ tokens'[t].owner = tokens[t].owner
         /\ tokens[t].revoked => tokens'[t].revoked
         /\ tokens'[t].revoked /\ ~tokens[t].revoked => tx[r].owner = tokens[t].owner
<1> DEFINE row == IF tx[r].stamps /\ t = tx[r].bearer THEN Stamped(r, t) ELSE tokens[t]
<1>1. tokens[t] \in Row /\ tx[r] \in Tx /\ Fits(r) /\ tx[r].pc = "flushed"
  BY DEF Inv, TypeOK, Commit
<1>2. row \in Row /\ row.owner = tokens[t].owner /\ row.revoked = tokens[t].revoked
  BY <1>1 DEF Stamped, Row
<1>3. t # r \/ tx[r].mints = NoToken
  BY <1>1 DEF Fits
<1>4. tokens'[t] = IF tx[r].revokes /\ t = tx[r].target
                   THEN [row EXCEPT !.revoked = TRUE] ELSE row
  BY <1>3 DEF Commit, Written
<1>5. tx[r].revokes => tx[r].owner = tokens[tx[r].target].owner
  BY <1>1 DEF Fits, KnowsTarget
<1> QED
  BY <1>2, <1>4, <1>5 DEF Row

\* A commit keeps the invariant.
LEMMA CommitInv ==
  ASSUME Inv, NEW r \in Req, Commit(r)
  PROVE  Inv'
<1>1. tx[r] \in Tx /\ tx \in [Req -> Tx] /\ Fits(r) /\ tx[r].pc = "flushed"
  BY DEF Inv, TypeOK, Commit
<1>2. tx'[r] = [IdleTx(r) EXCEPT !.pc = "done", !.op = tx[r].op,
                   !.owner = tx[r].owner, !.target = tx[r].target, !.out = "ok"]
  BY <1>1 DEF Commit, Finish
<1>3. tx'[r] \in Tx
  BY <1>1, <1>2, TokenAssumption DEF IdleTx, Tx, Phase, Operation, Outcome
<1>4. \A s \in Req : s # r => tx'[s] = tx[s]
  BY <1>1 DEF Commit, Finish
<1>5. \A t \in Token : tokens'[t] \in Row \cup {NoToken}
  <2> TAKE t \in Token
  <2>1. CASE tokens[t] # NoToken
    BY <2>1, RowsOnlyGrow
  <2>2. CASE tokens[t] = NoToken
    <3>1. ~(tx[r].stamps /\ t = tx[r].bearer)
      BY <1>1, <2>2 DEF Fits, KnowsBearer
    <3>2. ~(tx[r].revokes /\ t = tx[r].target)
      BY <1>1, <2>2 DEF Fits, KnowsTarget
    <3>3. tokens'[t] \in {tx[r].mints, tokens[t]}
      BY <3>1, <3>2 DEF Commit, Written
    <3> QED
      BY <1>1, <2>2, <3>3 DEF Tx
  <2> QED
    BY <2>1, <2>2
<1>6. TypeOK'
  <2>1. tokens' \in [Token -> Row \cup {NoToken}]
    BY <1>5 DEF Commit
  <2>2. tx' \in [Req -> Tx]
    BY <1>1, <1>3 DEF Commit, Finish, IdleTx
  <2> QED
    BY <2>1, <2>2 DEF Inv, TypeOK, Commit
<1>7. \A t \in Token : t # r /\ tokens[t] = NoToken => tokens'[t] = NoToken
  <2> SUFFICES ASSUME NEW t \in Token, t # r, tokens[t] = NoToken
               PROVE  tokens'[t] = NoToken
    OBVIOUS
  <2>1. ~(tx[r].stamps /\ t = tx[r].bearer)
    BY <1>1 DEF Fits, KnowsBearer
  <2>2. ~(tx[r].revokes /\ t = tx[r].target)
    BY <1>1 DEF Fits, KnowsTarget
  <2> QED
    BY <2>1, <2>2 DEF Commit, Written
<1>8. \A s \in Req : Fits(s)'
  <2> TAKE s \in Req
  <2>1. CASE s = r
    BY <1>2, <1>3, <2>1 DEF Fits, KnowsBearer, KnowsTarget, IdleTx
  <2>2. CASE s # r
    <3>1. tx'[s] = tx[s] /\ tx[s] \in Tx /\ Fits(s)
      BY <1>1, <1>4, <2>2 DEF Inv
    <3>2. KnowsBearer(tx[s])'
      BY <3>1, RowsOnlyGrow, TokenAssumption DEF Fits, KnowsBearer, Tx
    <3>3. KnowsTarget(tx[s])'
      BY <3>1, RowsOnlyGrow, TokenAssumption DEF Fits, KnowsTarget, Tx
    <3>4. tokens[s] = NoToken => tokens'[s] = NoToken
      BY <1>7, <2>2, TokenAssumption
    <3> QED
      BY <3>1, <3>2, <3>3, <3>4 DEF Fits
  <2> QED
    BY <2>1, <2>2
<1>9. RevokedForGood'
  <2> SUFFICES ASSUME NEW s \in Req, tx'[s].op = "revoke", tx'[s].out = "ok"
               PROVE  tokens'[tx'[s].target] # NoToken /\ tokens'[tx'[s].target].revoked
    BY DEF RevokedForGood
  <2>1. CASE s = r
    <3>1. /\ tx[r].op = "revoke" /\ tx'[r].target = tx[r].target
          /\ tx[r].target \in Token
      BY <1>1, <1>2, <2>1 DEF IdleTx, Tx
    <3>2. /\ tokens[tx[r].target] # NoToken
          /\ tx[r].revokes \/ tokens[tx[r].target].revoked
      BY <1>1, <3>1 DEF Fits, KnowsTarget
    <3>3. tokens'[tx[r].target] \in Row
      BY <3>1, <3>2, RowsOnlyGrow
    <3>4. CASE tokens[tx[r].target].revoked
      BY <2>1, <3>1, <3>2, <3>3, <3>4, RowsOnlyGrow, TokenAssumption
    <3>5. CASE tx[r].revokes
      <4> DEFINE row == IF tx[r].stamps /\ tx[r].target = tx[r].bearer
                        THEN Stamped(r, tx[r].target) ELSE tokens[tx[r].target]
      <4>1. tokens'[tx[r].target] = [row EXCEPT !.revoked = TRUE]
        BY <3>1, <3>5 DEF Commit, Written
      <4>2. tokens[tx[r].target] \in Row
        BY <3>1, <3>2 DEF Inv, TypeOK
      <4>3. row \in Row
        BY <4>2 DEF Stamped, Row
      <4>4. tokens'[tx[r].target].revoked
        BY <4>1, <4>3 DEF Row
      <4> QED
        BY <2>1, <3>1, <3>3, <4>4, TokenAssumption
    <3> QED
      BY <3>2, <3>4, <3>5
  <2>2. CASE s # r
    <3>1. /\ tx'[s] = tx[s] /\ tx[s].target \in Token
          /\ tokens[tx[s].target] # NoToken /\ tokens[tx[s].target].revoked
      BY <1>1, <1>4, <2>2 DEF Inv, RevokedForGood, Tx
    <3> QED
      BY <3>1, RowsOnlyGrow, TokenAssumption
  <2> QED
    BY <2>1, <2>2
<1> QED
  BY <1>6, <1>8, <1>9 DEF Inv

\* The steps that are not a commit leave the table, and keep the invariant.
LEMMA OtherInv ==
  ASSUME Inv, [Next]_vars, \A r \in Req : ~Commit(r)
  PROVE  Inv' /\ tokens' = tokens
<1>1. ASSUME NEW r \in Req, Arrive(r) \/ Step(r)
      PROVE  Inv' /\ tokens' = tokens
  <2>1. Local(r) /\ UNCHANGED <<expired, active>>
    BY <1>1, ArriveLocal, StepLocal
  <2> QED
    BY <2>1, LocalInv DEF Local, Inv, TypeOK
<1>2. ASSUME NEW r \in Req, Rollback(r)
      PROVE  Inv' /\ tokens' = tokens
  <2>1. Local(r) /\ UNCHANGED <<expired, active>>
    BY <1>2, FinishLocal DEF Rollback, Outcome
  <2> QED
    BY <2>1, LocalInv DEF Local, Inv, TypeOK
<1>3. ASSUME NEW u \in User, SetActive(u)
      PROVE  Inv' /\ tokens' = tokens
  BY <1>3 DEF SetActive, Inv, TypeOK, Fits, KnowsBearer, KnowsTarget, RevokedForGood
<1>4. ASSUME NEW t \in Token, Expire(t)
      PROVE  Inv' /\ tokens' = tokens
  BY <1>4 DEF Expire, Inv, TypeOK, Fits, KnowsBearer, KnowsTarget, RevokedForGood
<1>5. CASE UNCHANGED vars
  BY <1>5 DEF vars, Inv, TypeOK, Fits, KnowsBearer, KnowsTarget, RevokedForGood
<1> QED
  BY <1>1, <1>2, <1>3, <1>4, <1>5 DEF Next

\* The invariant is inductive.
THEOREM Invariance == Spec => []Inv
<1>1. Inv /\ [Next]_vars => Inv'
  BY CommitInv, OtherInv
<1> QED
  BY InitInv, <1>1, PTL DEF Spec

\* Every variable keeps its type, whatever overlaps.
THEOREM TypeCorrect == Spec => []TypeOK
<1>1. Inv => TypeOK
  BY DEF Inv
<1> QED
  BY <1>1, Invariance, PTL

\* A revocation that was answered holds for good, although requests of the
\* token that read it before may still commit their stamp.
THEOREM RevocationHolds == Spec => []RevokedForGood
<1>1. Inv => RevokedForGood
  BY DEF Inv
<1> QED
  BY <1>1, Invariance, PTL

\* Nobody revokes another user's token.
THEOREM OnlyOwnersRevoke == Spec => RevokedByOwner
<1> DEFINE ByOwner ==
      \A t \in Token :
          (tokens[t] # NoToken /\ ~tokens[t].revoked /\ tokens'[t].revoked)
          => \E r \in Req : /\ tx[r].pc = "flushed" /\ tx'[r].out = "ok"
                            /\ tx[r].owner = tokens[t].owner
<1>1. ASSUME Inv, [Next]_vars PROVE ByOwner
  <2> SUFFICES ASSUME NEW t \in Token, tokens[t] # NoToken, ~tokens[t].revoked,
                      tokens'[t].revoked
               PROVE  \E r \in Req : /\ tx[r].pc = "flushed" /\ tx'[r].out = "ok"
                                     /\ tx[r].owner = tokens[t].owner
    OBVIOUS
  <2>1. PICK r \in Req : Commit(r)
    BY <1>1, OtherInv
  <2>2. tx[r].owner = tokens[t].owner
    BY <1>1, <2>1, RowsOnlyGrow
  <2>3. tx[r].pc = "flushed" /\ tx'[r].out = "ok"
    BY <1>1, <2>1 DEF Commit, Finish, Inv, TypeOK, IdleTx
  <2> QED
    BY <2>2, <2>3
<1>2. Inv /\ [Next]_vars => [ByOwner]_vars
  BY <1>1
<1> QED
  BY <1>2, Invariance, PTL DEF Spec, RevokedByOwner
=============================================================================
