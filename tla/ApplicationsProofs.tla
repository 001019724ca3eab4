------------------------ MODULE ApplicationsProofs --------------------------
(* Theorems about Applications, for every value of its constants. *)
EXTENDS Applications, FiniteSetTheorems, TLAPS

-----------------------------------------------------------------------------
(* Typing *)

\* The transaction of a request that has not arrived is a transaction.
LEMMA IdleTxType == ASSUME NEW r \in Req PROVE IdleTx(r) \in Tx
BY OwnerAssumption DEF IdleTx, Tx, Phase, Operations, Outcome

\* A request's entry is one, of the status and the note it is for, stamped now.
LEMMA EntryOfType ==
  ASSUME TypeOK, NEW r \in Req, NEW s \in Status, NEW n \in {"set", "deleted"}
  PROVE  /\ EntryOf(r, s, n) \in SUBSET Entry
         /\ \A t : t.entry = EntryOf(r, s, n) => Records(t, s, n)
<1> DEFINE e == [id |-> r, status |-> s, note |-> n, changed_at |-> clock]
<1>1. e \in Entry /\ e.status = s /\ e.note = n
  BY DEF Entry, TypeOK
<1> HIDE DEF e
<1>2. EntryOf(r, s, n) = {e}
  BY DEF EntryOf, e
<1> QED BY <1>1, <1>2 DEF Records

\* A new application has its columns.
LEMMA NewRowType ==
  ASSUME NEW o \in Owner, NEW c \in Company, NEW l \in Role, NEW s \in Status
  PROVE  NewRow(o, c, l, NoJob, s) \in Row
BY DEF NewRow, Row

\* The columns an UPDATE writes give a row again.
LEMMA MergeType ==
  ASSUME NEW old \in Row, NEW t \in Tx, t.row \in Row, t.new \in Row
  PROVE  Merge(old, t) \in Row
<1>1. /\ DOMAIN old = {"owner", "company", "role", "job", "status", "deleted"}
      /\ \A f \in DOMAIN old : Merge(old, t)[f] \in {t.new[f], old[f]}
  BY DEF Merge, Row
<1>2. Merge(old, t) = [owner |-> Merge(old, t).owner, company |-> Merge(old, t).company,
                       role |-> Merge(old, t).role, job |-> Merge(old, t).job,
                       status |-> Merge(old, t).status, deleted |-> Merge(old, t).deleted]
  BY <1>1 DEF Merge
<1> QED BY <1>1, <1>2 DEF Row

-----------------------------------------------------------------------------
(* Steps that only move their own request's transaction *)

\* What a request's next transaction state must satisfy for Inv to survive.
Fits(r, t) ==
    /\ t.pc \in {"idle", "soft", "match", "locking"} => t.write = "none"
    /\ t.pc \in {"match", "locking", "queueing"} => t.op # "post"
    /\ t.pc = "soft" => t.op = "post" /\ t.new \in Row
    /\ t.pc = "locking" => UpdateShape(t)
    /\ t.pc \notin {"idle", "done"} /\ t.write = "insert" => InsertShape(t)
    /\ t.pc \notin {"idle", "done"} /\ t.write = "update" => UpdateShape(t)
    /\ t.pc \notin {"idle", "done"} /\ t.op = "post" =>
          \A a \in Req : Live(a) /\ tx[a].op = "post" /\ a \notin moved
                        /\ SameJob(apps[a], t.new) => a \in missed[r]

\* The entry of a request's next transaction state: none, the one it had, or a
\* new one, stamped now.
Stamped(r, t) ==
    /\ clock' \in Nat /\ clock <= clock'
    /\ t.pc = "idle" => t.entry = {}
    /\ \/ t.entry = {}
       \/ t.entry = tx[r].entry /\ t.target = tx[r].target
       \/ /\ clock' = clock + 1
          /\ \E s \in Status, n \in {"set", "deleted"} : t.entry = EntryOf(r, s, n)

\* The stamps, for a step that changes no history: a new stamp is later than
\* every committed one.
LEMMA StampStep ==
  ASSUME Inv, NEW r \in Req, NEW t \in Tx, tx[r].pc # "done",
         tx' = [tx EXCEPT ![r] = t], Stamped(r, t), UNCHANGED <<hist, missed>>
  PROVE  StampsAreCurrent'
<1>0. /\ tx'[r] = t /\ \A s \in Req \ {r} : tx'[s] = tx[s]
      /\ clock \in Nat /\ clock' \in Nat /\ clock <= clock'
  BY DEF Inv, TypeOK, Stamped
<1>1. ASSUME NEW s \in Req, NEW e \in tx[s].entry PROVE e.changed_at \in Nat
  BY DEF Inv, TypeOK, Tx, Entry
<1>2. ASSUME NEW a \in Req, NEW f \in hist[a]
      PROVE  /\ f.id \in Req /\ f.changed_at \in Nat /\ f.changed_at < clock
             /\ f.id # r /\ tx[f.id].pc = "done"
  BY DEF Inv, TypeOK, Entry, StampsAreCurrent
<1>3. ASSUME NEW a \in Req, NEW f \in hist'[a]
      PROVE  tx'[f.id].pc = "done" /\ f.changed_at < clock'
  BY <1>0, <1>2, <1>3
<1>4. ASSUME NEW s \in Req, s # r
      PROVE  /\ tx'[s].pc = "idle" => tx'[s].entry = {}
             /\ \A e \in tx'[s].entry : e.id = s /\ e.changed_at < clock'
             /\ Active(s)' => \A e \in tx'[s].entry : \A f \in hist'[tx'[s].target] :
                                f.changed_at > e.changed_at => f.id \in missed'[s]
  <2>1. \A e \in tx[s].entry : e.changed_at < clock'
    BY <1>0, <1>1 DEF Inv, StampsAreCurrent
  <2> QED BY <1>0, <1>4, <2>1 DEF Inv, StampsAreCurrent, Active
<1>5. /\ tx'[r].pc = "idle" => tx'[r].entry = {}
      /\ \A e \in tx'[r].entry : e.id = r /\ e.changed_at < clock'
      /\ Active(r)' => \A e \in tx'[r].entry : \A f \in hist'[tx'[r].target] :
                         f.changed_at > e.changed_at => f.id \in missed'[r]
  <2>1. CASE t.entry = {}
    BY <1>0, <2>1
  <2>2. CASE t.entry = tx[r].entry /\ t.target = tx[r].target
    <3>1. \A e \in tx[r].entry : e.id = r /\ e.changed_at < clock'
      BY <1>0, <1>1 DEF Inv, StampsAreCurrent
    <3>2. tx[r].entry # {} => Active(r)
      BY DEF Inv, StampsAreCurrent, Active
    <3> QED BY <1>0, <2>2, <3>1, <3>2 DEF Inv, StampsAreCurrent, Stamped
  <2>3. CASE /\ clock' = clock + 1
             /\ \E s \in Status, n \in {"set", "deleted"} : t.entry = EntryOf(r, s, n)
    <3>1. \A e \in t.entry : e.id = r /\ e.changed_at = clock
      BY <2>3 DEF EntryOf
    <3>2. t.target \in Req
      BY DEF Tx
    <3>3. \A e \in t.entry : \A f \in hist[t.target] : ~(f.changed_at > e.changed_at)
      BY <1>0, <1>2, <3>1, <3>2
    <3> QED BY <1>0, <2>3, <3>1, <3>3 DEF Stamped
  <2> QED BY <2>1, <2>2, <2>3 DEF Stamped
<1> QED BY <1>3, <1>4, <1>5 DEF StampsAreCurrent

\* The six parts of Inv, for a step that writes no table but email_queue.
LEMMA LocalStep ==
  ASSUME Inv, NEW r \in Req, NEW t \in Tx, tx[r].pc # "done",
         tx' = [tx EXCEPT ![r] = t], Fits(r, t), Stamped(r, t),
         UNCHANGED <<apps, hist, missed, moved>>, queue' \subseteq Msg
  PROVE  Inv'
<1>0. apps[r] = NoRow /\ tx'[r] = t /\ \A s \in Req \ {r} : tx'[s] = tx[s]
  BY DEF Inv, TypeOK, TxShape
<1>1. TypeOK' /\ StampsAreCurrent'
  BY StampStep DEF Inv, TypeOK, Stamped
<1>2. TxShape'
  <2>1. ASSUME NEW s \in Req, s # r
        PROVE  TxShape!(s)'
    BY <2>1, <1>0 DEF Inv, TxShape, Active, InsertShape, UpdateShape, Records
  <2>2. TxShape!(r)'
    BY <1>0 DEF Inv, TxShape, Active, InsertShape, UpdateShape, Records, Fits
  <2> QED BY <2>1, <2>2 DEF TxShape
<1>3. HistoryMatchesStatus'
  BY DEF Inv, HistoryMatchesStatus, Concludes
<1>4. ChecksAreCurrent'
  <2> SUFFICES ASSUME NEW s \in Req, NEW a \in Req,
                      Active(s)', tx'[s].op = "post", Live(a), tx'[a].op = "post",
                      a \notin moved, SameJob(apps[a], tx'[s].new)
               PROVE  a \in missed[s]
    BY DEF ChecksAreCurrent, Live
  <2>1. a # r /\ tx'[a] = tx[a]
    BY <1>0 DEF Live
  <2>2. CASE s = r
    BY <2>1, <2>2, <1>0 DEF Fits, Active
  <2>3. CASE s # r
    BY <2>1, <2>3, <1>0 DEF Inv, ChecksAreCurrent, Active
  <2> QED BY <2>2, <2>3
<1>5. DuplicatesAreRaced'
  BY <1>0 DEF Inv, DuplicatesAreRaced, Live
<1> QED BY <1>1, <1>2, <1>3, <1>4, <1>5 DEF Inv

\* A request that is answered without a write.
LEMMA FinishStep ==
  ASSUME Inv, NEW r \in Req, NEW o \in Outcome, tx[r].pc # "done", Finish(r, o),
         UNCHANGED <<apps, hist, clock, queue, missed, moved>>
  PROVE  Inv'
<1> DEFINE t == [IdleTx(r) EXCEPT !.pc = "done", !.out = o]
<1>1. t \in Tx /\ t.pc = "done" /\ t.entry = {}
  BY IdleTxType DEF IdleTx, Tx, Phase
<1>2. Fits(r, t) /\ Stamped(r, t)
  BY <1>1 DEF Fits, Stamped, Inv, TypeOK
<1> HIDE DEF t
<1>3. tx' = [tx EXCEPT ![r] = t]
  BY DEF Finish, t
<1>4. queue' \subseteq Msg
  BY DEF Inv, TypeOK
<1> QED BY <1>1, <1>2, <1>3, <1>4, LocalStep

\* A POST that passed the first SELECT saw every twin of its row; none is live,
\* so none is yet missed.
LEMMA PostHardCheckInv ==
  ASSUME Inv, NEW r \in Req, NEW row \in Row, PostHardCheck(r, row)
  PROVE  Inv'
<1> DEFINE t == [tx[r] EXCEPT !.pc = "soft", !.op = "post", !.owner = row.owner,
                              !.new = row]
<1>1. CASE Finish(r, "duplicate") \/ Finish(r, "multiple")
  BY <1>1, FinishStep DEF PostHardCheck, Receivable, Outcome
<1>2. CASE HardMatches(row) = {} /\ tx' = [tx EXCEPT ![r] = t]
  <2>1. tx[r] \in Tx /\ tx[r].pc = "idle" /\ tx[r].write = "none"
    BY DEF Inv, TypeOK, TxShape, PostHardCheck, Receivable
  <2>2. /\ t \in Tx /\ t.pc = "soft" /\ t.op = "post" /\ t.new = row /\ t.write = "none"
        /\ t.entry = tx[r].entry /\ t.target = tx[r].target
    BY <2>1 DEF Tx, Phase, Operations, Row
  <2>3. Fits(r, t) /\ Stamped(r, t)
    BY <1>2, <2>2 DEF Fits, Stamped, HardMatches, PostHardCheck, Inv, TypeOK
  <2> HIDE DEF t
  <2>4. queue' \subseteq Msg
    BY DEF Inv, TypeOK, PostHardCheck
  <2> QED BY <1>2, <2>1, <2>2, <2>3, <2>4, LocalStep DEF PostHardCheck
<1> QED BY <1>1, <1>2 DEF PostHardCheck

\* The INSERTs that a POST flushes record the status they store.
LEMMA PostSoftCheckInv ==
  ASSUME Inv, NEW r \in Req, PostSoftCheck(r)
  PROVE  Inv'
<1> DEFINE new == tx[r].new
           t == [tx[r] EXCEPT !.pc = "flushed", !.write = "insert",
                              !.warn = SoftMatches(new) # {},
                              !.entry = EntryOf(r, new.status, "set")]
<1>1. CASE Finish(r, "multiple") /\ UNCHANGED clock
  BY <1>1, FinishStep DEF PostSoftCheck, Outcome
<1>2. CASE tx' = [tx EXCEPT ![r] = t] /\ clock' = clock + 1
  <2>1. tx[r] \in Tx /\ tx[r].pc = "soft" /\ tx[r].op = "post" /\ new \in Row
    BY DEF Inv, TypeOK, TxShape, PostSoftCheck
  <2>2. new.status \in Status /\ EntryOf(r, new.status, "set") \in SUBSET Entry
    BY <2>1, EntryOfType DEF Row, Inv
  <2>3. /\ t \in Tx /\ t.pc = "flushed" /\ t.op = "post" /\ t.write = "insert"
        /\ t.new = new /\ t.entry = EntryOf(r, new.status, "set")
    BY <2>1, <2>2 DEF Tx, Phase
  <2>4. \A a \in Req : Live(a) /\ tx[a].op = "post" /\ a \notin moved
                      /\ SameJob(apps[a], new) => a \in missed[r]
    BY <2>1 DEF Inv, ChecksAreCurrent, Active
  <2>5. Records(t, new.status, "set")
    BY <2>2, <2>3, EntryOfType DEF Inv
  <2>7. Fits(r, t) /\ Stamped(r, t)
    BY <1>2, <2>1, <2>2, <2>3, <2>4, <2>5 DEF Fits, InsertShape, Stamped, Inv, TypeOK
  <2> HIDE DEF t
  <2>6. queue' \subseteq Msg
    BY DEF Inv, TypeOK, PostSoftCheck
  <2> QED BY <1>2, <2>1, <2>3, <2>6, <2>7, LocalStep DEF PostSoftCheck
<1> QED BY <1>1, <1>2 DEF PostSoftCheck

\* The generator's INSERTs record the status they store; no check precedes them.
LEMMA GenerateInv ==
  ASSUME Inv, NEW r \in Req, NEW o \in Owner, NEW c \in Company, NEW l \in Role,
         Generate(r, o, c, l)
  PROVE  Inv'
<1> DEFINE row == NewRow(o, c, l, NoJob, Applied)
           t == [tx[r] EXCEPT !.pc = "flushed", !.op = "generate", !.owner = o,
                              !.write = "insert", !.new = row,
                              !.warn = ExistingPostings(row) # {},
                              !.entry = EntryOf(r, Applied, "set")]
<1>1. tx[r] \in Tx /\ tx[r].pc = "idle" /\ tx' = [tx EXCEPT ![r] = t]
  BY DEF Inv, TypeOK, Generate, Receivable
<1>2. row \in Row /\ row.status = Applied /\ EntryOf(r, Applied, "set") \in SUBSET Entry
  BY NewRowType, EntryOfType, StatusAssumption DEF NewRow, Inv
<1> HIDE DEF row
<1>3. /\ t \in Tx /\ t.pc = "flushed" /\ t.op = "generate" /\ t.write = "insert"
      /\ t.new = row /\ t.entry = EntryOf(r, Applied, "set")
  BY <1>1, <1>2 DEF Tx, Phase, Operations
<1>4. Records(t, Applied, "set")
  BY <1>3, EntryOfType, StatusAssumption DEF Inv
<1>6. Fits(r, t) /\ Stamped(r, t)
  BY <1>2, <1>3, <1>4, StatusAssumption DEF Fits, InsertShape, Stamped, Inv, TypeOK, Generate
<1> HIDE DEF t
<1>5. queue' \subseteq Msg
  BY DEF Inv, TypeOK, Generate
<1> QED BY <1>1, <1>3, <1>5, <1>6, LocalStep DEF Generate

\* An application that is missing, or another owner's, ends the request.
LEMMA GetMissingInv ==
  ASSUME Inv, NEW r \in Req, NEW op \in Operations, NEW a \in Req, NEW o \in Owner,
         GetMissing(r, op, a, o)
  PROVE  Inv'
BY FinishStep DEF GetMissing, Receivable, Outcome

\* A PATCH records a status exactly when its UPDATE will write one, and keeps
\* owner and is_deleted.
LEMMA PatchReadInv ==
  ASSUME Inv, NEW r \in Req, NEW a \in Req, NEW o \in Owner, NEW new \in Row,
         PatchRead(r, a, o, new)
  PROVE  Inv'
<1> DEFINE entry == IF new.status # apps[a].status
                    THEN EntryOf(r, new.status, "set") ELSE {}
           t == [tx[r] EXCEPT !.pc = "locking", !.op = "patch", !.owner = o,
                              !.target = a, !.row = apps[a], !.new = new,
                              !.entry = entry]
<1>1. /\ tx[r] \in Tx /\ tx[r].pc = "idle" /\ tx[r].write = "none"
      /\ tx' = [tx EXCEPT ![r] = t] /\ apps[a] \in Row /\ apps[a] # NoRow
  BY DEF Inv, TypeOK, TxShape, PatchRead, Receivable, Owned
<1>2. entry \in SUBSET Entry /\ new.status \in Status
  BY EntryOfType DEF Row, Inv
<1>3. /\ t \in Tx /\ t.pc = "locking" /\ t.op = "patch" /\ t.write = "none"
      /\ t.row = apps[a] /\ t.new = new /\ t.target = a /\ t.entry = entry
  BY <1>1, <1>2 DEF Tx, Phase, Operations
<1>4. new.status # apps[a].status => Records(t, new.status, "set")
  BY <1>2, <1>3, EntryOfType DEF Inv
<1>5. Fits(r, t)
  BY <1>1, <1>3, <1>4 DEF Fits, UpdateShape, PatchRead
<1>6. Stamped(r, t)
  BY <1>2, <1>3 DEF Stamped, Inv, TypeOK, PatchRead
<1> HIDE DEF t
<1>7. queue' \subseteq Msg
  BY DEF Inv, TypeOK, PatchRead
<1> QED BY <1>1, <1>3, <1>5, <1>6, <1>7, LocalStep DEF PatchRead

\* A deletion records a note and no status; of a deleted row it writes
\* nothing.
LEMMA DeleteReadInv ==
  ASSUME Inv, NEW r \in Req, NEW a \in Req, NEW o \in Owner, DeleteRead(r, a, o)
  PROVE  Inv'
<1> DEFINE new == [apps[a] EXCEPT !.deleted = TRUE]
           entry == EntryOf(r, apps[a].status, "deleted")
           t == [tx[r] EXCEPT !.pc = "locking", !.op = "delete", !.owner = o,
                              !.target = a, !.row = apps[a], !.new = new,
                              !.entry = entry]
<1>1. CASE Finish(r, "noop") /\ UNCHANGED clock
  BY <1>1, FinishStep DEF DeleteRead, Receivable, Outcome
<1>2. CASE tx' = [tx EXCEPT ![r] = t] /\ clock' = clock + 1
  <2>1. /\ tx[r] \in Tx /\ tx[r].pc = "idle" /\ tx[r].write = "none"
        /\ apps[a] \in Row /\ apps[a] # NoRow
    BY DEF Inv, TypeOK, TxShape, DeleteRead, Receivable, Owned
  <2>2. /\ new \in Row /\ new.owner = apps[a].owner /\ new.status = apps[a].status
        /\ new.deleted = TRUE
    BY <2>1 DEF Row
  <2>3. apps[a].status \in Status /\ entry \in SUBSET Entry
    BY <2>1, EntryOfType DEF Row, Inv
  <2> HIDE DEF new, entry
  <2>4. /\ t \in Tx /\ t.pc = "locking" /\ t.op = "delete" /\ t.write = "none"
        /\ t.row = apps[a] /\ t.new = new /\ t.target = a /\ t.entry = entry
    BY <2>1, <2>2, <2>3 DEF Tx, Phase, Operations
  <2>5. Records(t, apps[a].status, "deleted")
    BY <2>3, <2>4, EntryOfType DEF Inv, entry
  <2>6. Fits(r, t)
    BY <2>1, <2>2, <2>3, <2>4, <2>5 DEF Fits, UpdateShape
  <2>7. Stamped(r, t)
    BY <1>2, <2>3, <2>4 DEF Stamped, Inv, TypeOK, entry
  <2> HIDE DEF t
  <2>8. queue' \subseteq Msg
    BY DEF Inv, TypeOK, DeleteRead
  <2> QED BY <1>2, <2>1, <2>4, <2>6, <2>7, <2>8, LocalStep DEF DeleteRead
<1> QED BY <1>1, <1>2 DEF DeleteRead

\* The row lock changes neither what an UPDATE writes nor what it records.
LEMMA LockRowInv ==
  ASSUME Inv, NEW r \in Req, LockRow(r)
  PROVE  Inv'
<1> DEFINE pc == IF tx[r].op = "email" THEN "queueing" ELSE "flushed"
           t == [tx[r] EXCEPT !.write = "update", !.pc = pc]
<1>1. /\ tx[r] \in Tx /\ tx[r].pc = "locking" /\ tx[r].op # "post"
      /\ UpdateShape(tx[r]) /\ tx' = [tx EXCEPT ![r] = t]
  BY DEF Inv, TypeOK, TxShape, LockRow
<1>2. /\ t \in Tx /\ t.pc \in {"queueing", "flushed"} /\ t.op = tx[r].op
      /\ t.write = "update" /\ t.row = tx[r].row /\ t.new = tx[r].new
      /\ t.target = tx[r].target /\ t.entry = tx[r].entry
  BY <1>1 DEF Tx, Phase
<1>3. Fits(r, t) /\ Stamped(r, t)
  BY <1>1, <1>2 DEF Fits, UpdateShape, Records, Stamped, LockRow, Inv, TypeOK
<1> HIDE DEF t
<1>4. queue' \subseteq Msg
  BY DEF Inv, TypeOK, LockRow
<1> QED BY <1>1, <1>2, <1>3, <1>4, LocalStep DEF LockRow

\* An e-mail has chosen no application when it passed the dedup SELECT.
LEMMA EmailDedupInv ==
  ASSUME Inv, NEW r \in Req, NEW m \in Msg, NEW i \in BOOLEAN, EmailDedup(r, m, i)
  PROVE  Inv'
<1> DEFINE pc == IF i THEN "queueing" ELSE "match"
           t == [tx[r] EXCEPT !.op = "email", !.msg = {m}, !.pc = pc]
<1>1. CASE Finish(r, "skipped")
  BY <1>1, FinishStep DEF EmailDedup, Receivable, Outcome
<1>2. CASE tx' = [tx EXCEPT ![r] = t]
  <2>1. tx[r] \in Tx /\ tx[r].pc = "idle" /\ tx[r].write = "none"
    BY DEF Inv, TypeOK, TxShape, EmailDedup, Receivable
  <2>2. /\ t \in Tx /\ t.pc \in {"queueing", "match"} /\ t.op = "email"
        /\ t.write = "none" /\ t.entry = tx[r].entry /\ t.target = tx[r].target
    BY <2>1 DEF Tx, Phase, Operations
  <2>3. Fits(r, t) /\ Stamped(r, t)
    BY <2>2 DEF Fits, Stamped, EmailDedup, Inv, TypeOK
  <2> HIDE DEF t
  <2>4. queue' \subseteq Msg
    BY DEF Inv, TypeOK, EmailDedup
  <2> QED BY <1>2, <2>1, <2>2, <2>3, <2>4, LocalStep DEF EmailDedup
<1> QED BY <1>1, <1>2 DEF EmailDedup

\* An e-mail records a status exactly when its UPDATE will write one.
LEMMA EmailMatchInv ==
  ASSUME Inv, NEW r \in Req, NEW c \in Company, NEW s \in Status, EmailMatch(r, c, s)
  PROVE  Inv'
<1>1. PICK a \in CompanyMatches(c) :
        tx' = [tx EXCEPT ![r] = [tx[r] EXCEPT !.target = a, !.row = apps[a],
                    !.new = [apps[a] EXCEPT !.status = s],
                    !.pc = IF s # apps[a].status THEN "locking" ELSE "queueing",
                    !.entry = IF s # apps[a].status
                              THEN EntryOf(r, s, "set") ELSE {}]]
  BY DEF EmailMatch
<1> DEFINE new == [apps[a] EXCEPT !.status = s]
           pc == IF s # apps[a].status THEN "locking" ELSE "queueing"
           entry == IF s # apps[a].status THEN EntryOf(r, s, "set") ELSE {}
           t == [tx[r] EXCEPT !.target = a, !.row = apps[a], !.new = new,
                              !.pc = pc, !.entry = entry]
<1>2. /\ tx[r] \in Tx /\ tx[r].pc = "match" /\ tx[r].write = "none"
      /\ tx[r].op # "post" /\ a \in Req /\ apps[a] \in Row /\ apps[a] # NoRow
  BY DEF Inv, TypeOK, TxShape, EmailMatch, CompanyMatches
<1>3. /\ new \in Row /\ new.owner = apps[a].owner /\ new.status = s
      /\ new.deleted = apps[a].deleted
  BY <1>2 DEF Row
<1>4. entry \in SUBSET Entry
  BY EntryOfType DEF Inv
<1> HIDE DEF new
<1>5. /\ t \in Tx /\ t.pc = pc /\ t.op # "post" /\ t.write = "none"
      /\ t.row = apps[a] /\ t.new = new /\ t.target = a /\ t.entry = entry
  BY <1>2, <1>3, <1>4 DEF Tx, Phase
<1>6. s # apps[a].status => Records(t, s, "set")
  BY <1>5, EntryOfType DEF Inv
<1>7. Fits(r, t)
  BY <1>2, <1>3, <1>5, <1>6 DEF Fits, UpdateShape
<1>8. Stamped(r, t)
  BY <1>5 DEF Stamped, Inv, TypeOK, EmailMatch
<1>9. tx' = [tx EXCEPT ![r] = t]
  BY <1>1 DEF new
<1> HIDE DEF t
<1>10. queue' \subseteq Msg
  BY DEF Inv, TypeOK, EmailMatch
<1> QED BY <1>2, <1>5, <1>7, <1>8, <1>9, <1>10, LocalStep DEF EmailMatch

\* The application an e-mail inserts records the status it stores.
LEMMA EmailCreateInv ==
  ASSUME Inv, NEW r \in Req, NEW c \in Company, NEW l \in Role, NEW s \in Status,
         EmailCreate(r, c, l, s)
  PROVE  Inv'
<1> DEFINE row == NewRow(DefaultOwner, c, l, NoJob, s)
           t == [tx[r] EXCEPT !.pc = "queueing", !.write = "insert", !.new = row,
                              !.entry = EntryOf(r, s, "set")]
<1>1. /\ tx[r] \in Tx /\ tx[r].pc = "match" /\ tx[r].op # "post"
      /\ tx' = [tx EXCEPT ![r] = t]
  BY DEF Inv, TypeOK, TxShape, EmailCreate
<1>2. row \in Row /\ row.status = s /\ EntryOf(r, s, "set") \in SUBSET Entry
  BY NewRowType, EntryOfType, OwnerAssumption DEF NewRow, Inv
<1> HIDE DEF row
<1>3. /\ t \in Tx /\ t.pc = "queueing" /\ t.op = tx[r].op /\ t.write = "insert"
      /\ t.new = row /\ t.entry = EntryOf(r, s, "set")
  BY <1>1, <1>2 DEF Tx, Phase
<1>4. Records(t, s, "set")
  BY <1>3, EntryOfType DEF Inv
<1>5. Fits(r, t) /\ Stamped(r, t)
  BY <1>1, <1>2, <1>3, <1>4 DEF Fits, InsertShape, Stamped, Inv, TypeOK, EmailCreate
<1> HIDE DEF t
<1>6. queue' \subseteq Msg
  BY DEF Inv, TypeOK, EmailCreate
<1> QED BY <1>1, <1>3, <1>5, <1>6, LocalStep DEF EmailCreate

\* Queueing the message id changes no application.
LEMMA QueueMessageInv ==
  ASSUME Inv, NEW r \in Req, QueueMessage(r)
  PROVE  Inv'
<1> DEFINE t == [tx[r] EXCEPT !.pc = "flushed"]
<1>1. CASE Finish(r, "conflict")
  BY <1>1, FinishStep DEF QueueMessage, Outcome
<1>2. CASE tx' = [tx EXCEPT ![r].pc = "flushed"]
  <2>1. tx[r] \in Tx /\ tx[r].pc = "queueing" /\ tx[r].op # "post"
    BY DEF Inv, TypeOK, TxShape, QueueMessage
  <2>2. /\ t \in Tx /\ t.pc = "flushed" /\ t.op = tx[r].op
        /\ t.write = tx[r].write /\ t.row = tx[r].row /\ t.new = tx[r].new
        /\ t.target = tx[r].target /\ t.entry = tx[r].entry
    BY <2>1 DEF Tx, Phase
  <2>3. Fits(r, t) /\ Stamped(r, t)
    BY <2>1, <2>2 DEF Fits, Inv, TxShape, Active, InsertShape, UpdateShape, Records,
       Stamped, QueueMessage, TypeOK
  <2>4. tx' = [tx EXCEPT ![r] = t]
    BY <1>2, <2>1
  <2> HIDE DEF t
  <2>5. queue' \subseteq Msg
    BY DEF Inv, TypeOK, QueueMessage
  <2> QED BY <2>1, <2>2, <2>3, <2>4, <2>5, LocalStep DEF QueueMessage
<1> QED BY <1>1, <1>2 DEF QueueMessage

\* The commit of an e-mail that is only recorded changes no application.
LEMMA CommitMessageInv ==
  ASSUME Inv, NEW r \in Req, CommitMessage(r)
  PROVE  Inv'
<1> DEFINE o == IF tx[r].row = NoRow THEN "ignored" ELSE "processed"
           t == [tx[r] EXCEPT !.pc = "done", !.out = o]
<1>1. tx[r] \in Tx /\ tx[r].pc = "flushed" /\ o \in Outcome
  BY DEF Inv, TypeOK, CommitMessage, Outcome
<1> HIDE DEF o
<1>2. /\ t \in Tx /\ t.pc = "done" /\ t.entry = tx[r].entry
      /\ t.target = tx[r].target
  BY <1>1 DEF Tx, Phase
<1>3. Fits(r, t) /\ Stamped(r, t)
  BY <1>2 DEF Fits, Stamped, CommitMessage, Inv, TypeOK
<1>4. tx' = [tx EXCEPT ![r] = t]
  BY <1>1 DEF CommitMessage, Ended, o
<1> HIDE DEF t
<1>5. queue' \subseteq Msg
  BY <1>1 DEF Inv, TypeOK, CommitMessage, Tx
<1> QED BY <1>1, <1>2, <1>3, <1>4, <1>5, LocalStep DEF CommitMessage

\* A rolled-back request leaves nothing behind.
LEMMA RollbackInv ==
  ASSUME Inv, NEW r \in Req, Rollback(r)
  PROVE  Inv'
BY FinishStep DEF Rollback, Active, Outcome

-----------------------------------------------------------------------------
(* Histories *)

\* An entry that concluded a history still does when only deletion notes join it
\* and the status stays.
LEMMA ConcludesStays ==
  ASSUME NEW a \in Req, NEW e \in hist[a], Concludes(a, e),
         e \in hist'[a], apps'[a].status = apps[a].status,
         \A f \in hist'[a] : f \in hist[a] \/ f.note # "set",
         missed[e.id] \subseteq missed'[e.id]
  PROVE  \E d \in hist'[a] : Concludes(a, d)'
BY DEF Concludes

\* What every commit leaves of the stamps: its entry is one that whoever is under
\* way has missed.
LEMMA CommitStamps ==
  ASSUME Inv, NEW r \in Req, Active(r), NEW a \in Req,
         \A b \in Req : hist'[b] = IF b = a THEN hist[b] \cup tx[r].entry ELSE hist[b],
         missed' = MissedBy(r), clock' = clock, tx'[r].pc = "done",
         tx'[r].entry = tx[r].entry, \A s \in Req \ {r} : tx'[s] = tx[s]
  PROVE  StampsAreCurrent'
<1>1. \A e \in tx[r].entry : e.id = r /\ e.changed_at < clock
  BY DEF Inv, StampsAreCurrent
<1>2. ASSUME NEW b \in Req, NEW f \in hist'[b]
      PROVE  tx'[f.id].pc = "done" /\ f.changed_at < clock'
  <2>1. CASE f \in hist[b]
    <3>1. f.id \in Req /\ tx[f.id].pc = "done" /\ f.changed_at < clock
      BY <2>1 DEF Inv, TypeOK, Entry, StampsAreCurrent
    <3> QED BY <3>1
  <2>2. CASE f \in tx[r].entry
    BY <2>2, <1>1
  <2> QED BY <1>2, <2>1, <2>2
<1>3. ASSUME NEW s \in Req, s # r
      PROVE  /\ tx'[s].pc = "idle" => tx'[s].entry = {}
             /\ \A e \in tx'[s].entry : e.id = s /\ e.changed_at < clock'
             /\ Active(s)' => \A e \in tx'[s].entry : \A f \in hist'[tx'[s].target] :
                                f.changed_at > e.changed_at => f.id \in missed'[s]
  <2>1. tx[s].target \in Req /\ tx'[s] = tx[s]
    BY <1>3 DEF Inv, TypeOK, Tx
  <2>2. Active(s) => missed'[s] = missed[s] \cup {r}
    BY <1>3 DEF MissedBy
  <2>3. \A f \in hist'[tx[s].target] : f \in hist[tx[s].target] \/ f.id = r
    BY <1>1, <2>1
  <2> QED BY <1>3, <2>1, <2>2, <2>3 DEF Inv, StampsAreCurrent, Active
<1> QED BY <1>1, <1>2, <1>3 DEF StampsAreCurrent, Active

-----------------------------------------------------------------------------
(* Commits *)

\* A committed INSERT starts a history that ends with its status, and every
\* request still in flight now misses the new row.
LEMMA CommitInsertInv ==
  ASSUME Inv, NEW r \in Req, CommitInsert(r)
  PROVE  Inv'
<1> DEFINE new == tx[r].new
<1>1. /\ tx[r] \in Tx /\ Active(r) /\ new \in Row
      /\ Records(tx[r], new.status, "set")
      /\ apps[r] = NoRow /\ hist[r] = {}
  BY DEF Inv, TypeOK, TxShape, InsertShape, CommitInsert, Active
<1>2. /\ apps'[r] = new /\ \A a \in Req \ {r} : apps'[a] = apps[a]
      /\ hist'[r] = tx[r].entry
      /\ \A a \in Req \ {r} : hist'[a] = hist[a]
      /\ moved' = moved
  BY <1>1 DEF Inv, TypeOK, CommitInsert
<1> DEFINE t == [tx[r] EXCEPT !.pc = "done", !.out = "created"]
<1>3. /\ tx' = [tx EXCEPT ![r] = t] /\ t \in Tx /\ t.pc = "done"
      /\ t.op = tx[r].op /\ t.entry = tx[r].entry
  BY <1>1 DEF CommitInsert, Ended, Tx, Phase, Outcome, Inv, TypeOK
<1> HIDE DEF t
<1>4. /\ tx'[r].pc = "done" /\ tx'[r].op = tx[r].op /\ tx'[r].entry = tx[r].entry
      /\ \A s \in Req \ {r} : tx'[s] = tx[s]
  BY <1>3 DEF Inv, TypeOK
<1>5. \A s \in Req : /\ missed[s] \subseteq missed'[s] /\ missed'[s] \subseteq Req
                     /\ Active(s) /\ s # r => r \in missed'[s]
  BY DEF CommitInsert, MissedBy, Inv, TypeOK
<1>6. TypeOK'
  <2>1. apps' \in [Req -> Row \cup {NoRow}] /\ tx' \in [Req -> Tx]
    BY <1>1, <1>3 DEF Inv, TypeOK, CommitInsert
  <2>2. hist' \in [Req -> SUBSET Entry] /\ clock' \in Nat
    BY <1>1 DEF Inv, TypeOK, CommitInsert, Tx
  <2>3. queue' \subseteq Msg /\ moved' \subseteq Req
    BY <1>1 DEF Inv, TypeOK, CommitInsert, Tx
  <2>4. missed' \in [Req -> SUBSET Req]
    BY DEF Inv, TypeOK, CommitInsert, MissedBy
  <2> QED BY <2>1, <2>2, <2>3, <2>4 DEF TypeOK
<1>7. TxShape'
  <2>1. ASSUME NEW s \in Req, s # r PROVE TxShape!(s)'
    <3>1. tx'[s] = tx[s] /\ apps'[s] = apps[s] /\ hist'[s] = hist[s] /\ TxShape!(s)
      BY <2>1, <1>2, <1>4 DEF Inv, TxShape
    <3>2. UpdateShape(tx[s]) => UpdateShape(tx[s])'
      <4>1. tx[s].target \in Req
        BY DEF Inv, TypeOK, Tx
      <4>2. apps[tx[s].target] # NoRow => apps'[tx[s].target] # NoRow
        BY <4>1, <1>1, <1>2
      <4> QED BY <2>1, <3>1, <4>2 DEF UpdateShape
    <3> QED BY <3>1, <3>2 DEF Active, InsertShape, UpdateShape, Records
  <2>2. TxShape!(r)'
    BY <1>4 DEF Active
  <2> QED BY <2>1, <2>2 DEF TxShape
<1>8. HistoryMatchesStatus'
  <2>1. PICK e \in tx[r].entry :
          tx[r].entry = {e} /\ e.status = new.status /\ e.note = "set"
    BY <1>1 DEF Records
  <2>2. e.changed_at \in Nat
    BY <1>1 DEF Tx, Entry
  <2>3. new # NoRow /\ apps'[r].status = new.status /\ e \in hist'[r]
    BY <1>1, <1>2, <2>1, NoRowAssumption
  <2>4. Concludes(r, e)'
    BY <1>2, <2>1, <2>2, <2>3 DEF Concludes
  <2>5. ASSUME NEW a \in Req, a # r, apps[a] # NoRow
        PROVE  \E d \in hist'[a] : Concludes(a, d)'
    <3>1. PICK d \in hist[a] : Concludes(a, d)
      BY <2>5 DEF Inv, HistoryMatchesStatus
    <3>2. d.id \in Req
      BY DEF Inv, TypeOK, Entry
    <3> QED BY <1>2, <1>5, <2>5, <3>1, <3>2, ConcludesStays
  <2>6. ASSUME NEW a \in Req
        PROVE  IF apps'[a] = NoRow THEN hist'[a] = {}
               ELSE \E d \in hist'[a] : Concludes(a, d)'
    BY <1>2, <2>3, <2>4, <2>5 DEF Inv, HistoryMatchesStatus
  <2> QED BY <2>6 DEF HistoryMatchesStatus
<1>11. StampsAreCurrent'
  <2>1. /\ \A b \in Req : hist'[b] = IF b = r THEN hist[b] \cup tx[r].entry ELSE hist[b]
        /\ missed' = MissedBy(r) /\ clock' = clock
    BY <1>1, <1>2 DEF CommitInsert
  <2> QED BY <1>1, <1>4, <2>1, CommitStamps
<1>9. ChecksAreCurrent'
  <2> SUFFICES ASSUME NEW s \in Req, NEW a \in Req,
                      Active(s)', tx'[s].op = "post", Live(a)', tx'[a].op = "post",
                      a \notin moved', SameJob(apps'[a], tx'[s].new)
               PROVE  a \in missed'[s]
    BY DEF ChecksAreCurrent, SameJob
  <2>1. s # r /\ tx'[s] = tx[s] /\ Active(s)
    BY <1>4 DEF Active
  <2>2. CASE a = r
    BY <2>1, <2>2, <1>5
  <2>3. CASE a # r
    BY <2>1, <2>3, <1>2, <1>4, <1>5 DEF Inv, ChecksAreCurrent, Live
  <2> QED BY <2>2, <2>3
<1>10. DuplicatesAreRaced'
  <2> SUFFICES ASSUME NEW a \in Req, NEW b \in Req, a # b, Live(a)', Live(b)',
                      tx'[a].op = "post", tx'[b].op = "post",
                      a \notin moved', b \notin moved', SameJob(apps'[a], apps'[b])
               PROVE  a \in missed'[b] \/ b \in missed'[a]
    BY DEF DuplicatesAreRaced, SameJob
  <2>1. CASE a # r /\ b # r
    BY <2>1, <1>2, <1>4, <1>5 DEF Inv, DuplicatesAreRaced, Live
  <2>2. CASE b = r
    <3>1. Live(a) /\ tx[a].op = "post" /\ a \notin moved /\ SameJob(apps[a], new)
      BY <2>2, <1>2, <1>4 DEF Live
    <3>2. tx[r].op = "post"
      BY <2>2, <1>4
    <3> QED BY <2>2, <3>1, <3>2, <1>1, <1>5 DEF Inv, ChecksAreCurrent
  <2>3. CASE a = r
    <3>1. Live(b) /\ tx[b].op = "post" /\ b \notin moved /\ SameJob(apps[b], new)
      BY <2>3, <1>2, <1>4 DEF Live, SameJob
    <3>2. tx[r].op = "post"
      BY <2>3, <1>4
    <3> QED BY <2>3, <3>1, <3>2, <1>1, <1>5 DEF Inv, ChecksAreCurrent
  <2> QED BY <2>1, <2>2, <2>3
<1> QED BY <1>6, <1>7, <1>8, <1>9, <1>10, <1>11 DEF Inv

\* What an UPDATE leaves of the committed row, whatever row it started from.
LEMMA MergeFields ==
  ASSUME NEW old \in Row, NEW t \in Tx, UpdateShape(t)
  PROVE  /\ Merge(old, t).owner = old.owner
         /\ old.deleted => Merge(old, t).deleted
         /\ Merge(old, t).status = IF t.new.status # t.row.status
                                   THEN t.new.status ELSE old.status
         /\ t.new.company = t.row.company => Merge(old, t).company = old.company
         /\ t.new.job = t.row.job => Merge(old, t).job = old.job
<1>1. DOMAIN old = {"owner", "company", "role", "job", "status", "deleted"}
  BY DEF Row
<1>2. \A f \in DOMAIN old :
        Merge(old, t)[f] = IF t.new[f] # t.row[f] THEN t.new[f] ELSE old[f]
  BY DEF Merge
<1>3. t.new \in Row /\ t.row \in Row
  BY DEF UpdateShape
<1> QED BY <1>1, <1>2, <1>3 DEF UpdateShape, Row

\* A committed UPDATE extends the history by what it wrote, and makes no new
\* twin of a row it did not move.
LEMMA CommitUpdateInv ==
  ASSUME Inv, NEW r \in Req, CommitUpdate(r)
  PROVE  Inv'
<1> DEFINE g == tx[r].target
           row == Merge(apps[g], tx[r])
<1>1. /\ tx[r] \in Tx /\ Active(r) /\ UpdateShape(tx[r])
      /\ g \in Req /\ apps[g] \in Row /\ apps[r] = NoRow /\ apps[g] # NoRow
  BY DEF Inv, TypeOK, TxShape, UpdateShape, CommitUpdate, Active, Tx
<1>2. row \in Row /\ row # NoRow
  BY <1>1, MergeType, NoRowAssumption DEF UpdateShape
<1>3. /\ apps'[g] = row /\ \A a \in Req \ {g} : apps'[a] = apps[a]
      /\ hist'[g] = hist[g] \cup tx[r].entry
      /\ \A a \in Req \ {g} : hist'[a] = hist[a]
      /\ moved \subseteq moved' /\ missed' = MissedBy(r) /\ clock' = clock
      /\ \A s \in Req : missed[s] \subseteq missed'[s] /\ missed'[s] \subseteq Req
  BY <1>1 DEF Inv, TypeOK, CommitUpdate, MissedBy
<1>4. /\ row.owner = apps[g].owner
      /\ apps[g].deleted => row.deleted
      /\ row.status = IF tx[r].new.status # tx[r].row.status
                      THEN tx[r].new.status ELSE apps[g].status
      /\ g \notin moved' => row.company = apps[g].company /\ row.job = apps[g].job
  BY <1>1, MergeFields DEF CommitUpdate
<1> HIDE DEF row
<1>5. g # r
  BY <1>1
<1> DEFINE o == CASE tx[r].op = "patch"  -> "updated"
                  [] tx[r].op = "delete" -> "deleted"
                  [] OTHER               -> "processed"
           t == [tx[r] EXCEPT !.pc = "done", !.out = o]
<1>6. o \in Outcome
  BY DEF Outcome
<1>7. tx' = [tx EXCEPT ![r] = t]
  BY <1>1 DEF CommitUpdate, Ended, Inv, TypeOK
<1> HIDE DEF o
<1>8. t \in Tx /\ t.pc = "done" /\ t.op = tx[r].op /\ t.entry = tx[r].entry
  BY <1>1, <1>6 DEF Tx, Phase
<1> HIDE DEF t
<1>9. /\ tx'[r].pc = "done" /\ tx'[r].op = tx[r].op /\ tx'[r].entry = tx[r].entry
      /\ \A s \in Req \ {r} : tx'[s] = tx[s]
  BY <1>7, <1>8 DEF Inv, TypeOK
<1>10. TypeOK'
  <2>1. apps' \in [Req -> Row \cup {NoRow}]
    BY <1>1, <1>2, <1>3 DEF Inv, TypeOK, CommitUpdate, row
  <2>2. hist' \in [Req -> SUBSET Entry] /\ clock' \in Nat
    <3>1. hist[g] \cup tx[r].entry \in SUBSET Entry
      BY <1>1 DEF Inv, TypeOK, Tx
    <3> QED BY <3>1, <1>1 DEF Inv, TypeOK, CommitUpdate
  <2>3. queue' \subseteq Msg /\ moved' \subseteq Req /\ missed' \in [Req -> SUBSET Req]
    BY <1>1 DEF Inv, TypeOK, CommitUpdate, MissedBy, Tx
  <2>4. tx' \in [Req -> Tx]
    BY <1>7, <1>8 DEF Inv, TypeOK
  <2> QED BY <2>1, <2>2, <2>3, <2>4 DEF TypeOK
<1>11. TxShape'
  <2>1. ASSUME NEW s \in Req, s # r PROVE TxShape!(s)'
    <3>1. tx'[s] = tx[s] /\ TxShape!(s)
      BY <2>1, <1>9 DEF Inv, TxShape
    <3>2. UpdateShape(tx[s]) => UpdateShape(tx[s])'
      <4>1. tx[s].target \in Req
        BY DEF Inv, TypeOK, Tx
      <4>2. apps[tx[s].target] # NoRow => apps'[tx[s].target] # NoRow
        BY <4>1, <1>2, <1>3
      <4> QED BY <2>1, <3>1, <4>2 DEF UpdateShape
    <3>3. tx[s].pc # "done" => s # g
      BY <3>1, <1>1
    <3> QED BY <2>1, <3>1, <3>2, <3>3, <1>3 DEF Active, InsertShape, UpdateShape, Records
  <2>2. TxShape!(r)'
    BY <1>9 DEF Active
  <2> QED BY <2>1, <2>2 DEF TxShape
<1>12. HistoryMatchesStatus'
  <2>1. ASSUME NEW a \in Req, apps[a] # NoRow, apps'[a].status = apps[a].status,
               \A f \in hist'[a] : f \in hist[a] \/ f.note # "set"
        PROVE  \E d \in hist'[a] : Concludes(a, d)'
    <3>1. PICK d \in hist[a] : Concludes(a, d)
      BY <2>1 DEF Inv, HistoryMatchesStatus
    <3>2. d.id \in Req /\ d \in hist'[a]
      BY <1>3 DEF Inv, TypeOK, Entry
    <3> QED BY <1>3, <2>1, <3>1, <3>2, ConcludesStays
  <2>2. ASSUME NEW a \in Req, a = g PROVE \E d \in hist'[a] : Concludes(a, d)'
    <3>1. CASE Records(tx[r], tx[r].new.status, "set")
               /\ tx[r].new.status # tx[r].row.status
      <4>1. PICK e \in tx[r].entry : tx[r].entry = {e} /\ e.status = tx[r].new.status
                                    /\ e.note = "set"
        BY <3>1 DEF Records
      <4>2. e.id = r /\ e.changed_at \in Nat /\ e \in hist'[a]
        BY <2>2, <1>1, <1>3 DEF Inv, StampsAreCurrent, Tx, Entry
      <4>3. \A f \in hist'[a] : f.changed_at > e.changed_at => f.id \in missed'[r]
        <5>1. \A f \in hist[g] : f.changed_at > e.changed_at => f.id \in missed[r]
          BY <1>1 DEF Inv, StampsAreCurrent
        <5> QED BY <2>2, <1>3, <4>1, <4>2, <5>1
      <4>4. Concludes(a, e)'
        BY <2>2, <1>3, <1>4, <3>1, <4>1, <4>2, <4>3 DEF Concludes
      <4> QED BY <4>2, <4>4
    <3>2. CASE tx[r].new.status = tx[r].row.status /\ tx[r].entry = {}
      BY <2>2, <3>2, <2>1, <1>1, <1>3, <1>4
    <3>3. CASE /\ tx[r].new.status = tx[r].row.status
               /\ \E n \in Status : Records(tx[r], n, "deleted")
      <4>1. \A f \in tx[r].entry : f.note # "set"
        BY <3>3 DEF Records
      <4> QED BY <2>2, <3>3, <4>1, <2>1, <1>1, <1>3, <1>4
    <3> QED BY <3>1, <3>2, <3>3, <1>1 DEF UpdateShape
  <2>3. ASSUME NEW a \in Req
        PROVE  IF apps'[a] = NoRow THEN hist'[a] = {}
               ELSE \E d \in hist'[a] : Concludes(a, d)'
    <3>1. CASE a = g
      BY <3>1, <1>2, <1>3, <2>2
    <3>2. CASE a # g
      BY <3>2, <1>3, <2>1 DEF Inv, HistoryMatchesStatus
    <3> QED BY <3>1, <3>2
  <2> QED BY <2>3 DEF HistoryMatchesStatus
<1>13. \A a \in Req : Live(a)' /\ a \notin moved' =>
         /\ Live(a) /\ a \notin moved
         /\ apps'[a].owner = apps[a].owner /\ apps'[a].company = apps[a].company
         /\ apps'[a].job = apps[a].job
  BY <1>1, <1>2, <1>3, <1>4 DEF Live
<1>14. ChecksAreCurrent'
  <2> SUFFICES ASSUME NEW s \in Req, NEW a \in Req,
                      Active(s)', tx'[s].op = "post", Live(a)', tx'[a].op = "post",
                      a \notin moved', SameJob(apps'[a], tx'[s].new)
               PROVE  a \in missed'[s]
    BY DEF ChecksAreCurrent, SameJob
  <2>1. s # r /\ tx'[s] = tx[s] /\ Active(s)
    BY <1>9 DEF Active
  <2>2. Live(a) /\ a \notin moved /\ SameJob(apps[a], tx[s].new)
    BY <2>1, <1>13 DEF SameJob
  <2>3. tx[a].op = "post"
    BY <1>9
  <2> QED BY <2>1, <2>2, <2>3, <1>3 DEF Inv, ChecksAreCurrent
<1>15. DuplicatesAreRaced'
  <2> SUFFICES ASSUME NEW a \in Req, NEW b \in Req, a # b, Live(a)', Live(b)',
                      tx'[a].op = "post", tx'[b].op = "post",
                      a \notin moved', b \notin moved', SameJob(apps'[a], apps'[b])
               PROVE  a \in missed'[b] \/ b \in missed'[a]
    BY DEF DuplicatesAreRaced, SameJob
  <2>1. /\ Live(a) /\ a \notin moved /\ Live(b) /\ b \notin moved
        /\ SameJob(apps[a], apps[b])
    BY <1>13 DEF SameJob
  <2>2. tx[a].op = "post" /\ tx[b].op = "post"
    BY <1>9
  <2> QED BY <2>1, <2>2, <1>3 DEF Inv, DuplicatesAreRaced
<1>16. StampsAreCurrent'
  <2>1. \A b \in Req : hist'[b] = IF b = g THEN hist[b] \cup tx[r].entry ELSE hist[b]
    BY <1>3
  <2> QED BY <1>1, <1>3, <1>9, <2>1, CommitStamps
<1> QED BY <1>10, <1>11, <1>12, <1>14, <1>15, <1>16 DEF Inv

-----------------------------------------------------------------------------
(* Theorems *)

\* No request has arrived: nothing is stored.
LEMMA InitInv == Init => Inv
<1> SUFFICES ASSUME Init PROVE Inv
  OBVIOUS
<1>1. \A r \in Req : tx[r] = IdleTx(r) /\ apps[r] = NoRow /\ hist[r] = {}
  BY DEF Init
<1>2. TypeOK
  BY IdleTxType DEF Init, TypeOK
<1>3. TxShape
  <2>1. ASSUME NEW r \in Req PROVE TxShape!(r)
    <3>1. IdleTx(r).pc = "idle" /\ IdleTx(r).write = "none"
      BY DEF IdleTx
    <3> QED BY <1>1, <3>1 DEF Active
  <2> QED BY <2>1 DEF TxShape
<1>4. HistoryMatchesStatus
  BY <1>1 DEF HistoryMatchesStatus
<1>6. StampsAreCurrent
  <2>1. \A r \in Req : tx[r].entry = {}
    <3>1. \A r \in Req : IdleTx(r).entry = {}
      BY DEF IdleTx
    <3> QED BY <1>1, <3>1
  <2> QED BY <1>1, <2>1 DEF StampsAreCurrent
<1>5. ChecksAreCurrent /\ DuplicatesAreRaced
  BY <1>1 DEF ChecksAreCurrent, DuplicatesAreRaced, Live
<1> QED BY <1>2, <1>3, <1>4, <1>5, <1>6 DEF Inv

\* Every step of every request keeps the invariant.
LEMMA NextInv == Inv /\ [Next]_vars => Inv'
<1> SUFFICES ASSUME Inv, [Next]_vars PROVE Inv'
  OBVIOUS
<1>1. CASE UNCHANGED vars
  BY <1>1 DEF vars, Inv, TypeOK, TxShape, InsertShape, UpdateShape, Records, Active,
     HistoryMatchesStatus, Concludes, StampsAreCurrent, ChecksAreCurrent,
     DuplicatesAreRaced, Live
<1>2. ASSUME NEW r \in Req, Receive(r) PROVE Inv'
  BY <1>2, PostHardCheckInv, GenerateInv, GetMissingInv, PatchReadInv,
     DeleteReadInv, EmailDedupInv DEF Receive
<1>3. ASSUME NEW r \in Req, Step(r) PROVE Inv'
  BY <1>3, PostSoftCheckInv, LockRowInv, EmailMatchInv, EmailCreateInv,
     QueueMessageInv, CommitInsertInv, CommitUpdateInv, CommitMessageInv DEF Step
<1>4. ASSUME NEW r \in Req, Rollback(r) PROVE Inv'
  BY <1>4, RollbackInv
<1> QED BY <1>1, <1>2, <1>3, <1>4 DEF Next, Quiet

\* Inv is an invariant, hence so is each of its parts.
THEOREM Invariance == Spec => []Inv
BY InitInv, NextInv, PTL DEF Spec

\* Type correctness of every reachable state.
THEOREM TypeCorrect == Spec => []TypeOK
<1>1. Inv => TypeOK
  BY DEF Inv
<1> QED BY <1>1, Invariance, PTL

\* An application's history, in the order of changed_at in which the API returns
\* it, ends with its status, for any number of requests of any kind overlapping in
\* any way, but for entries whose writer committed while the status's was under way.
THEOREM HistoryIsFaithful == Spec => []HistoryMatchesStatus
<1>1. Inv => HistoryMatchesStatus
  BY DEF Inv
<1> QED BY <1>1, Invariance, PTL

\* Hard duplicates come only from overlapping POSTs or from a PATCH.
THEOREM DuplicateCheckIsCurrent == Spec => []DuplicatesAreRaced
<1>1. Inv => DuplicatesAreRaced
  BY DEF Inv
<1> QED BY <1>1, Invariance, PTL

-----------------------------------------------------------------------------
(* Action properties *)

\* Only a commit changes an application.
LEMMA OnlyCommitsWrite ==
  ASSUME [Next]_vars, apps' # apps
  PROVE  \E r \in Req : CommitInsert(r) \/ CommitUpdate(r)
<1>1. \E r \in Req : Receive(r) \/ Step(r) \/ Rollback(r)
  BY DEF Next, Quiet, vars
<1>2. ASSUME NEW r \in Req, Receive(r) PROVE apps' = apps
  BY <1>2 DEF Receive, PostHardCheck, Generate, GetMissing, PatchRead,
     DeleteRead, EmailDedup
<1>3. ASSUME NEW r \in Req, Rollback(r) PROVE apps' = apps
  BY <1>3 DEF Rollback
<1>4. ASSUME NEW r \in Req, Step(r) PROVE CommitInsert(r) \/ CommitUpdate(r)
  BY <1>4 DEF Step, PostSoftCheck, LockRow, EmailMatch, EmailCreate,
     QueueMessage, CommitMessage
<1> QED BY <1>1, <1>2, <1>3, <1>4

\* A soft-deleted application stays deleted, whatever stale row an
\* overlapping request writes from.
THEOREM DeletionIsFinal == Spec => DeletedStaysDeleted
<1>1. ASSUME Inv, [Next]_vars, NEW a \in Req, apps[a] # NoRow, apps[a].deleted
      PROVE  apps'[a] # NoRow /\ apps'[a].deleted
  <2>1. CASE apps' = apps
    BY <1>1, <2>1
  <2>2. CASE apps' # apps
    <3>1. PICK r \in Req : CommitInsert(r) \/ CommitUpdate(r)
      BY <1>1, <2>2, OnlyCommitsWrite
    <3>2. CASE CommitInsert(r)
      <4>1. a # r /\ apps'[a] = apps[a]
        BY <1>1, <3>2 DEF Inv, TxShape, CommitInsert, TypeOK
      <4> QED BY <1>1, <4>1
    <3>3. CASE CommitUpdate(r)
      <4>1. /\ tx[r] \in Tx /\ UpdateShape(tx[r]) /\ apps[a] \in Row
        BY <1>1, <3>3 DEF Inv, TypeOK, TxShape, CommitUpdate, Active
      <4>2. apps'[a] = apps[a] \/ apps'[a] = Merge(apps[a], tx[r])
        BY <1>1, <3>3 DEF CommitUpdate, Inv, TypeOK
      <4>3. Merge(apps[a], tx[r]) \in Row /\ Merge(apps[a], tx[r]).deleted
        BY <1>1, <4>1, MergeType, MergeFields DEF UpdateShape
      <4> QED BY <1>1, <4>2, <4>3, NoRowAssumption
    <3> QED BY <3>1, <3>2, <3>3
  <2> QED BY <2>1, <2>2
<1>2. Inv /\ [Next]_vars =>
        [\A a \in Req : apps[a] # NoRow /\ apps[a].deleted
                       => apps'[a] # NoRow /\ apps'[a].deleted]_vars
  BY <1>1
<1> QED BY <1>2, Invariance, PTL DEF Spec, DeletedStaysDeleted

-----------------------------------------------------------------------------
(* Message ids and owners *)

\* What MessageShape and MessageAppliedOnce ask of a request's next
\* transaction state when the queue stays as it is.
MessageFits(r, t) ==
    /\ t.msg = {} \/ \E m \in Msg : t.msg = {m}
    /\ t.pc = "idle" \/ t.op # "email" => t.msg = {}
    /\ t.out \notin {"created", "processed", "ignored"}
    /\ t.pc = "flushed" =>
          /\ t.msg \cap queue = {}
          /\ \A s \in Req \ {r} :
                tx[s].pc = "flushed" => t.msg \cap tx[s].msg = {}

OwnerFits(t) ==
    /\ t.pc = "match" => t.op = "email"
    /\ t.pc = "locking" \/ (t.pc \notin {"idle", "done"} /\ t.write = "update")
          => t.op = "email" \/ t.owner = apps[t.target].owner

\* A step that commits nothing and whose transaction fits.
LEMMA LocalShapes ==
  ASSUME Inv, MessageShape, MessageAppliedOnce, OwnerShape, NEW r \in Req,
         \A s \in Req \ {r} : tx'[s] = tx[s], UNCHANGED <<apps, queue>>,
         MessageFits(r, tx'[r]), OwnerFits(tx'[r])
  PROVE  MessageShape' /\ MessageAppliedOnce' /\ OwnerShape'
<1>1. MessageShape'
  <2>1. ASSUME NEW s \in Req, s # r PROVE MessageShape!(s)'
    <3>1. tx'[s] = tx[s] /\ MessageShape!(s)
      BY <2>1 DEF MessageShape
    <3> QED BY <2>1, <3>1 DEF MessageFits
  <2>2. MessageShape!(r)'
    BY DEF MessageFits
  <2> QED BY <2>1, <2>2 DEF MessageShape
<1>2. MessageAppliedOnce'
  BY DEF MessageAppliedOnce, MessageFits
<1>3. OwnerShape'
  <2>1. ASSUME NEW s \in Req, s # r PROVE OwnerShape!(s)'
    BY <2>1 DEF OwnerShape, Active
  <2>2. OwnerShape!(r)'
    BY DEF OwnerFits, Active
  <2> QED BY <2>1, <2>2 DEF OwnerShape
<1> QED BY <1>1, <1>2, <1>3

\* The same for a step that replaces the transaction by t.
LEMMA PutShapes ==
  ASSUME Inv, MessageShape, MessageAppliedOnce, OwnerShape, NEW r \in Req,
         NEW t, tx' = [tx EXCEPT ![r] = t], UNCHANGED <<apps, queue>>,
         MessageFits(r, t), OwnerFits(t)
  PROVE  MessageShape' /\ MessageAppliedOnce' /\ OwnerShape'
<1>1. tx'[r] = t /\ \A s \in Req \ {r} : tx'[s] = tx[s]
  BY DEF Inv, TypeOK
<1> QED BY <1>1, LocalShapes

\* An answered request carries no message and no UPDATE.
LEMMA FinishShapes ==
  ASSUME Inv, MessageShape, MessageAppliedOnce, OwnerShape, NEW r \in Req,
         NEW o, Finish(r, o), UNCHANGED <<apps, queue>>,
         o \notin {"created", "processed", "ignored"}
  PROVE  MessageShape' /\ MessageAppliedOnce' /\ OwnerShape'
<1> DEFINE t == [IdleTx(r) EXCEPT !.pc = "done", !.out = o]
<1>1. t.pc = "done" /\ t.out = o /\ t.msg = {}
  BY DEF IdleTx
<1>2. tx' = [tx EXCEPT ![r] = t]
  BY DEF Finish
<1> HIDE DEF t
<1>3. MessageFits(r, t) /\ OwnerFits(t)
  BY <1>1 DEF MessageFits, OwnerFits
<1> QED BY <1>2, <1>3, PutShapes

\* The requests that leave the message alone: POST, generation, PATCH, DELETE.
LEMMA ReceiveShapes ==
  ASSUME Inv, MessageShape, MessageAppliedOnce, OwnerShape, NEW r \in Req, Receive(r)
  PROVE  MessageShape' /\ MessageAppliedOnce' /\ OwnerShape'
<1>0. /\ UNCHANGED <<apps, queue>> /\ tx[r] \in Tx /\ tx[r].pc = "idle"
      /\ tx[r].write = "none" /\ tx[r].msg = {}
      /\ tx[r].out \notin {"created", "processed", "ignored"} /\ TypeOK
  BY DEF Receive, PostHardCheck, Generate, GetMissing, PatchRead, DeleteRead,
     EmailDedup, Receivable, Inv, TypeOK, TxShape, MessageShape
<1>1. ASSUME NEW row \in Row, PostHardCheck(r, row) PROVE MessageShape' /\ MessageAppliedOnce' /\ OwnerShape'
  <2>1. CASE Finish(r, "duplicate") \/ Finish(r, "multiple")
    BY <1>0, <2>1, FinishShapes
  <2>2. CASE tx' = [tx EXCEPT ![r] = [tx[r] EXCEPT !.pc = "soft", !.op = "post",
                       !.owner = row.owner, !.new = row]]
    <3> DEFINE t == [tx[r] EXCEPT !.pc = "soft", !.op = "post",
                                  !.owner = row.owner, !.new = row]
    <3>1. tx' = [tx EXCEPT ![r] = t]
      BY <1>0, <2>2 DEF PostHardCheck
    <3>2. t.pc = "soft" /\ t.msg = {} /\ t.out = tx[r].out /\ t.write = "none"
      BY <1>0, <2>2 DEF Tx
    <3> HIDE DEF t
    <3>3. MessageFits(r, t) /\ OwnerFits(t)
      BY <1>0, <2>2, <3>2 DEF MessageFits, OwnerFits
    <3> QED BY <1>0, <3>1, <3>3, PutShapes
  <2> QED BY <1>1, <2>1, <2>2 DEF PostHardCheck
<1>2. ASSUME NEW o \in Owner, NEW c \in Company, NEW l \in Role, Generate(r, o, c, l)
      PROVE  MessageShape' /\ MessageAppliedOnce' /\ OwnerShape'
  <2> DEFINE t == [tx[r] EXCEPT !.pc = "flushed", !.op = "generate",
                      !.owner = o, !.write = "insert",
                      !.new = NewRow(o, c, l, NoJob, Applied),
                      !.warn = ExistingPostings(NewRow(o, c, l, NoJob, Applied)) # {},
                      !.entry = EntryOf(r, Applied, "set")]
  <2>1. tx' = [tx EXCEPT ![r] = t]
    BY <1>0, <1>2 DEF Generate
  <2>2. /\ t.msg = {} /\ t.out = tx[r].out /\ t.write = "insert"
        /\ t.pc = "flushed"
    BY <1>0, <1>2 DEF Tx
  <2> HIDE DEF t
  <2>3. MessageFits(r, t) /\ OwnerFits(t)
    BY <1>0, <1>2, <2>2 DEF MessageFits, OwnerFits
  <2> QED BY <1>0, <2>1, <2>3, PutShapes
<1>3. ASSUME NEW op \in Operations, NEW a \in Req, NEW o \in Owner,
             GetMissing(r, op, a, o)
      PROVE  MessageShape' /\ MessageAppliedOnce' /\ OwnerShape'
  BY <1>0, <1>3, FinishShapes DEF GetMissing
<1>4. ASSUME NEW a \in Req, NEW o \in Owner, NEW new \in Row, PatchRead(r, a, o, new)
      PROVE  MessageShape' /\ MessageAppliedOnce' /\ OwnerShape'
  <2> DEFINE t == [tx[r] EXCEPT !.pc = "locking", !.op = "patch",
                      !.owner = o, !.target = a, !.row = apps[a], !.new = new,
                      !.entry = IF new.status # apps[a].status
                                THEN EntryOf(r, new.status, "set") ELSE {}]
  <2>1. tx' = [tx EXCEPT ![r] = t]
    BY <1>0, <1>4 DEF PatchRead
  <2>2. /\ t.msg = {} /\ t.out = tx[r].out /\ t.pc = "locking"
        /\ t.owner = o /\ t.target = a
    BY <1>0, <1>4 DEF Tx
  <2> HIDE DEF t
  <2>3. MessageFits(r, t) /\ OwnerFits(t)
    BY <1>0, <1>4, <2>2 DEF MessageFits, OwnerFits, PatchRead, Owned
  <2> QED BY <1>0, <2>1, <2>3, PutShapes
<1>5. ASSUME NEW a \in Req, NEW o \in Owner, DeleteRead(r, a, o) PROVE MessageShape' /\ MessageAppliedOnce' /\ OwnerShape'
  <2>1. CASE Finish(r, "noop")
    BY <1>0, <2>1, FinishShapes
  <2>2. CASE ~Finish(r, "noop")
    <3> DEFINE t == [tx[r] EXCEPT !.pc = "locking", !.op = "delete",
                        !.owner = o, !.target = a, !.row = apps[a],
                        !.new = [apps[a] EXCEPT !.deleted = TRUE],
                        !.entry = EntryOf(r, apps[a].status, "deleted")]
    <3>1. tx' = [tx EXCEPT ![r] = t]
      BY <1>0, <1>5, <2>2 DEF DeleteRead
    <3>2. /\ t.msg = {} /\ t.out = tx[r].out /\ t.pc = "locking"
          /\ t.owner = o /\ t.target = a
      BY <1>0, <1>5, <2>2 DEF Tx
    <3> HIDE DEF t
    <3>3. MessageFits(r, t) /\ OwnerFits(t)
      BY <1>0, <1>5, <2>2, <3>2 DEF MessageFits, OwnerFits, DeleteRead, Owned
    <3> QED BY <1>0, <3>1, <3>3, PutShapes
  <2> QED BY <2>1, <2>2
<1>6. ASSUME NEW m \in Msg, NEW i \in BOOLEAN, EmailDedup(r, m, i) PROVE MessageShape' /\ MessageAppliedOnce' /\ OwnerShape'
  <2>1. CASE Finish(r, "skipped")
    BY <1>0, <2>1, FinishShapes
  <2>2. CASE ~Finish(r, "skipped")
    <3> DEFINE t == [tx[r] EXCEPT !.op = "email", !.msg = {m},
                        !.pc = IF i THEN "queueing" ELSE "match"]
    <3>1. tx' = [tx EXCEPT ![r] = t]
      BY <1>0, <1>6, <2>2 DEF EmailDedup
    <3>2. /\ t.msg = {m} /\ t.out = tx[r].out /\ t.op = "email"
          /\ t.pc \in {"queueing", "match"} /\ t.write = "none"
      BY <1>0, <1>6, <2>2 DEF Tx
    <3> HIDE DEF t
    <3>3. MessageFits(r, t) /\ OwnerFits(t)
      BY <1>0, <1>6, <2>2, <3>2 DEF MessageFits, OwnerFits
    <3> QED BY <1>0, <3>1, <3>3, PutShapes
  <2> QED BY <2>1, <2>2
<1> QED BY <1>1, <1>2, <1>3, <1>4, <1>5, <1>6 DEF Receive

\* The message's INSERT passes only when the id is neither in the queue nor
\* held by another transaction.
LEMMA QueueMessageShapes ==
  ASSUME Inv, MessageShape, MessageAppliedOnce, OwnerShape, NEW r \in Req,
         QueueMessage(r)
  PROVE  MessageShape' /\ MessageAppliedOnce' /\ OwnerShape'
<1>0. UNCHANGED <<apps, queue>> /\ TypeOK /\ tx[r] \in Tx /\ tx[r].pc = "queueing"
  BY DEF QueueMessage, Inv, TypeOK
<1>1. CASE Finish(r, "conflict")
  BY <1>0, <1>1, FinishShapes
<1>2. CASE ~(tx[r].msg \subseteq queue) /\ tx' = [tx EXCEPT ![r].pc = "flushed"]
  <2>1. /\ \A s \in Req \ {r} : tx'[s] = tx[s]
        /\ tx'[r].pc = "flushed" /\ tx'[r].msg = tx[r].msg /\ tx'[r].op = tx[r].op
        /\ tx'[r].out = tx[r].out /\ tx'[r].write = tx[r].write
        /\ tx'[r].target = tx[r].target /\ tx'[r].owner = tx[r].owner
    BY <1>0, <1>2 DEF TypeOK, Tx
  <2>2. OwnerFits(tx'[r])
    BY <1>0, <2>1 DEF OwnerFits, OwnerShape, Active
  <2>3. PICK m \in Msg : tx[r].msg = {m}
    BY <1>2 DEF MessageShape
  <2>4. m \notin queue /\ \A s \in Req : tx[s].pc = "flushed" => m \notin tx[s].msg
    BY <1>2, <2>3 DEF QueueMessage, MessagePending, MessageShape
  <2>5. tx[r].op = "email" /\ tx[r].out \notin {"created", "processed", "ignored"}
    BY <1>0, <2>3 DEF MessageShape
  <2>6. MessageFits(r, tx'[r])
    BY <2>1, <2>3, <2>4, <2>5 DEF MessageFits
  <2> QED BY <1>0, <2>1, <2>2, <2>6, LocalShapes
<1> QED BY <1>1, <1>2 DEF QueueMessage

\* The other steps of a request before its commit.
LEMMA StepShapes ==
  ASSUME Inv, MessageShape, MessageAppliedOnce, OwnerShape, NEW r \in Req,
         \/ PostSoftCheck(r) \/ LockRow(r)
         \/ \E c \in Company, s \in Status : EmailMatch(r, c, s)
         \/ \E c \in Company, l \in Role, s \in Status : EmailCreate(r, c, l, s)
  PROVE  MessageShape' /\ MessageAppliedOnce' /\ OwnerShape'
<1>0. /\ UNCHANGED <<apps, queue>> /\ TypeOK /\ tx[r] \in Tx
      /\ tx[r].pc \in {"soft", "locking", "match"} /\ tx[r].write = "none"
      /\ tx[r].out \notin {"created", "processed", "ignored"}
      /\ tx[r].op # "email" => tx[r].msg = {}
      /\ tx[r].msg = {} \/ \E m \in Msg : tx[r].msg = {m}
  BY DEF PostSoftCheck, LockRow, EmailMatch, EmailCreate, Inv, TypeOK, TxShape,
     MessageShape
<1>1. CASE PostSoftCheck(r)
  <2>1. CASE Finish(r, "multiple")
    BY <1>0, <2>1, FinishShapes
  <2>2. CASE ~Finish(r, "multiple")
    <3>0. tx[r].op = "post" /\ tx[r].msg = {}
      BY <1>0, <1>1 DEF PostSoftCheck, Inv, TxShape
    <3> DEFINE t == [tx[r] EXCEPT !.pc = "flushed", !.write = "insert",
                        !.warn = SoftMatches(tx[r].new) # {},
                        !.entry = EntryOf(r, tx[r].new.status, "set")]
    <3>1. tx' = [tx EXCEPT ![r] = t]
      BY <1>0, <1>1, <2>2, <3>0 DEF PostSoftCheck
    <3>2. /\ t.msg = {} /\ t.out = tx[r].out /\ t.pc = "flushed"
          /\ t.write = "insert"
      BY <1>0, <1>1, <2>2, <3>0 DEF Tx
    <3> HIDE DEF t
    <3>3. MessageFits(r, t) /\ OwnerFits(t)
      BY <1>0, <1>1, <2>2, <3>0, <3>2 DEF MessageFits, OwnerFits
    <3> QED BY <1>0, <3>1, <3>3, PutShapes
  <2> QED BY <2>1, <2>2
<1>2. CASE LockRow(r)
  <2>0. tx[r].op = "email" \/ tx[r].owner = apps[tx[r].target].owner
    BY <1>2 DEF OwnerShape, LockRow
  <2> DEFINE t == [tx[r] EXCEPT !.write = "update",
                      !.pc = IF tx[r].op = "email" THEN "queueing" ELSE "flushed"]
  <2>1. tx' = [tx EXCEPT ![r] = t]
    BY <1>0, <1>2, <2>0 DEF LockRow
  <2>2. /\ t.msg = tx[r].msg /\ t.out = tx[r].out /\ t.op = tx[r].op
        /\ t.owner = tx[r].owner /\ t.target = tx[r].target
        /\ t.pc = IF tx[r].op = "email" THEN "queueing" ELSE "flushed"
    BY <1>0, <1>2, <2>0 DEF Tx
  <2> HIDE DEF t
  <2>3. MessageFits(r, t) /\ OwnerFits(t)
    BY <1>0, <1>2, <2>0, <2>2 DEF MessageFits, OwnerFits
  <2> QED BY <1>0, <2>1, <2>3, PutShapes
<1>3. ASSUME NEW c \in Company, NEW s \in Status, EmailMatch(r, c, s) PROVE MessageShape' /\ MessageAppliedOnce' /\ OwnerShape'
  <2>0. PICK a \in Req :
          tx' = [tx EXCEPT ![r] = [tx[r] EXCEPT !.target = a, !.row = apps[a],
                    !.new = [apps[a] EXCEPT !.status = s],
                    !.pc = IF s # apps[a].status THEN "locking" ELSE "queueing",
                    !.entry = IF s # apps[a].status
                              THEN EntryOf(r, s, "set") ELSE {}]]
    BY <1>3 DEF EmailMatch, CompanyMatches
  <2>4. tx[r].op = "email"
    BY <1>3 DEF EmailMatch, OwnerShape
  <2> DEFINE t == [tx[r] EXCEPT !.target = a, !.row = apps[a],
                      !.new = [apps[a] EXCEPT !.status = s],
                      !.pc = IF s # apps[a].status THEN "locking" ELSE "queueing",
                      !.entry = IF s # apps[a].status
                                THEN EntryOf(r, s, "set") ELSE {}]
  <2>1. tx' = [tx EXCEPT ![r] = t]
    BY <1>0, <2>0, <2>4 DEF EmailMatch
  <2>2. /\ t.msg = tx[r].msg /\ t.out = tx[r].out /\ t.op = "email"
        /\ t.pc \in {"locking", "queueing"}
    BY <1>0, <2>0, <2>4 DEF Tx
  <2> HIDE DEF t
  <2>3. MessageFits(r, t) /\ OwnerFits(t)
    BY <1>0, <2>0, <2>4, <2>2 DEF MessageFits, OwnerFits
  <2> QED BY <1>0, <2>1, <2>3, PutShapes
<1>4. ASSUME NEW c \in Company, NEW l \in Role, NEW s \in Status,
             EmailCreate(r, c, l, s)
      PROVE  MessageShape' /\ MessageAppliedOnce' /\ OwnerShape'
  <2> DEFINE t == [tx[r] EXCEPT !.pc = "queueing", !.write = "insert",
                      !.new = NewRow(DefaultOwner, c, l, NoJob, s),
                      !.entry = EntryOf(r, s, "set")]
  <2>1. tx' = [tx EXCEPT ![r] = t]
    BY <1>0, <1>4 DEF EmailCreate
  <2>2. /\ t.msg = tx[r].msg /\ t.out = tx[r].out /\ t.op = tx[r].op
        /\ t.pc = "queueing" /\ t.write = "insert"
    BY <1>0, <1>4 DEF Tx
  <2> HIDE DEF t
  <2>3. MessageFits(r, t) /\ OwnerFits(t)
    BY <1>0, <1>4, <2>2 DEF MessageFits, OwnerFits
  <2> QED BY <1>0, <2>1, <2>3, PutShapes
<1> QED BY <1>1, <1>2, <1>3, <1>4

\* A commit puts its message into the queue, where no request has it yet, and
\* leaves every application its owner.
LEMMA CommitShapes ==
  ASSUME Inv, MessageShape, MessageAppliedOnce, OwnerShape, NEW r \in Req,
         CommitInsert(r) \/ CommitUpdate(r) \/ CommitMessage(r)
  PROVE  MessageShape' /\ MessageAppliedOnce' /\ OwnerShape'
<1>1. /\ queue' = queue \cup tx[r].msg /\ tx[r].pc = "flushed" /\ tx[r] \in Tx
      /\ TypeOK
  BY DEF CommitInsert, CommitUpdate, CommitMessage, Inv, TypeOK
<1>2. /\ tx'[r].pc = "done" /\ tx'[r].msg = tx[r].msg /\ tx'[r].op = tx[r].op
      /\ \A s \in Req \ {r} : tx'[s] = tx[s]
  <2>1. ASSUME NEW o, tx' = Ended(r, o)
        PROVE  /\ tx'[r].pc = "done" /\ tx'[r].msg = tx[r].msg
               /\ tx'[r].op = tx[r].op /\ \A s \in Req \ {r} : tx'[s] = tx[s]
    BY <1>1, <2>1 DEF Ended, TypeOK, Tx
  <2>2. \E o : tx' = Ended(r, o)
    BY DEF CommitInsert, CommitUpdate, CommitMessage
  <2> QED BY <2>1, <2>2
<1>3. MessageShape'
  <2>1. ASSUME NEW s \in Req, s # r PROVE MessageShape!(s)'
    <3>1. /\ tx'[s] = tx[s] /\ MessageShape!(s)
          /\ tx[s].pc = "flushed" => tx[r].msg \cap tx[s].msg = {}
      BY <2>1, <1>1, <1>2 DEF MessageShape
    <3> QED BY <2>1, <3>1, <1>1, <1>2
  <2>2. MessageShape!(r)'
    <3>1. MessageShape!(r)
      BY DEF MessageShape
    <3> QED BY <3>1, <1>1, <1>2
  <2> QED BY <2>1, <2>2 DEF MessageShape
<1>4. MessageAppliedOnce'
  <2>1. \A s \in Req \ {r} : tx'[s].out \in {"created", "processed", "ignored"}
            => tx'[s].msg \cap tx'[r].msg = {}
    BY <1>1, <1>2 DEF MessageShape
  <2> QED BY <2>1, <1>2 DEF MessageAppliedOnce
<1>5. \A a \in Req : apps[a] # NoRow => apps'[a].owner = apps[a].owner
  <2>1. CASE CommitInsert(r)
    <3>1. apps[r] = NoRow
      BY <1>1 DEF Inv, TxShape
    <3> QED BY <2>1, <3>1 DEF CommitInsert, Inv, TypeOK
  <2>2. CASE CommitUpdate(r)
    <3>1. UpdateShape(tx[r])
      BY <1>1, <2>2 DEF Inv, TxShape, Active, CommitUpdate
    <3>2. ASSUME NEW a \in Req, apps[a] # NoRow
          PROVE  apps'[a].owner = apps[a].owner
      <4>1. apps[a] \in Row /\ Merge(apps[a], tx[r]).owner = apps[a].owner
        BY <1>1, <3>1, <3>2, MergeFields DEF TypeOK
      <4>2. apps'[a] = apps[a] \/ apps'[a] = Merge(apps[a], tx[r])
        BY <2>2 DEF CommitUpdate, Inv, TypeOK
      <4> QED BY <4>1, <4>2
    <3> QED BY <3>2
  <2>3. CASE CommitMessage(r)
    BY <2>3 DEF CommitMessage
  <2> QED BY <2>1, <2>2, <2>3
<1>6. OwnerShape'
  <2>1. ASSUME NEW s \in Req, s # r PROVE OwnerShape!(s)'
    <3>1. tx'[s] = tx[s] /\ tx[s].target \in Req /\ OwnerShape!(s)
      BY <2>1, <1>2 DEF OwnerShape, Inv, TypeOK, Tx
    <3>2. tx[s].pc = "locking" \/ (Active(s) /\ tx[s].write = "update")
            => apps[tx[s].target] # NoRow
      BY DEF Inv, TxShape, UpdateShape
    <3> QED BY <3>1, <3>2, <1>5 DEF Active
  <2>2. OwnerShape!(r)'
    BY <1>2 DEF Active
  <2> QED BY <2>1, <2>2 DEF OwnerShape
<1> QED BY <1>3, <1>4, <1>6

\* Initially no request carries anything.
LEMMA InitShapes == Init => MessageShape /\ MessageAppliedOnce /\ OwnerShape
<1> SUFFICES ASSUME Init PROVE MessageShape /\ MessageAppliedOnce /\ OwnerShape
  OBVIOUS
<1>1. \A r \in Req : /\ tx[r].pc = "idle" /\ tx[r].msg = {}
                     /\ tx[r].out = "none"
  BY DEF Init, IdleTx
<1> QED BY <1>1 DEF MessageShape, MessageAppliedOnce, OwnerShape, Active

\* Every step keeps them.
LEMMA NextShapes ==
  ASSUME Inv, MessageShape, MessageAppliedOnce, OwnerShape, [Next]_vars
  PROVE  MessageShape' /\ MessageAppliedOnce' /\ OwnerShape'
<1>1. CASE UNCHANGED vars
  BY <1>1 DEF vars, MessageShape, MessageAppliedOnce, OwnerShape, Active
<1>2. ASSUME NEW r \in Req, Rollback(r)
      PROVE  MessageShape' /\ MessageAppliedOnce' /\ OwnerShape'
  BY <1>2, FinishShapes DEF Rollback
<1>3. ASSUME NEW r \in Req, Step(r)
      PROVE  MessageShape' /\ MessageAppliedOnce' /\ OwnerShape'
  BY <1>3, StepShapes, QueueMessageShapes, CommitShapes DEF Step
<1> QED BY <1>1, <1>2, <1>3, ReceiveShapes DEF Next, Quiet

LEMMA ShapesHold == Spec => [](MessageShape /\ MessageAppliedOnce /\ OwnerShape)
<1>1. /\ Inv /\ (MessageShape /\ MessageAppliedOnce /\ OwnerShape) /\ [Next]_vars
         => (MessageShape /\ MessageAppliedOnce /\ OwnerShape)'
  BY NextShapes
<1> QED BY <1>1, InitShapes, Invariance, PTL DEF Spec

\* No e-mail takes effect twice, however many deliveries of it overlap.
THEOREM MessagesTakeEffectOnce == Spec => []MessageAppliedOnce
BY ShapesHold, PTL

-----------------------------------------------------------------------------
(* The promise of Ledger *)

\* What a step of request r must do: leave its transaction well shaped, and
\* be a step of Ledger or show nothing of itself.
KeepsPromise(r) ==
    /\ AnswerShape(tx'[r])
    /\ Promise!Next \/ UNCHANGED Promise!vars

\* A step before the end of a request shows nothing.
LEMMA QuietStep ==
  ASSUME TypeOK, NEW r \in Req, NEW t, tx' = [tx EXCEPT ![r] = t],
         t.out = tx[r].out, AnswerShape(t), UNCHANGED <<apps, hist, queue>>
  PROVE  KeepsPromise(r)
<1>1. tx'[r] = t /\ \A s \in Req : tx'[s].out = tx[s].out
  BY DEF TypeOK
<1>2. UNCHANGED Promise!vars
  BY <1>1 DEF Promise!vars
<1> QED BY <1>1, <1>2 DEF KeepsPromise

\* The end of a request is its only answer.
LEMMA AnswerStep ==
  ASSUME TypeOK, NEW r \in Req, NEW t, tx' = [tx EXCEPT ![r] = t],
         tx[r].out = "none"
  PROVE  Promise!Answer(r, t.out)
<1>1. tx'[r] = t /\ \A s \in Req \ {r} : tx'[s] = tx[s]
  BY DEF TypeOK
<1> DEFINE f == [q \in Req |-> tx[q].out]
           g == [q \in Req |-> tx'[q].out]
           o == t.out
<1>2. \A q \in Req : g[q] = IF q = r THEN o ELSE f[q]
  BY <1>1
<1>3. f[r] = "none"
  OBVIOUS
<1> HIDE DEF o
<1>4. g = [f EXCEPT ![r] = o]
  BY <1>2
<1> QED BY <1>3, <1>4 DEF Promise!Answer, o

\* An answer without a write, when it has grounds.
LEMMA DeclineStep ==
  ASSUME TypeOK, NEW r \in Req, tx[r].out = "none",
         NEW o \in {"failed", "notfound", "noop", "duplicate", "multiple",
                    "skipped", "conflict"},
         Finish(r, o), Promise!Grounds(o), UNCHANGED <<apps, hist, queue>>
  PROVE  KeepsPromise(r)
<1> DEFINE t == [IdleTx(r) EXCEPT !.pc = "done", !.out = o]
<1>1. t.pc = "done" /\ t.out = o
  BY DEF IdleTx
<1>2. tx' = [tx EXCEPT ![r] = t]
  BY DEF Finish
<1> HIDE DEF t
<1>3. AnswerShape(tx'[r])
  BY <1>1, <1>2 DEF AnswerShape, TypeOK
<1>4. Promise!Answer(r, o)
  BY <1>1, <1>2, AnswerStep
<1>5. Promise!Decline(r)
  BY <1>4 DEF Promise!Decline
<1> QED BY <1>3, <1>5 DEF KeepsPromise, Promise!Next

\* Grounds that need no application: a request may fail at any time, and its
\* application may not be its owner's.
LEMMA FailStep ==
  ASSUME TypeOK, NEW r \in Req, NEW o \in {"failed", "notfound"}, Finish(r, o),
         tx[r].out = "none", UNCHANGED <<apps, hist, queue>>
  PROVE  KeepsPromise(r)
BY DeclineStep DEF Promise!Grounds

\* A POST that finds one twin, or several, finds live applications.
LEMMA TwinsAreGrounds ==
  ASSUME NEW twins \in SUBSET Req, \A a \in twins : Live(a)
  PROVE  /\ Cardinality(twins) = 1 => Promise!Grounds("duplicate")
         /\ Cardinality(twins) > 1
            /\ (\A a, b \in twins : apps[a].owner = apps[b].owner
                                    /\ apps[a].company = apps[b].company)
               => Promise!Grounds("multiple")
<1>1. ASSUME Cardinality(twins) = 1 \/ Cardinality(twins) > 1 PROVE twins # {}
  BY <1>1, FS_EmptySet
<1>2. ASSUME Cardinality(twins) > 1 PROVE \E a, b \in twins : a # b
  <2>1. PICK a \in twins : TRUE
    BY <1>1, <1>2
  <2>2. Cardinality({a}) = 1
    BY FS_Singleton
  <2>3. twins # {a}
    BY <1>2, <2>2
  <2> QED BY <2>1, <2>3
<1>3. \A a \in twins : Promise!Live(a)
  BY DEF Live, Promise!Live, Promise!Present
<1>4. Cardinality(twins) = 1 => Promise!Grounds("duplicate")
  BY <1>1, <1>3 DEF Promise!Grounds
<1>5. ASSUME Cardinality(twins) > 1,
             \A a, b \in twins : apps[a].owner = apps[b].owner
                                 /\ apps[a].company = apps[b].company
      PROVE  Promise!Grounds("multiple")
  <2>1. PICK a \in twins, b \in twins : a # b
    BY <1>2, <1>5
  <2> QED BY <2>1, <1>3, <1>5 DEF Promise!Grounds
<1> QED BY <1>4, <1>5

\* A request that arrives says at once why nothing is to be done, or goes on
\* with what its operation may write.
LEMMA ReceiveAnswers ==
  ASSUME Inv, MessageShape, NEW r \in Req, AnswerShape(tx[r]), Receive(r)
  PROVE  KeepsPromise(r)
<1>0. /\ TypeOK /\ UNCHANGED <<apps, hist, queue>>
      /\ tx[r] \in Tx /\ tx[r].pc = "idle" /\ tx[r].write = "none"
      /\ tx[r].msg = {} /\ tx[r].out = "none"
  BY DEF Receive, PostHardCheck, Generate, GetMissing, PatchRead, DeleteRead,
     EmailDedup, Receivable, Inv, TypeOK, TxShape, MessageShape, AnswerShape
<1>1. ASSUME NEW row \in Row, ~row.deleted, PostHardCheck(r, row)
      PROVE  KeepsPromise(r)
  <2> DEFINE twins == HardMatches(row)
             t == [tx[r] EXCEPT !.pc = "soft", !.op = "post",
                                !.owner = row.owner, !.new = row]
  <2>1. CASE tx' = [tx EXCEPT ![r] = t]
    <3>1. /\ t.pc = "soft" /\ t.op = "post" /\ t.new = row /\ t.msg = {}
          /\ t.out = "none" /\ t.write = "none"
      BY <1>0 DEF Tx
    <3> HIDE DEF t
    <3>2. AnswerShape(t)
      BY <1>1, <3>1 DEF AnswerShape
    <3> QED BY <1>0, <2>1, <3>1, <3>2, QuietStep
  <2>2. /\ twins \in SUBSET Req
        /\ \A a \in twins : Live(a) /\ apps[a].owner = row.owner
                            /\ apps[a].company = row.company
    BY DEF HardMatches, SameJob
  <2> HIDE DEF t, twins
  <2>3. CASE Cardinality(twins) = 1 /\ Finish(r, "duplicate")
    BY <1>0, <2>2, <2>3, TwinsAreGrounds, DeclineStep
  <2>4. CASE Cardinality(twins) > 1 /\ Finish(r, "multiple")
    BY <1>0, <2>2, <2>4, TwinsAreGrounds, DeclineStep
  <2> QED BY <1>1, <2>1, <2>3, <2>4 DEF PostHardCheck, twins, t
<1>2. ASSUME NEW o \in Owner, NEW c \in Company, NEW l \in Role, Generate(r, o, c, l)
      PROVE  KeepsPromise(r)
  <2> DEFINE row == NewRow(o, c, l, NoJob, Applied)
             t == [tx[r] EXCEPT !.pc = "flushed", !.op = "generate", !.owner = o,
                                !.write = "insert", !.new = row,
                                !.warn = ExistingPostings(row) # {},
                                !.entry = EntryOf(r, Applied, "set")]
  <2>1. tx' = [tx EXCEPT ![r] = t] /\ ~row.deleted
    BY <1>2 DEF Generate, NewRow
  <2> HIDE DEF row
  <2>2. /\ t.pc = "flushed" /\ t.op = "generate" /\ t.new = row /\ t.msg = {}
        /\ t.out = "none" /\ t.write = "insert"
    BY <1>0 DEF Tx
  <2> HIDE DEF t
  <2>3. AnswerShape(t)
    BY <2>1, <2>2 DEF AnswerShape
  <2> QED BY <1>0, <2>1, <2>2, <2>3, QuietStep
<1>3. ASSUME NEW op \in Operations, NEW a \in Req, NEW o \in Owner,
             GetMissing(r, op, a, o)
      PROVE  KeepsPromise(r)
  BY <1>0, <1>3, FailStep DEF GetMissing
<1>4. ASSUME NEW a \in Req, NEW o \in Owner, NEW new \in Row, PatchRead(r, a, o, new)
      PROVE  KeepsPromise(r)
  <2> DEFINE entry == IF new.status # apps[a].status
                      THEN EntryOf(r, new.status, "set") ELSE {}
             t == [tx[r] EXCEPT !.pc = "locking", !.op = "patch", !.owner = o,
                                !.target = a, !.row = apps[a], !.new = new,
                                !.entry = entry]
  <2>1. tx' = [tx EXCEPT ![r] = t] /\ new.deleted = apps[a].deleted
    BY <1>4 DEF PatchRead
  <2>2. new.status = apps[a].status => entry = {}
    OBVIOUS
  <2> HIDE DEF entry
  <2>3. /\ t.pc = "locking" /\ t.op = "patch" /\ t.row = apps[a] /\ t.new = new
        /\ t.entry = entry /\ t.msg = {} /\ t.out = "none" /\ t.write = "none"
    BY <1>0 DEF Tx
  <2> HIDE DEF t
  <2>4. AnswerShape(t)
    BY <2>1, <2>2, <2>3 DEF AnswerShape, UpdateFits
  <2> QED BY <1>0, <2>1, <2>3, <2>4, QuietStep
<1>5. ASSUME NEW a \in Req, NEW o \in Owner, DeleteRead(r, a, o)
      PROVE  KeepsPromise(r)
  <2> DEFINE new == [apps[a] EXCEPT !.deleted = TRUE]
             entry == EntryOf(r, apps[a].status, "deleted")
             t == [tx[r] EXCEPT !.pc = "locking", !.op = "delete", !.owner = o,
                                !.target = a, !.row = apps[a], !.new = new,
                                !.entry = entry]
  <2>1. apps[a] # NoRow /\ apps[a] \in Row
    BY <1>0, <1>5 DEF DeleteRead, Owned, TypeOK
  <2>2. CASE apps[a].deleted /\ Finish(r, "noop")
    <3>1. Promise!Grounds("noop")
      BY <2>1, <2>2 DEF Promise!Grounds, Promise!Present
    <3> QED BY <1>0, <2>2, <3>1, DeclineStep
  <2>3. CASE ~apps[a].deleted /\ tx' = [tx EXCEPT ![r] = t]
    <3>1. apps[a].status \in Status
      BY <2>1 DEF Row
    <3> HIDE DEF new, entry
    <3>2. /\ t.pc = "locking" /\ t.op = "delete" /\ t.row = apps[a] /\ t.new = new
          /\ t.entry = entry /\ t.msg = {} /\ t.out = "none" /\ t.write = "none"
      BY <1>0 DEF Tx
    <3> HIDE DEF t
    <3>3. Records(t, apps[a].status, "deleted")
      BY <1>0, <3>1, <3>2, EntryOfType DEF entry
    <3>4. UpdateFits(t)
      BY <2>3, <3>1, <3>2, <3>3 DEF UpdateFits, new
    <3>5. AnswerShape(t)
      BY <3>2, <3>4 DEF AnswerShape
    <3> QED BY <1>0, <2>3, <3>2, <3>5, QuietStep
  <2> QED BY <1>5, <2>2, <2>3 DEF DeleteRead
<1>6. ASSUME NEW m \in Msg, NEW i \in BOOLEAN, EmailDedup(r, m, i)
      PROVE  KeepsPromise(r)
  <2> DEFINE t == [tx[r] EXCEPT !.op = "email", !.msg = {m},
                                !.pc = IF i THEN "queueing" ELSE "match"]
  <2>1. CASE m \in queue /\ Finish(r, "skipped")
    <3>1. Promise!Grounds("skipped")
      BY <2>1 DEF Promise!Grounds
    <3> QED BY <1>0, <2>1, <3>1, DeclineStep
  <2>2. CASE tx' = [tx EXCEPT ![r] = t]
    <3>1. /\ t.pc \in {"queueing", "match"} /\ t.op = "email" /\ t.msg = {m}
          /\ t.out = "none" /\ t.write = "none"
      BY <1>0 DEF Tx
    <3> HIDE DEF t
    <3>2. AnswerShape(t)
      BY <3>1 DEF AnswerShape
    <3> QED BY <1>0, <2>2, <3>1, <3>2, QuietStep
  <2> QED BY <1>6, <2>1, <2>2 DEF EmailDedup
<1> QED BY <1>1, <1>2, <1>3, <1>4, <1>5, <1>6 DEF Receive

\* The steps before the commit show nothing, save that a POST may find several
\* soft duplicates.
LEMMA StepAnswers ==
  ASSUME Inv, MessageShape, OwnerShape, NEW r \in Req, AnswerShape(tx[r]),
         \/ PostSoftCheck(r) \/ LockRow(r)
         \/ \E c \in Company, s \in Status : EmailMatch(r, c, s)
         \/ \E c \in Company, l \in Role, s \in Status : EmailCreate(r, c, l, s)
  PROVE  KeepsPromise(r)
<1>0. /\ TypeOK /\ UNCHANGED <<apps, hist, queue>> /\ tx[r] \in Tx
      /\ tx[r].pc \in {"soft", "locking", "match"} /\ tx[r].write = "none"
      /\ tx[r].out = "none" /\ (tx[r].op = "email" <=> tx[r].msg # {})
  BY DEF PostSoftCheck, LockRow, EmailMatch, EmailCreate, Inv, TypeOK, TxShape,
     AnswerShape
<1>1. CASE PostSoftCheck(r)
  <2> DEFINE new == tx[r].new
             twins == SoftMatches(new)
             t == [tx[r] EXCEPT !.pc = "flushed", !.write = "insert",
                                !.warn = twins # {},
                                !.entry = EntryOf(r, new.status, "set")]
  <2>1. tx[r].pc = "soft" /\ ~new.deleted
    BY <1>1 DEF PostSoftCheck, AnswerShape
  <2>2. /\ twins \in SUBSET Req
        /\ \A a \in twins : Live(a) /\ apps[a].owner = new.owner
                            /\ apps[a].company = new.company
    BY DEF SoftMatches, SamePosting
  <2>3. CASE tx' = [tx EXCEPT ![r] = t]
    <3> HIDE DEF twins
    <3>1. /\ t.pc = "flushed" /\ t.op = tx[r].op /\ t.msg = tx[r].msg
          /\ t.out = "none" /\ t.write = "insert" /\ t.new = new
      BY <1>0 DEF Tx
    <3> HIDE DEF t, new
    <3>2. AnswerShape(t)
      BY <1>0, <2>1, <3>1 DEF AnswerShape
    <3> QED BY <1>0, <2>3, <3>1, <3>2, QuietStep
  <2> HIDE DEF t, twins, new
  <2>4. CASE Cardinality(twins) > 1 /\ Finish(r, "multiple")
    BY <1>0, <2>2, <2>4, TwinsAreGrounds, DeclineStep
  <2> QED BY <1>1, <2>3, <2>4 DEF PostSoftCheck, twins, t, new
<1>2. CASE LockRow(r)
  <2> DEFINE pc == IF tx[r].op = "email" THEN "queueing" ELSE "flushed"
             t == [tx[r] EXCEPT !.write = "update", !.pc = pc]
  <2>1. tx' = [tx EXCEPT ![r] = t] /\ UpdateFits(tx[r])
    BY <1>2 DEF LockRow, AnswerShape
  <2>2. /\ t.pc = pc /\ t.op = tx[r].op /\ t.msg = tx[r].msg
        /\ t.out = "none" /\ t.write = "update" /\ t.row = tx[r].row
        /\ t.new = tx[r].new /\ t.entry = tx[r].entry
    BY <1>0 DEF Tx
  <2> HIDE DEF t
  <2>3. UpdateFits(t)
    BY <2>1, <2>2 DEF UpdateFits, Records
  <2>4. AnswerShape(t)
    BY <1>0, <2>2, <2>3 DEF AnswerShape
  <2> QED BY <1>0, <2>1, <2>2, <2>4, QuietStep
<1>3. ASSUME NEW c \in Company, NEW s \in Status, EmailMatch(r, c, s)
      PROVE  KeepsPromise(r)
  <2>0. PICK a \in Req : /\ apps[a] # NoRow
          /\ tx' = [tx EXCEPT ![r] = [tx[r] EXCEPT !.target = a, !.row = apps[a],
                    !.new = [apps[a] EXCEPT !.status = s],
                    !.pc = IF s # apps[a].status THEN "locking" ELSE "queueing",
                    !.entry = IF s # apps[a].status
                              THEN EntryOf(r, s, "set") ELSE {}]]
    BY <1>3 DEF EmailMatch, CompanyMatches
  <2> DEFINE new == [apps[a] EXCEPT !.status = s]
             pc == IF s # apps[a].status THEN "locking" ELSE "queueing"
             entry == IF s # apps[a].status THEN EntryOf(r, s, "set") ELSE {}
             t == [tx[r] EXCEPT !.target = a, !.row = apps[a], !.new = new,
                                !.pc = pc, !.entry = entry]
  <2>1. tx' = [tx EXCEPT ![r] = t]
    BY <2>0
  <2>2. tx[r].op = "email" /\ apps[a] \in Row
    BY <1>0, <1>3, <2>0 DEF EmailMatch, OwnerShape, TypeOK
  <2>3. new.status = s /\ new = [apps[a] EXCEPT !.status = new.status]
    BY <2>2 DEF Row
  <2> HIDE DEF new, entry
  <2>4. /\ t.pc = pc /\ t.op = "email" /\ t.msg = tx[r].msg /\ t.out = "none"
        /\ t.write = "none" /\ t.row = apps[a] /\ t.new = new
    BY <1>0, <2>2 DEF Tx
  <2> HIDE DEF t
  <2>5. t.pc = "locking" => UpdateFits(t)
    BY <2>3, <2>4 DEF UpdateFits
  <2>6. AnswerShape(t)
    BY <1>0, <2>2, <2>4, <2>5 DEF AnswerShape
  <2> QED BY <1>0, <2>1, <2>4, <2>6, QuietStep
<1>4. ASSUME NEW c \in Company, NEW l \in Role, NEW s \in Status,
             EmailCreate(r, c, l, s)
      PROVE  KeepsPromise(r)
  <2> DEFINE row == NewRow(DefaultOwner, c, l, NoJob, s)
             t == [tx[r] EXCEPT !.pc = "queueing", !.write = "insert", !.new = row,
                                !.entry = EntryOf(r, s, "set")]
  <2>1. tx' = [tx EXCEPT ![r] = t] /\ ~row.deleted /\ tx[r].op = "email"
    BY <1>4 DEF EmailCreate, NewRow, OwnerShape
  <2> HIDE DEF row
  <2>2. /\ t.pc = "queueing" /\ t.op = tx[r].op /\ t.msg = tx[r].msg
        /\ t.out = "none" /\ t.write = "insert" /\ t.new = row
    BY <1>0 DEF Tx
  <2> HIDE DEF t
  <2>3. AnswerShape(t)
    BY <1>0, <2>1, <2>2 DEF AnswerShape
  <2> QED BY <1>0, <2>1, <2>2, <2>3, QuietStep
<1> QED BY <1>1, <1>2, <1>3, <1>4

\* The message's INSERT shows nothing, or finds the message in the queue.
LEMMA QueueMessageAnswers ==
  ASSUME Inv, MessageShape, NEW r \in Req, AnswerShape(tx[r]), QueueMessage(r)
  PROVE  KeepsPromise(r)
<1>0. /\ TypeOK /\ UNCHANGED <<apps, hist, queue>> /\ tx[r] \in Tx
      /\ tx[r].pc = "queueing" /\ tx[r].out = "none"
  BY DEF QueueMessage, Inv, TypeOK, AnswerShape
<1>1. CASE tx[r].msg \subseteq queue /\ Finish(r, "conflict")
  <2>1. tx[r].op = "email"
    BY <1>0 DEF AnswerShape
  <2>2. queue # {}
    BY <1>0, <1>1, <2>1 DEF AnswerShape
  <2>3. Promise!Grounds("conflict")
    BY <2>2 DEF Promise!Grounds
  <2> QED BY <1>0, <1>1, <2>3, DeclineStep
<1>2. CASE tx' = [tx EXCEPT ![r].pc = "flushed"]
  <2> DEFINE t == [tx[r] EXCEPT !.pc = "flushed"]
  <2>1. tx' = [tx EXCEPT ![r] = t]
    BY <1>0, <1>2
  <2>2. /\ t.pc = "flushed" /\ t.op = tx[r].op /\ t.msg = tx[r].msg
        /\ t.out = tx[r].out /\ t.write = tx[r].write /\ t.row = tx[r].row
        /\ t.new = tx[r].new /\ t.entry = tx[r].entry
    BY <1>0 DEF Tx
  <2> HIDE DEF t
  <2>3. AnswerShape(t)
    BY <1>0, <2>2 DEF AnswerShape, UpdateFits, Records
  <2> QED BY <1>0, <2>1, <2>2, <2>3, QuietStep
<1> QED BY <1>1, <1>2 DEF QueueMessage

\* The end of a commit is the request's only answer.
LEMMA EndedStep ==
  ASSUME TypeOK, NEW r \in Req, NEW o, tx' = Ended(r, o), tx[r].out = "none"
  PROVE  Promise!Answer(r, o) /\ AnswerShape(tx'[r])
<1> DEFINE t == [tx[r] EXCEPT !.pc = "done", !.out = o]
<1>1. tx' = [tx EXCEPT ![r] = t] /\ tx[r] \in Tx
  BY DEF Ended, TypeOK
<1>2. t.pc = "done" /\ t.out = o
  BY <1>1 DEF Tx
<1> HIDE DEF t
<1>3. Promise!Answer(r, o)
  BY <1>1, <1>2, AnswerStep
<1>4. AnswerShape(tx'[r])
  BY <1>1, <1>2 DEF AnswerShape, TypeOK
<1> QED BY <1>3, <1>4

\* A commit takes its message, which is not yet in the queue.
LEMMA TakeStep ==
  ASSUME MessageShape, NEW r \in Req, tx[r].pc = "flushed",
         queue' = queue \cup tx[r].msg
  PROVE  /\ tx[r].msg = {} => UNCHANGED queue
         /\ tx[r].msg # {} => \E m \in Msg : Promise!Take(m)
<1>1. ASSUME tx[r].msg # {} PROVE \E m \in Msg : Promise!Take(m)
  <2>1. PICK m \in Msg : tx[r].msg = {m}
    BY <1>1 DEF MessageShape
  <2>2. m \notin queue
    BY <2>1 DEF MessageShape
  <2> QED BY <2>1, <2>2 DEF Promise!Take
<1> QED BY <1>1

\* What an UPDATE leaves of a row that others have changed since it was read:
\* a deletion sets is_deleted and an e-mail the status, and nothing else; a
\* PATCH touches neither the owner nor is_deleted.
LEMMA MergeByOperation ==
  ASSUME NEW old \in Row, NEW t \in Tx, UpdateShape(t), UpdateFits(t)
  PROVE  /\ t.op = "patch" => Merge(old, t).deleted = old.deleted
         /\ t.op = "delete" => Merge(old, t) = [old EXCEPT !.deleted = TRUE]
         /\ t.op = "email" => Merge(old, t) = [old EXCEPT !.status = t.new.status]
<1>1. /\ DOMAIN old = {"owner", "company", "role", "job", "status", "deleted"}
      /\ t.row \in Row /\ t.new \in Row
  BY DEF Row, UpdateShape
<1>2. \A f \in DOMAIN old :
        Merge(old, t)[f] = IF t.new[f] # t.row[f] THEN t.new[f] ELSE old[f]
  BY DEF Merge
<1>3. Merge(old, t) = [f \in DOMAIN old |-> Merge(old, t)[f]]
  BY DEF Merge
<1>4. CASE t.op = "patch"
  BY <1>1, <1>2, <1>4 DEF UpdateFits
<1>5. CASE t.op = "delete"
  <2>1. t.new = [t.row EXCEPT !.deleted = TRUE] /\ ~t.row.deleted
    BY <1>5 DEF UpdateFits
  <2>2. \A f \in DOMAIN old :
          Merge(old, t)[f] = IF f = "deleted" THEN TRUE ELSE old[f]
    BY <1>1, <1>2, <2>1 DEF Row
  <2>3. Merge(old, t) = [old EXCEPT !.deleted = TRUE]
    BY <1>1, <1>3, <2>2 DEF Row
  <2> QED BY <1>5, <2>3
<1>6. CASE t.op = "email"
  <2>1. /\ t.new = [t.row EXCEPT !.status = t.new.status]
        /\ t.new.status # t.row.status
    BY <1>6 DEF UpdateFits
  <2>2. \A f \in DOMAIN old :
          Merge(old, t)[f] = IF f = "status" THEN t.new.status ELSE old[f]
    BY <1>1, <1>2, <2>1 DEF Row
  <2>3. Merge(old, t) = [old EXCEPT !.status = t.new.status]
    BY <1>1, <1>3, <2>2 DEF Row
  <2> QED BY <1>6, <2>3
<1> QED BY <1>4, <1>5, <1>6 DEF UpdateFits

\* A commit's entry is in no history before it.
LEMMA RecordStep ==
  ASSUME Inv, NEW r \in Req, NEW a \in Req, tx[r].pc # "done",
         NEW s, NEW n, Records(tx[r], s, n),
         hist' = [hist EXCEPT ![a] = @ \cup tx[r].entry]
  PROVE  Promise!Record(r, a, s, n)
<1>1. PICK e \in tx[r].entry : tx[r].entry = {e} /\ e.status = s /\ e.note = n
  BY DEF Records
<1>2. e.id = r
  BY DEF Inv, StampsAreCurrent
<1>3. e \notin hist[a]
  BY <1>2 DEF Inv, StampsAreCurrent
<1>4. hist'[a] = hist[a] \cup {e} /\ hist' = [hist EXCEPT ![a] = @ \cup {e}]
  BY <1>1 DEF Inv, TypeOK
<1> QED BY <1>1, <1>2, <1>3, <1>4 DEF Promise!Record

\* A committed INSERT makes a new application.
LEMMA CommitInsertAnswers ==
  ASSUME Inv, MessageShape, NEW r \in Req, AnswerShape(tx[r]), CommitInsert(r)
  PROVE  KeepsPromise(r)
<1>1. /\ TypeOK /\ tx[r] \in Tx /\ tx[r].out = "none" /\ tx[r].new \in Row
      /\ ~tx[r].new.deleted /\ Records(tx[r], tx[r].new.status, "set")
      /\ apps[r] = NoRow /\ hist[r] = {} /\ tx[r].pc = "flushed"
  BY DEF Inv, TypeOK, TxShape, InsertShape, AnswerShape, CommitInsert, Active, Tx
<1>2. /\ apps' = [apps EXCEPT ![r] = tx[r].new]
      /\ hist' = [hist EXCEPT ![r] = @ \cup tx[r].entry]
  BY <1>1 DEF CommitInsert
<1>3. /\ Promise!Rewrite(r, tx[r].new)
      /\ Promise!Record(r, r, tx[r].new.status, "set")
  BY <1>1, <1>2, RecordStep DEF Promise!Rewrite
<1>4. UNCHANGED queue \/ \E m \in Msg : Promise!Take(m)
  BY <1>1, TakeStep DEF CommitInsert
<1>5. Promise!Answer(r, "created") /\ AnswerShape(tx'[r])
  BY <1>1, EndedStep DEF CommitInsert
<1>6. Promise!Make(r)
  BY <1>1, <1>3, <1>4, <1>5 DEF Promise!Make, Promise!Present
<1> QED BY <1>5, <1>6 DEF KeepsPromise, Promise!Next

\* A committed UPDATE is a change, a deletion or an e-mail's status on the row
\* as it is now, with the entry that fits.
LEMMA CommitUpdateAnswers ==
  ASSUME Inv, MessageShape, NEW r \in Req, AnswerShape(tx[r]), CommitUpdate(r)
  PROVE  KeepsPromise(r)
<1> DEFINE t == tx[r]
           g == t.target
           new == Merge(apps[g], t)
<1>1. /\ TypeOK /\ t \in Tx /\ t.out = "none" /\ g \in Req /\ t.pc = "flushed"
      /\ UpdateShape(t) /\ UpdateFits(t) /\ apps[g] \in Row /\ apps[g] # NoRow
      /\ t.op = "email" <=> t.msg # {}
  BY DEF Inv, TypeOK, TxShape, UpdateShape, AnswerShape, CommitUpdate, Active, Tx
<1>2. /\ apps' = [apps EXCEPT ![g] = new]
      /\ hist' = [hist EXCEPT ![g] = @ \cup t.entry]
      /\ queue' = queue \cup t.msg
  BY DEF CommitUpdate
<1>3. /\ t.op # "email" => UNCHANGED queue
      /\ t.op = "email" => \E m \in Msg : Promise!Take(m)
  BY <1>1, <1>2, TakeStep
<1>4. /\ t.op = "patch" => tx' = Ended(r, "updated")
      /\ t.op = "delete" => tx' = Ended(r, "deleted")
      /\ t.op = "email" => tx' = Ended(r, "processed")
  BY DEF CommitUpdate
<1>5. /\ t.op = "patch" => Promise!Answer(r, "updated")
      /\ t.op = "delete" => Promise!Answer(r, "deleted")
      /\ t.op = "email" => Promise!Answer(r, "processed")
      /\ AnswerShape(tx'[r])
  BY <1>1, <1>4, EndedStep DEF UpdateFits
<1>6. /\ new \in Row /\ new.owner = apps[g].owner
      /\ new.status = IF t.new.status # t.row.status THEN t.new.status
                      ELSE apps[g].status
  BY <1>1, MergeType, MergeFields DEF UpdateShape
<1>7. Promise!Present(g)
  BY <1>1 DEF Promise!Present
<1>8. /\ Promise!Rewrite(g, new)
      /\ \A s, n : Records(t, s, n) => Promise!Record(r, g, s, n)
  BY <1>1, <1>2, RecordStep DEF Promise!Rewrite
<1>9. CASE t.op = "patch"
  <2>1. \/ Promise!Record(r, g, new.status, "set")
        \/ new.status = apps[g].status /\ UNCHANGED hist
    <3>1. CASE t.new.status # t.row.status
      BY <1>1, <1>6, <1>8, <3>1 DEF UpdateShape
    <3>2. CASE t.new.status = t.row.status
      <4>1. t.entry = {}
        BY <1>1, <1>9, <3>2 DEF UpdateFits
      <4> QED BY <1>1, <1>2, <1>6, <3>2, <4>1 DEF TypeOK
    <3> QED BY <3>1, <3>2
  <2>2. new.deleted = apps[g].deleted
    BY <1>1, <1>9, MergeByOperation
  <2>3. Promise!Update(r, g)
    BY <1>3, <1>5, <1>6, <1>7, <1>8, <1>9, <2>1, <2>2 DEF Promise!Update
  <2> QED BY <1>1, <1>5, <2>3 DEF KeepsPromise, Promise!Next
<1>10. CASE t.op = "delete"
  <2>1. PICK s \in Status : Records(t, s, "deleted")
    BY <1>1, <1>10 DEF UpdateFits
  <2>2. new = [apps[g] EXCEPT !.deleted = TRUE]
    BY <1>1, <1>10, MergeByOperation
  <2>3. Promise!Delete(r, g)
    BY <1>3, <1>5, <1>7, <1>8, <1>10, <2>1, <2>2 DEF Promise!Delete
  <2> QED BY <1>1, <1>5, <2>3 DEF KeepsPromise, Promise!Next
<1>11. CASE t.op = "email"
  <2>1. t.new.status \in Status /\ Records(t, t.new.status, "set")
    BY <1>1, <1>11 DEF UpdateFits, UpdateShape, Row
  <2>2. new = [apps[g] EXCEPT !.status = t.new.status]
    BY <1>1, <1>11, MergeByOperation
  <2>3. Promise!Process(r, g)
    BY <1>3, <1>5, <1>7, <1>8, <1>11, <2>1, <2>2 DEF Promise!Process
  <2> QED BY <1>1, <1>5, <2>3 DEF KeepsPromise, Promise!Next
<1> QED BY <1>1, <1>9, <1>10, <1>11 DEF UpdateFits

\* A commit without an INSERT or UPDATE of an application takes its message.
LEMMA CommitMessageAnswers ==
  ASSUME Inv, MessageShape, NEW r \in Req, AnswerShape(tx[r]), CommitMessage(r)
  PROVE  KeepsPromise(r)
<1>1. /\ TypeOK /\ tx[r].out = "none" /\ tx[r].pc = "flushed" /\ tx[r].msg # {}
      /\ UNCHANGED <<apps, hist>>
  BY DEF Inv, AnswerShape, CommitMessage
<1>2. \E m \in Msg : Promise!Take(m)
  BY <1>1, TakeStep DEF CommitMessage
<1>3. PICK o \in {"processed", "ignored"} : tx' = Ended(r, o)
  BY DEF CommitMessage
<1>4. Promise!Answer(r, o) /\ AnswerShape(tx'[r])
  BY <1>1, <1>3, EndedStep
<1>5. Promise!Note(r)
  BY <1>1, <1>2, <1>4 DEF Promise!Note
<1> QED BY <1>4, <1>5 DEF KeepsPromise, Promise!Next

\* Every step of a request keeps the promise, and no other transaction moves.
LEMMA RequestAnswers ==
  ASSUME Inv, MessageShape, OwnerShape, NEW r \in Req, AnswerShape(tx[r]),
         Receive(r) \/ Step(r) \/ Rollback(r)
  PROVE  KeepsPromise(r) /\ \A s \in Req \ {r} : tx'[s] = tx[s]
<1>1. CASE Rollback(r)
  <2>1. tx[r].out = "none" /\ TypeOK
    BY <1>1 DEF Rollback, Active, AnswerShape, Inv
  <2> QED BY <1>1, <2>1, FailStep DEF Rollback, Finish, TypeOK
<1>2. CASE Receive(r)
  <2>1. \A s \in Req \ {r} : tx'[s] = tx[s]
    BY <1>2 DEF Receive, PostHardCheck, Generate, GetMissing, PatchRead, DeleteRead,
       EmailDedup, Finish, Inv, TypeOK
  <2> QED BY <1>2, <2>1, ReceiveAnswers
<1>3. CASE Step(r)
  <2>1. \A s \in Req \ {r} : tx'[s] = tx[s]
    BY <1>3 DEF Step, PostSoftCheck, LockRow, EmailMatch, EmailCreate,
       QueueMessage, CommitInsert, CommitUpdate, CommitMessage, Ended, Finish,
       Inv, TypeOK
  <2> QED BY <1>3, <2>1, StepAnswers, QueueMessageAnswers, CommitInsertAnswers,
             CommitUpdateAnswers, CommitMessageAnswers DEF Step
<1> QED BY <1>1, <1>2, <1>3

AnswersShaped == \A r \in Req : AnswerShape(tx[r])

\* The first state is Ledger's.
LEMMA InitAnswers == Init => AnswersShaped /\ Promise!Init
<1> SUFFICES ASSUME Init PROVE AnswersShaped /\ Promise!Init
  OBVIOUS
<1>1. \A r \in Req : tx[r].pc = "idle" /\ tx[r].out = "none" /\ tx[r].write = "none"
  BY DEF Init, IdleTx
<1> QED BY <1>1 DEF AnswersShaped, AnswerShape, Promise!Init, Init

\* Every step is Ledger's, or shows nothing.
LEMMA NextAnswers ==
  ASSUME Inv, MessageShape, OwnerShape, AnswersShaped, [Next]_vars
  PROVE  AnswersShaped' /\ [Promise!Next]_(Promise!vars)
<1>1. CASE UNCHANGED vars
  <2>1. AnswersShaped'
    BY <1>1 DEF vars, AnswersShaped, AnswerShape, UpdateFits, Records
  <2>2. UNCHANGED Promise!vars
    BY <1>1 DEF vars, Promise!vars
  <2> QED BY <2>1, <2>2
<1>2. ASSUME NEW r \in Req, Receive(r) \/ Step(r) \/ Rollback(r)
      PROVE  AnswersShaped' /\ [Promise!Next]_(Promise!vars)
  <2>1. KeepsPromise(r) /\ \A s \in Req \ {r} : tx'[s] = tx[s]
    BY <1>2, RequestAnswers DEF AnswersShaped
  <2>2. ASSUME NEW s \in Req PROVE AnswerShape(tx[s])'
    <3>1. CASE s = r
      BY <2>1, <3>1 DEF KeepsPromise, AnswerShape, UpdateFits, Records
    <3>2. CASE s # r
      BY <2>1, <3>2 DEF AnswersShaped, AnswerShape, UpdateFits, Records
    <3> QED BY <3>1, <3>2
  <2> QED BY <2>1, <2>2 DEF AnswersShaped, KeepsPromise
<1> QED BY <1>1, <1>2 DEF Next, Quiet

\* Every transaction stays shaped for its operation.
LEMMA AnswersHold == Spec => []AnswersShaped
<1>1. Init => AnswersShaped
  BY InitAnswers
<1>2. Inv /\ (MessageShape /\ MessageAppliedOnce /\ OwnerShape) /\ AnswersShaped
         /\ [Next]_vars => AnswersShaped'
  BY NextAnswers
<1> QED BY <1>1, <1>2, Invariance, ShapesHold, PTL DEF Spec

\* Whatever the overlap, every request acts on the committed tables as one
\* step of Ledger, whole or not at all, and is answered for what it did: the
\* transactions implement the ledger.
THEOREM LedgerImplemented == Spec => LedgerKept
<1>1. Inv /\ (MessageShape /\ MessageAppliedOnce /\ OwnerShape) /\ AnswersShaped
         /\ [Next]_vars => [Promise!Next]_(Promise!vars)
  BY NextAnswers
<1> QED BY <1>1, InitAnswers, Invariance, ShapesHold, AnswersHold, PTL
        DEF Spec, LedgerKept, Promise!Spec

\* No request of a tenant writes another tenant's application, and an e-mail,
\* which is of no tenant, writes nothing of one but its status, however much of
\* the row has changed since the e-mail's request read it.
THEOREM TenantsStayApart == Spec => TenantsApart
<1> DEFINE Served(r, a) ==
             /\ tx[r].pc = "flushed" /\ tx'[r].pc = "done" /\ tx[r].target = a
             /\ \/ tx[r].owner = apps[a].owner
                \/ /\ tx[r].op = "email"
                   /\ apps'[a] = [apps[a] EXCEPT !.status = apps'[a].status]
<1>1. ASSUME Inv, OwnerShape, AnswersShaped, [Next]_vars, NEW a \in Req,
             apps[a] # NoRow, apps'[a] # apps[a]
      PROVE  \E r \in Req : Served(r, a)
  <2>1. PICK r \in Req : CommitInsert(r) \/ CommitUpdate(r)
    BY <1>1, OnlyCommitsWrite
  <2>2. CASE CommitInsert(r)
    <3>1. a = r
      BY <1>1, <2>2 DEF CommitInsert, Inv, TypeOK
    <3> QED BY <1>1, <2>2, <3>1 DEF CommitInsert, Inv, TxShape
  <2>3. CASE CommitUpdate(r)
    <3>1. /\ a = tx[r].target /\ tx[r].pc = "flushed" /\ tx[r].write = "update"
          /\ tx[r] \in Tx /\ apps[a] \in Row /\ apps'[a] = Merge(apps[a], tx[r])
      BY <1>1, <2>3 DEF CommitUpdate, Inv, TypeOK
    <3>2. tx[r].owner = apps[a].owner \/ tx[r].op = "email"
      BY <1>1, <3>1 DEF OwnerShape, Active
    <3>3. UpdateShape(tx[r]) /\ UpdateFits(tx[r])
      BY <1>1, <3>1 DEF Inv, TxShape, Active, AnswersShaped, AnswerShape
    <3>4. ASSUME tx[r].op = "email"
          PROVE  apps'[a] = [apps[a] EXCEPT !.status = apps'[a].status]
      <4>1. apps'[a] = [apps[a] EXCEPT !.status = tx[r].new.status]
        BY <3>1, <3>3, <3>4, MergeByOperation
      <4>2. apps'[a].status = tx[r].new.status
        BY <3>1, <4>1 DEF Row
      <4> QED BY <4>1, <4>2
    <3>5. ASSUME NEW o, tx' = Ended(r, o) PROVE tx'[r].pc = "done"
      BY <1>1, <3>1, <3>5 DEF Ended, Inv, TypeOK, Tx
    <3>6. tx'[r].pc = "done"
      BY <2>3, <3>5 DEF CommitUpdate
    <3> QED BY <3>1, <3>2, <3>4, <3>6
  <2> QED BY <2>1, <2>2, <2>3
<1>2. Inv /\ OwnerShape /\ AnswersShaped /\ [Next]_vars =>
        [\A a \in Req : apps[a] # NoRow /\ apps'[a] # apps[a]
           => \E r \in Req :
                /\ tx[r].pc = "flushed" /\ tx'[r].pc = "done" /\ tx[r].target = a
                /\ \/ tx[r].owner = apps[a].owner
                   \/ /\ tx[r].op = "email"
                      /\ apps'[a] = [apps[a] EXCEPT !.status = apps'[a].status]]_vars
  BY <1>1
<1> QED BY <1>2, Invariance, ShapesHold, AnswersHold, PTL DEF Spec, TenantsApart

=============================================================================
