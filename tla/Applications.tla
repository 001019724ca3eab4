---------------------------- MODULE Applications ----------------------------
(***************************************************************************)
(* The rows of job_applications and application_status_history, and every  *)
(* request that writes them: POST, PATCH and DELETE of an application, the *)
(* resume generator's auto-log and the e-mail watcher.  Each request is    *)
(* one database transaction (db/session.py get_db) under READ COMMITTED:   *)
(* a SELECT sees what was committed when it runs, an UPDATE waits for the  *)
(* row's lock, and nothing is visible to others before the commit.         *)
(*                                                                         *)
(* An application's id is a fresh uuid4 of the request that inserts it, so *)
(* the row a request r inserts is called r.                                *)
(***************************************************************************)
EXTENDS Naturals, Sequences, FiniteSets

CONSTANTS
    Req,          \* requests; each is served once
    Owner,        \* tenants
    DefaultOwner, \* settings.DEFAULT_OWNER_ID, the owner of e-mailed rows
    Company,      \* company_name as typed
    Role,         \* job_title and applied_date, always compared together
    Lower,        \* lower() on Company and Role
    Job, NoJob,   \* job_id; NoJob is null or the empty string
    Status,       \* ApplicationStatus
    Applied,      \* its default
    Msg,          \* e-mail message ids
    Ops,          \* the endpoints that are called
    NoRow         \* "no such row"

Operations == {"post", "generate", "patch", "delete", "email"}

ASSUME OwnerAssumption == DefaultOwner \in Owner
ASSUME StatusAssumption == Applied \in Status
ASSUME JobAssumption == NoJob \notin Job
ASSUME OpsAssumption == Ops \subseteq Operations
ASSUME LowerAssumption == Company \cup Role \subseteq DOMAIN Lower

Row == [owner: Owner, company: Company, role: Role, job: Job \cup {NoJob},
        status: Status, deleted: BOOLEAN]

ASSUME NoRowAssumption == NoRow \notin Row

\* One row of application_status_history; "set" entries record a status,
\* "deleted" ones are delete_application's "Soft-deleted" note.  A request adds
\* at most one, so its id, a fresh uuid4, is the request's name.  changed_at is
\* stamped where the entry is built, before the flush waits for any lock.
Entry == [id: Req, status: Status, note: {"set", "deleted"}, changed_at: Nat]

Phase == {"idle", "soft", "match", "locking", "queueing", "flushed", "done"}

Outcome == {"none", "created", "updated", "deleted", "noop", "processed",
            "ignored", "skipped", "notfound", "duplicate", "multiple",
            "conflict", "failed"}

\* A transaction: the row it read, the row it wants, its INSERT of a history
\* entry.  SQLAlchemy writes the attributes in which `new' differs from `row'.
Tx == [pc: Phase, op: Operations, write: {"none", "insert", "update"},
       owner: Owner, target: Req, row: Row \cup {NoRow}, new: Row \cup {NoRow},
       entry: SUBSET Entry, warn: BOOLEAN, msg: SUBSET Msg, out: Outcome]

VARIABLES
    apps,   \* committed job_applications
    hist,   \* committed application_status_history, read ORDER BY changed_at
    clock,  \* the next time stamp
    queue,  \* committed email_queue message ids (unique)
    tx,     \* the requests' transactions
    missed, \* history: requests that committed while this one was under way
    moved   \* history: rows whose company, role or job id a PATCH changed

vars == <<apps, hist, clock, queue, tx, missed, moved>>

IdleTx(r) ==
    [pc |-> "idle", op |-> "post", write |-> "none", owner |-> DefaultOwner,
     target |-> r, row |-> NoRow, new |-> NoRow, entry |-> {},
     warn |-> FALSE, msg |-> {}, out |-> "none"]

Init ==
    /\ apps = [a \in Req |-> NoRow]
    /\ hist = [a \in Req |-> {}]
    /\ clock = 0
    /\ queue = {}
    /\ tx = [r \in Req |-> IdleTx(r)]
    /\ missed = [r \in Req |-> {}]
    /\ moved = {}

-----------------------------------------------------------------------------
(* Queries *)

Live(a) == apps[a] # NoRow /\ ~apps[a].deleted

SameJob(x, y) ==
    x.owner = y.owner /\ x.company = y.company /\ x.job = y.job /\ y.job # NoJob

SamePosting(x, y) ==
    x.owner = y.owner /\ x.company = y.company /\ x.role = y.role

\* Variant: is_deleted compared with True.
HardMatchesDeleted(row) ==
    {a \in Req : /\ apps[a] # NoRow /\ apps[a].deleted
                 /\ SameJob(apps[a], row)}

\* _check_duplicates: the live rows its two SELECTs return.
HardMatches(row) == {a \in Req : Live(a) /\ SameJob(apps[a], row)}
SoftMatches(row) == {a \in Req : Live(a) /\ SamePosting(apps[a], row)}

\* _find_existing of the generator: ignores case, and is_deleted.
ExistingPostings(row) ==
    {a \in Req :
        /\ apps[a] # NoRow
        /\ apps[a].owner = row.owner
        /\ Lower[apps[a].company] = Lower[row.company]
        /\ Lower[apps[a].role] = Lower[row.role]}

\* _find_matching_application of the e-mail watcher: any owner's row.
CompanyMatches(c) ==
    {a \in Req : apps[a] # NoRow /\ Lower[apps[a].company] = Lower[c]}

\* Variant: a bare lookup by primary key.
OwnedByAnyone(a, o) == apps[a] # NoRow

\* _get_owned.
Owned(a, o) == apps[a] # NoRow /\ apps[a].owner = o

Active(r) == tx[r].pc \notin {"idle", "done"}

\* Variant: a session that is never closed keeps its locks.
RowLockedForever(a) ==
    \E s \in Req : /\ tx[s].write = "update"
                   /\ tx[s].target = a
                   /\ tx[s].pc \in {"queueing", "flushed", "done"}

\* The row lock an UPDATE takes and keeps until its transaction ends.
RowLocked(a) ==
    \E s \in Req : /\ tx[s].write = "update"
                   /\ tx[s].target = a
                   /\ tx[s].pc \in {"queueing", "flushed"}

\* The unique index on email_queue.message_id: an INSERT waits for the end of
\* a transaction that has inserted the same id.
MessagePending(m) ==
    \E s \in Req : tx[s].pc = "flushed" /\ tx[s].msg = {m}

\* The history entry of a request, stamped with the time.
EntryOf(r, status, note) ==
    {[id |-> r, status |-> status, note |-> note, changed_at |-> clock]}

Finish(r, outcome) ==
    tx' = [tx EXCEPT ![r] = [IdleTx(r) EXCEPT !.pc = "done", !.out = outcome]]

Receivable(r, op) == tx[r].pc = "idle" /\ op \in Ops

NewRow(o, c, l, j, s) ==
    [owner |-> o, company |-> c, role |-> l, job |-> j, status |-> s,
     deleted |-> FALSE]

-----------------------------------------------------------------------------
(* POST /log-application: create_application *)

\* _check_duplicates, first SELECT; scalar_one_or_none() raises
\* MultipleResultsFound, an HTTP 500, on more than one row.
PostHardCheck(r, row) ==
    /\ Receivable(r, "post")
    /\ LET twins == HardMatches(row)
       IN  \/ /\ twins = {}
              /\ tx' = [tx EXCEPT ![r] = [@ EXCEPT !.pc = "soft", !.op = "post",
                            !.owner = row.owner, !.new = row]]
           \/ /\ Cardinality(twins) = 1
              /\ Finish(r, "duplicate")
           \/ /\ Cardinality(twins) > 1
              /\ Finish(r, "multiple")
    /\ UNCHANGED <<apps, hist, clock, queue, missed, moved>>

\* _check_duplicates, second SELECT, then both INSERTs are flushed.
PostSoftCheck(r) ==
    /\ tx[r].pc = "soft"
    /\ LET twins == SoftMatches(tx[r].new)
       IN  \/ /\ Cardinality(twins) <= 1
              /\ tx' = [tx EXCEPT ![r] = [@ EXCEPT !.pc = "flushed",
                            !.write = "insert", !.warn = twins # {},
                            !.entry = EntryOf(r, tx[r].new.status, "set")]]
              /\ clock' = clock + 1
           \/ /\ Cardinality(twins) > 1
              /\ Finish(r, "multiple")
              /\ UNCHANGED clock
    /\ UNCHANGED <<apps, hist, queue, missed, moved>>

(* POST /generate-resume: generate_and_log *)
Generate(r, o, c, l) ==
    LET row == NewRow(o, c, l, NoJob, Applied)
    IN  /\ Receivable(r, "generate")
        /\ tx' = [tx EXCEPT ![r] = [@ EXCEPT !.pc = "flushed", !.op = "generate",
                      !.owner = o, !.write = "insert", !.new = row,
                      !.warn = ExistingPostings(row) # {},
                      !.entry = EntryOf(r, Applied, "set")]]
        /\ clock' = clock + 1
        /\ UNCHANGED <<apps, hist, queue, missed, moved>>

-----------------------------------------------------------------------------
(* PATCH and DELETE of an application *)

\* _get_owned raises NotFoundError.
GetMissing(r, op, a, o) ==
    /\ Receivable(r, op)
    /\ op \in {"patch", "delete"}
    /\ ~Owned(a, o)
    /\ Finish(r, "notfound")
    /\ UNCHANGED <<apps, hist, clock, queue, missed, moved>>

\* update_application up to its flush.  A field the body gives its current
\* value is as good as absent, so a body is the row it asks for.
PatchRead(r, a, o, new) ==
    /\ Receivable(r, "patch")
    /\ Owned(a, o)
    /\ new.owner = apps[a].owner /\ new.deleted = apps[a].deleted
    /\ tx' = [tx EXCEPT ![r] = [@ EXCEPT !.pc = "locking", !.op = "patch",
                  !.owner = o, !.target = a, !.row = apps[a], !.new = new,
                  !.entry = IF new.status # apps[a].status
                            THEN EntryOf(r, new.status, "set") ELSE {}]]
    /\ clock' = clock + 1
    /\ UNCHANGED <<apps, hist, queue, missed, moved>>

\* delete_application up to its flush.
DeleteRead(r, a, o) ==
    /\ Receivable(r, "delete")
    /\ Owned(a, o)
    /\ \/ /\ apps[a].deleted
          /\ Finish(r, "noop")
          /\ UNCHANGED clock
       \/ /\ ~apps[a].deleted
          /\ tx' = [tx EXCEPT ![r] = [@ EXCEPT !.pc = "locking", !.op = "delete",
                        !.owner = o, !.target = a, !.row = apps[a],
                        !.new = [apps[a] EXCEPT !.deleted = TRUE],
                        !.entry = EntryOf(r, apps[a].status, "deleted")]]
          /\ clock' = clock + 1
    /\ UNCHANGED <<apps, hist, queue, missed, moved>>

\* The UPDATE of the flush gets the row's lock.
LockRow(r) ==
    /\ tx[r].pc = "locking"
    /\ ~RowLocked(tx[r].target)
    /\ tx' = [tx EXCEPT ![r] = [@ EXCEPT !.write = "update",
                  !.pc = IF tx[r].op = "email" THEN "queueing" ELSE "flushed"]]
    /\ UNCHANGED <<apps, hist, clock, queue, missed, moved>>

-----------------------------------------------------------------------------
(* POST /applications/email-event: process_email_event *)

\* The dedup SELECT, and the categories that are only recorded.
EmailDedup(r, m, ignorable) ==
    /\ Receivable(r, "email")
    /\ \/ /\ m \in queue
          /\ Finish(r, "skipped")
       \/ /\ m \notin queue
          /\ tx' = [tx EXCEPT ![r] = [@ EXCEPT !.op = "email", !.msg = {m},
                        !.pc = IF ignorable THEN "queueing" ELSE "match"]]
    /\ UNCHANGED <<apps, hist, clock, queue, missed, moved>>

\* An application of that company exists: any of them (no ORDER BY).
\* `s' is the category's status, the row's own when the two are equal.
EmailMatch(r, c, s) ==
    /\ tx[r].pc = "match"
    /\ \E a \in CompanyMatches(c) :
          tx' = [tx EXCEPT ![r] = [@ EXCEPT !.target = a, !.row = apps[a],
                    !.new = [apps[a] EXCEPT !.status = s],
                    !.pc = IF s # apps[a].status THEN "locking" ELSE "queueing",
                    !.entry = IF s # apps[a].status
                              THEN EntryOf(r, s, "set") ELSE {}]]
    /\ clock' = clock + 1
    /\ UNCHANGED <<apps, hist, queue, missed, moved>>

\* No application of that company: one is created for the default owner.
EmailCreate(r, c, l, s) ==
    /\ tx[r].pc = "match"
    /\ CompanyMatches(c) = {}
    /\ tx' = [tx EXCEPT ![r] = [@ EXCEPT !.pc = "queueing", !.write = "insert",
                  !.new = NewRow(DefaultOwner, c, l, NoJob, s),
                  !.entry = EntryOf(r, s, "set")]]
    /\ clock' = clock + 1
    /\ UNCHANGED <<apps, hist, queue, missed, moved>>

\* Variant: no unique index on message_id.
QueueMessageNonUnique(r) ==
    /\ tx[r].pc = "queueing"
    /\ tx' = [tx EXCEPT ![r].pc = "flushed"]
    /\ UNCHANGED <<apps, hist, clock, queue, missed, moved>>

\* _write_queue: the INSERT of the message id, unique in the table.
QueueMessage(r) ==
    /\ tx[r].pc = "queueing"
    /\ \A m \in tx[r].msg : ~MessagePending(m)
    /\ \/ /\ tx[r].msg \subseteq queue
          /\ Finish(r, "conflict")
       \/ /\ ~(tx[r].msg \subseteq queue)
          /\ tx' = [tx EXCEPT ![r].pc = "flushed"]
    /\ UNCHANGED <<apps, hist, clock, queue, missed, moved>>

-----------------------------------------------------------------------------
(* The end of a request: get_db commits, or rolls back on an exception. *)

\* Whoever is under way when r commits may have read the rows without its work.
MissedBy(r) ==
    [s \in Req |-> IF Active(s) /\ s # r THEN missed[s] \cup {r} ELSE missed[s]]

Ended(r, outcome) == [tx EXCEPT ![r].pc = "done", ![r].out = outcome]

CommitInsert(r) ==
    /\ tx[r].pc = "flushed" /\ tx[r].write = "insert"
    /\ apps' = [apps EXCEPT ![r] = tx[r].new]
    /\ hist' = [hist EXCEPT ![r] = tx[r].entry]
    /\ queue' = queue \cup tx[r].msg
    /\ tx' = Ended(r, "created")
    /\ missed' = MissedBy(r)
    /\ UNCHANGED <<clock, moved>>

\* Variant: every column of the object is written, changed or not.
MergeWholeRow(old, t) == t.new

\* The columns an UPDATE of transaction t writes on top of the committed row.
Merge(old, t) ==
    [f \in DOMAIN old |-> IF t.new[f] # t.row[f] THEN t.new[f] ELSE old[f]]

CommitUpdate(r) ==
    LET t == tx[r]
    IN  /\ t.pc = "flushed" /\ t.write = "update"
        /\ apps' = [apps EXCEPT ![t.target] = Merge(@, t)]
        /\ hist' = [hist EXCEPT ![t.target] = @ \cup t.entry]
        /\ queue' = queue \cup t.msg
        /\ tx' = Ended(r, CASE t.op = "patch"  -> "updated"
                            [] t.op = "delete" -> "deleted"
                            [] OTHER           -> "processed")
        /\ moved' = IF t.new.company # t.row.company \/ t.new.job # t.row.job
                       \/ t.new.role # t.row.role
                    THEN moved \cup {t.target} ELSE moved
        /\ missed' = MissedBy(r)
        /\ UNCHANGED clock

\* An e-mail that is only recorded in the queue.
CommitMessage(r) ==
    /\ tx[r].pc = "flushed" /\ tx[r].write = "none"
    /\ queue' = queue \cup tx[r].msg
    /\ tx' = Ended(r, IF tx[r].row = NoRow THEN "ignored" ELSE "processed")
    /\ UNCHANGED <<apps, hist, clock, missed, moved>>

Rollback(r) ==
    /\ Active(r)
    /\ Finish(r, "failed")
    /\ UNCHANGED <<apps, hist, clock, queue, missed, moved>>

-----------------------------------------------------------------------------

Receive(r) ==
    \/ \E row \in Row : ~row.deleted /\ PostHardCheck(r, row)
    \/ \E o \in Owner, c \in Company, l \in Role : Generate(r, o, c, l)
    \/ \E op \in Operations, a \in Req, o \in Owner : GetMissing(r, op, a, o)
    \/ \E a \in Req, o \in Owner, new \in Row : PatchRead(r, a, o, new)
    \/ \E a \in Req, o \in Owner : DeleteRead(r, a, o)
    \/ \E m \in Msg, ignorable \in BOOLEAN : EmailDedup(r, m, ignorable)

Step(r) ==
    \/ PostSoftCheck(r)
    \/ LockRow(r)
    \/ \E c \in Company, s \in Status : EmailMatch(r, c, s)
    \/ \E c \in Company, l \in Role, s \in Status : EmailCreate(r, c, l, s)
    \/ QueueMessage(r)
    \/ CommitInsert(r)
    \/ CommitUpdate(r)
    \/ CommitMessage(r)

\* Every request has been answered.
Quiet == (\A r \in Req : tx[r].pc = "done") /\ UNCHANGED vars

Next == Quiet \/ \E r \in Req : Receive(r) \/ Step(r) \/ Rollback(r)

\* The event loop runs every coroutine and PostgreSQL grants a released lock;
\* no client is obliged to send a request, and no transaction to fail.
Fairness == \A r \in Req : WF_vars(Step(r))

Spec == Init /\ [][Next]_vars
FairSpec == Spec /\ Fairness

-----------------------------------------------------------------------------
(* Properties *)

\* Every variable holds values of its kind.
TypeOK ==
    /\ apps \in [Req -> Row \cup {NoRow}]
    /\ hist \in [Req -> SUBSET Entry]
    /\ clock \in Nat
    /\ queue \subseteq Msg
    /\ tx \in [Req -> Tx]
    /\ missed \in [Req -> SUBSET Req]
    /\ moved \subseteq Req

\* The entry e of application a recorded its status, and a status stamped later
\* is there only of a request that committed while the one of e was under way.
Concludes(a, e) ==
    /\ e.note = "set" /\ e.status = apps[a].status
    /\ \A f \in hist[a] : f.note = "set" /\ f.changed_at > e.changed_at
                          => f.id \in missed[e.id]

\* Read in the order of changed_at, an application's committed history ends with
\* its current status, deletion notes aside, unless the writer of a later entry
\* committed while the writer of the status was under way: no PATCH, e-mail,
\* deletion or insertion changes a status unrecorded, records one it did not
\* write, or writes back a stale one.
HistoryMatchesStatus ==
    \A a \in Req : IF apps[a] = NoRow THEN hist[a] = {}
                   ELSE \E e \in hist[a] : Concludes(a, e)

\* Two live applications POSTed with the same owner, company and job id exist
\* only when the later POST's check ran before the earlier one's commit, or
\* when a PATCH changed one of them: _check_duplicates misses nothing else.
DuplicatesAreRaced ==
    \A a, b \in Req :
        (/\ a # b
         /\ Live(a) /\ Live(b)
         /\ tx[a].op = "post" /\ tx[b].op = "post"
         /\ a \notin moved /\ b \notin moved
         /\ SameJob(apps[a], apps[b]))
        => a \in missed[b] \/ b \in missed[a]

\* A soft-deleted application never comes back, however stale the row an
\* overlapping PATCH or e-mail started from.
DeletedStaysDeleted ==
    [][\A a \in Req : apps[a] # NoRow /\ apps[a].deleted
                      => apps'[a] # NoRow /\ apps'[a].deleted]_vars

\* An e-mail message takes effect in at most one committed request, although
\* deliveries of it may overlap (dedup SELECT plus the unique index).
MessageAppliedOnce ==
    \A r, s \in Req :
        (/\ r # s
         /\ tx[r].out \in {"created", "processed", "ignored"}
         /\ tx[s].out \in {"created", "processed", "ignored"})
        => tx[r].msg \cap tx[s].msg = {}

\* A committed application changes only at the commit of a request served for
\* its owner, or of an e-mail, which carries no owner and changes its status and
\* nothing else, whatever columns others wrote since it read the row.
TenantsApart ==
    [][\A a \in Req : apps[a] # NoRow /\ apps'[a] # apps[a]
           => \E r \in Req :
                /\ tx[r].pc = "flushed" /\ tx'[r].pc = "done" /\ tx[r].target = a
                /\ \/ tx[r].owner = apps[a].owner
                   \/ /\ tx[r].op = "email"
                      /\ apps'[a] = [apps[a] EXCEPT !.status = apps'[a].status]]_vars

\* Every request that was received is answered: row locks and pending
\* message ids never make requests wait for each other for ever.
EveryRequestEnds ==
    \A r \in Req : tx[r].pc # "idle" ~> tx[r].pc = "done"

(* What a transaction in flight carries, on which the proofs rest. *)

\* A transaction's only entry.
Records(t, status, note) ==
    \E e \in t.entry : t.entry = {e} /\ e.status = status /\ e.note = note

\* The entry an insertion records, and the one an update may record.
InsertShape(t) ==
    /\ t.new \in Row
    /\ Records(t, t.new.status, "set")

UpdateShape(t) ==
    /\ t.row \in Row /\ t.new \in Row
    /\ t.new.owner = t.row.owner
    /\ t.new.deleted # t.row.deleted => t.new.deleted
    /\ IF t.new.status # t.row.status THEN Records(t, t.new.status, "set")
       ELSE t.entry = {} \/ \E s \in Status : Records(t, s, "deleted")
    /\ apps[t.target] # NoRow

\* Whenever a request may commit, its history entry is the one that fits the
\* columns it writes, its row exists, and its own id is still free.
TxShape ==
    \A r \in Req :
        /\ tx[r].pc # "done" => apps[r] = NoRow /\ hist[r] = {}
        /\ tx[r].pc \in {"idle", "soft", "match", "locking"} => tx[r].write = "none"
        /\ tx[r].pc \in {"match", "locking", "queueing"} => tx[r].op # "post"
        /\ tx[r].pc = "soft" => tx[r].op = "post" /\ tx[r].new \in Row
        /\ tx[r].pc = "locking" => UpdateShape(tx[r])
        /\ Active(r) /\ tx[r].write = "insert" => InsertShape(tx[r])
        /\ Active(r) /\ tx[r].write = "update" => UpdateShape(tx[r])

\* A POST between its check and its commit knows of every live, unmoved twin
\* of its row: the twin was inserted after the check.
ChecksAreCurrent ==
    \A r, a \in Req :
        (/\ Active(r) /\ tx[r].op = "post"
         /\ Live(a) /\ tx[a].op = "post" /\ a \notin moved
         /\ SameJob(apps[a], tx[r].new))
        => a \in missed[r]

\* Stamps are of the past, and entries of their own requests, committed ones of
\* requests that ended; a later stamp than that of an entry in flight, in the
\* history the entry is for, is of a request that its own has missed.
StampsAreCurrent ==
    /\ \A a \in Req : \A f \in hist[a] : tx[f.id].pc = "done" /\ f.changed_at < clock
    /\ \A r \in Req :
          /\ tx[r].pc = "idle" => tx[r].entry = {}
          /\ \A e \in tx[r].entry : e.id = r /\ e.changed_at < clock
          /\ Active(r) => \A e \in tx[r].entry : \A f \in hist[tx[r].target] :
                             f.changed_at > e.changed_at => f.id \in missed[r]

Inv ==
    /\ TypeOK
    /\ TxShape
    /\ StampsAreCurrent
    /\ HistoryMatchesStatus
    /\ ChecksAreCurrent
    /\ DuplicatesAreRaced

\* Only an e-mail carries a message id, one; a request that took effect has its
\* id in the queue, and one that holds the unique index's entry has an id that
\* is neither in the queue nor in another such request.
MessageShape ==
    \A r \in Req :
        /\ tx[r].msg = {} \/ \E m \in Msg : tx[r].msg = {m}
        /\ tx[r].pc = "idle" \/ tx[r].op # "email" => tx[r].msg = {}
        /\ tx[r].out \in {"created", "processed", "ignored"}
              => tx[r].pc = "done" /\ tx[r].msg \subseteq queue
        /\ tx[r].pc = "flushed" =>
              /\ tx[r].msg \cap queue = {}
              /\ \A s \in Req \ {r} :
                    tx[s].pc = "flushed" => tx[r].msg \cap tx[s].msg = {}

\* An UPDATE on its way is its owner's, e-mails aside.
OwnerShape ==
    \A r \in Req :
        /\ tx[r].pc = "match" => tx[r].op = "email"
        /\ tx[r].pc = "locking" \/ (Active(r) /\ tx[r].write = "update")
              => tx[r].op = "email" \/ tx[r].owner = apps[tx[r].target].owner

\* What an UPDATE on its way changes, by its operation.
UpdateFits(t) ==
    \/ t.op = "patch" /\ t.new.deleted = t.row.deleted
                      /\ (t.new.status = t.row.status => t.entry = {})
    \/ t.op = "delete" /\ ~t.row.deleted /\ t.new = [t.row EXCEPT !.deleted = TRUE]
                       /\ \E s \in Status : Records(t, s, "deleted")
    \/ t.op = "email" /\ t.new.status # t.row.status
                      /\ t.new = [t.row EXCEPT !.status = t.new.status]

\* A transaction t is not answered before its end, inserts no deleted row, and
\* has a message just when it is of an e-mail.
AnswerShape(t) ==
    /\ t.pc # "done" => t.out = "none"
    /\ t.pc = "soft" \/ (t.pc \notin {"idle", "done"} /\ t.write = "insert")
          => ~t.new.deleted
    /\ t.pc = "locking" \/ (t.pc \notin {"idle", "done"} /\ t.write = "update")
          => UpdateFits(t)
    /\ t.pc \notin {"idle", "done"} => (t.op = "email" <=> t.msg # {})
    /\ t.pc = "queueing" \/ (t.pc = "flushed" /\ t.write = "none")
          => t.op = "email"

-----------------------------------------------------------------------------
(* The promise of Ledger, kept. *)

Promise == INSTANCE Ledger WITH
    App <- Req, rows <- apps, histories <- hist, taken <- queue,
    answers <- [r \in Req |-> tx[r].out]

\* Requests that read, decide, wait and write in steps of their own act on the
\* committed tables as if each were one step: db/session.py get_db.
LedgerKept == Promise!Spec

(* What the source says and repeated requests break. *)

\* application_service.py, _check_duplicates: a soft duplicate raises a
\* warning; it never makes the POST fail.
SoftDuplicateOnlyWarns == \A r \in Req : tx[r].out # "multiple"
=============================================================================
