--------------------------------- MODULE Iam ---------------------------------
(***************************************************************************)
(* Roles, groups and the audit log: the link tables user_roles,            *)
(* group_members and group_roles, the groups they hang on, users.is_active *)
(* and iam_audit_log, as written by the routes of api/admin.py.  Each      *)
(* route first resolves its caller's permissions (api/deps.py), then       *)
(* checks, writes and audits in iam_service.py, in one READ COMMITTED      *)
(* transaction that get_db commits.                                        *)
(*                                                                         *)
(* Users and roles are never deleted through the API.  A group's id is a   *)
(* fresh uuid4 of the request that creates it, so that group is called by  *)
(* the request's name.                                                     *)
(***************************************************************************)
EXTENDS Naturals, Sequences, FiniteSets

CONSTANTS
    Req,       \* administrative requests; each is served once
    User,
    Role,
    Confers,   \* ROLE_PERMISSIONS: the permissions of each role
    Group,     \* group ids: requests, and groups of old
    Name,      \* group names
    NoName,    \* "no such group"
    Seeded,    \* rows of the link tables at the start
    SeedGroups \* groups at the start, by id

Permission == {"users.manage", "groups.manage"}

ASSUME GroupAssumption == Req \subseteq Group /\ NoName \notin Name
ASSUME ConfersAssumption == Confers \in [Role -> SUBSET Permission]
ASSUME SeedGroupsAssumption ==
    /\ SeedGroups \in [Group -> Name \cup {NoName}]
    /\ \A r \in Req : SeedGroups[r] = NoName
    /\ \A g, h \in Group :
          SeedGroups[g] = SeedGroups[h] /\ SeedGroups[g] # NoName => g = h

\* Rows of the link tables; the primary key of each is the whole row.
UserRole    == {"user_role"} \X User \X Role
GroupMember == {"group_member"} \X Group \X User
GroupRole   == {"group_role"} \X Group \X Role
Pair == UserRole \cup GroupMember \cup GroupRole

InGroup(p, g) == p[1] \in {"group_member", "group_role"} /\ p[2] = g

ASSUME SeededAssumption ==
    /\ Seeded \subseteq Pair
    /\ \A p \in Seeded, g \in Group : InGroup(p, g) => SeedGroups[g] # NoName

\* What a request asks for: an operation and its argument.
Ask ==
    [op: {"grant", "revoke"}, on: Pair] \cup [op: {"create"}, on: Name]
    \cup [op: {"delete"}, on: Group] \cup [op: {"activate", "deactivate"}, on: User]

\* A row of iam_audit_log: the request that wrote it, who made it and for what.
Entry == [by: Req, actor: User, ask: Ask]

Phase == {"idle", "reading", "writing", "linking", "cascading", "flushed", "done"}

Outcome == {"none", "ok", "forbidden", "notfound", "duplicate", "conflict", "failed"}

\* A transaction: `changes' tells whether its statement changes anything, and
\* `removes' the rows of the link tables that it deletes and keeps locked.
Tx == [pc: Phase, entry: Seq(Entry), changes: BOOLEAN, removes: SUBSET Pair,
       out: Outcome]

VARIABLES
    pairs,  \* committed rows of the three link tables
    groups, \* committed groups: the name of each id
    active, \* users whose is_active is committed
    audit,  \* committed iam_audit_log, in commit order
    tx

vars == <<pairs, groups, active, audit, tx>>
tables == <<pairs, groups, active, audit>>

IdleTx == [pc |-> "idle", entry |-> <<>>, changes |-> FALSE, removes |-> {},
           out |-> "none"]

Init ==
    /\ pairs = Seeded
    /\ groups = SeedGroups
    /\ active = User
    /\ audit = <<>>
    /\ tx = [r \in Req |-> IdleTx]

-----------------------------------------------------------------------------
(* Resolution *)

\* Variant: group roles are joined without the membership.
RolesOfAnyGroup(u, rows) ==
    {role \in Role : <<"user_role", u, role>> \in rows
                     \/ \E g \in Group : <<"group_role", g, role>> \in rows}

\* get_role_names: direct roles, and those of the groups u is a member of.
RolesOf(u, rows) ==
    {role \in Role :
        \/ <<"user_role", u, role>> \in rows
        \/ \E g \in Group : /\ <<"group_role", g, role>> \in rows
                            /\ <<"group_member", g, u>> \in rows}

\* get_effective_permissions
PermissionsOf(u, rows) == UNION {Confers[role] : role \in RolesOf(u, rows)}

\* The permission each route requires.
Required(ask) ==
    IF ask.op \in {"activate", "deactivate"} \/ ask.on \in UserRole
    THEN "users.manage" ELSE "groups.manage"

GroupExists(g) == groups[g] # NoName

\* get_group_required, for the operations on a group.
Missing(ask) ==
    \/ ask.op = "delete" /\ ~GroupExists(ask.on)
    \/ /\ ask.op \in {"grant", "revoke"}
       /\ \E g \in Group : InGroup(ask.on, g) /\ ~GroupExists(g)

AskOf(r) == tx[r].entry[1].ask

\* A flushed statement of s's transaction, which its locks protect.
Flushed(s, op) == tx[s].pc = "flushed" /\ tx[s].changes /\ AskOf(s).op = op

Finish(r, outcome) ==
    tx' = [tx EXCEPT ![r] = [IdleTx EXCEPT !.pc = "done", !.out = outcome]]

Write(r, removed) ==
    tx' = [tx EXCEPT ![r] = [@ EXCEPT !.pc = "flushed", !.changes = TRUE,
                                      !.removes = removed]]

-----------------------------------------------------------------------------
(* require_permission *)

Authorize(r, actor, ask) ==
    /\ tx[r].pc = "idle"
    /\ \/ /\ actor \in active
          /\ Required(ask) \in PermissionsOf(actor, pairs)
          /\ tx' = [tx EXCEPT ![r] = [@ EXCEPT !.pc = "reading",
                        !.entry = <<[by |-> r, actor |-> actor, ask |-> ask]>>]]
       \/ /\ ~(actor \in active /\ Required(ask) \in PermissionsOf(actor, pairs))
          /\ Finish(r, "forbidden")
    /\ UNCHANGED tables

(* The SELECTs of each operation *)

\* No row to act on; or the row is there already, and nothing is written.
Refuse(r) ==
    /\ tx[r].pc = "reading"
    /\ LET ask == AskOf(r)
       IN  \/ Missing(ask) /\ Finish(r, "notfound")
           \/ ask.op = "grant" /\ ~Missing(ask) /\ ask.on \in pairs /\ Finish(r, "ok")
           \/ /\ ask.op = "create"
              /\ \E g \in Group : groups[g] = ask.on
              /\ Finish(r, "duplicate")
    /\ UNCHANGED tables

\* set_user_active of a user who already is: no UPDATE, but an audit row.
ReadSame(r) ==
    /\ tx[r].pc = "reading"
    /\ \/ AskOf(r).op = "activate" /\ AskOf(r).on \in active
       \/ AskOf(r).op = "deactivate" /\ AskOf(r).on \notin active
    /\ tx' = [tx EXCEPT ![r].pc = "flushed"]
    /\ UNCHANGED tables

Read(r) ==
    /\ tx[r].pc = "reading"
    /\ LET ask == AskOf(r)
       IN  /\ ~Missing(ask)
           /\ ask.op = "grant" => ask.on \notin pairs
           /\ ask.op = "create" => \A g \in Group : groups[g] # ask.on
           /\ ask.op = "activate" => ask.on \notin active
           /\ ask.op = "deactivate" => ask.on \in active
    /\ tx' = [tx EXCEPT ![r].pc = "writing"]
    /\ UNCHANGED tables

-----------------------------------------------------------------------------
(* The statements that write, with the locks they wait for *)

\* Rows of the link tables deleted by a transaction that has not ended.
PairGoing(p) == \E s \in Req : p \in tx[s].removes

\* Rows that are inserted, but not committed.
PairComing(p) ==
    \E s \in Req : (tx[s].pc = "linking" \/ Flushed(s, "grant")) /\ AskOf(s).on = p

\* The group's row is deleted, but not committed.
GroupGoing(g) ==
    \E s \in Req : (tx[s].pc = "cascading" \/ Flushed(s, "delete")) /\ AskOf(s).on = g

\* An inserted row's foreign key holds its group's row (FOR KEY SHARE).
GroupHeld(g) == \E s \in Req : Flushed(s, "grant") /\ InGroup(AskOf(s).on, g)

\* Variant: no primary key on the link table.
InsertPairAgain(r) ==
    /\ tx[r].pc = "writing" /\ AskOf(r).op = "grant"
    /\ tx' = [tx EXCEPT ![r].pc = "linking"]
    /\ UNCHANGED tables

\* INSERT of assign_role, add_member, add_group_role: the primary key waits for
\* the end of a transaction that inserts or deletes the same row.
InsertPair(r) ==
    /\ tx[r].pc = "writing" /\ AskOf(r).op = "grant"
    /\ LET p == AskOf(r).on
       IN  /\ ~PairGoing(p) /\ ~PairComing(p)
           /\ IF p \in pairs THEN Finish(r, "conflict")
              ELSE tx' = [tx EXCEPT ![r].pc = "linking"]
    /\ UNCHANGED tables

\* Variant: no foreign key to groups.
LinkPairUnkeyed(r) ==
    /\ tx[r].pc = "linking"
    /\ Write(r, {})
    /\ UNCHANGED tables

\* The INSERT's foreign key waits for the end of a deletion of the group.
LinkPair(r) ==
    /\ tx[r].pc = "linking"
    /\ \A g \in Group : InGroup(AskOf(r).on, g) => ~GroupGoing(g)
    /\ IF Missing(AskOf(r)) THEN Finish(r, "conflict") ELSE Write(r, {})
    /\ UNCHANGED tables

\* DELETE of revoke_role, remove_member, remove_group_role: it waits for the
\* row's lock, and does not see a row that is not committed.
DeletePair(r) ==
    /\ tx[r].pc = "writing" /\ AskOf(r).op = "revoke"
    /\ ~PairGoing(AskOf(r).on)
    /\ Write(r, {AskOf(r).on} \cap pairs)
    /\ UNCHANGED tables

\* INSERT of create_group: groups.name is unique.
InsertGroup(r) ==
    LET name == AskOf(r).on
    IN  /\ tx[r].pc = "writing" /\ AskOf(r).op = "create"
        /\ ~\E s \in Req : Flushed(s, "create") /\ AskOf(s).on = name
        /\ \A g \in Group : groups[g] = name => ~GroupGoing(g)
        /\ IF \E g \in Group : groups[g] = name
           THEN Finish(r, "conflict") ELSE Write(r, {})
        /\ UNCHANGED tables

\* DELETE of delete_group; no row is deleted when another was faster.
DeleteGroup(r) ==
    LET g == AskOf(r).on
    IN  /\ tx[r].pc = "writing" /\ AskOf(r).op = "delete"
        /\ ~GroupGoing(g) /\ ~GroupHeld(g)
        /\ tx' = [tx EXCEPT ![r].pc = IF GroupExists(g) THEN "cascading" ELSE "flushed"]
        /\ UNCHANGED tables

\* Variant: the rows being added to the group are deleted, too.
CascadeToComing(g) == {p \in Pair : InGroup(p, g) /\ (p \in pairs \/ PairComing(p))}

\* ON DELETE CASCADE: the committed rows of the group.
CascadeTo(g) == {p \in pairs : InGroup(p, g)}

\* The cascade waits for the locks of the rows it deletes.
Cascade(r) ==
    LET rows == CascadeTo(AskOf(r).on)
    IN  /\ tx[r].pc = "cascading"
        /\ \A p \in rows : ~PairGoing(p) /\ ~PairComing(p)
        /\ Write(r, rows)
        /\ UNCHANGED tables

\* UPDATE of set_user_active.
UpdateUser(r) ==
    /\ tx[r].pc = "writing" /\ AskOf(r).op \in {"activate", "deactivate"}
    /\ ~\E s \in Req : /\ Flushed(s, "activate") \/ Flushed(s, "deactivate")
                       /\ AskOf(s).on = AskOf(r).on
    /\ Write(r, {})
    /\ UNCHANGED tables

-----------------------------------------------------------------------------
(* The end of a request *)

\* Variant: a revocation is not audited.
RecordedGrantsOnly(r) ==
    IF AskOf(r).op = "revoke" THEN <<>> ELSE tx[r].entry

\* _audit
Recorded(r) == tx[r].entry

\* get_db commits; a statement that changed nothing leaves only its audit row.
Commit(r) ==
    LET ask == AskOf(r)
        does(op) == tx[r].changes /\ ask.op = op
    IN  /\ tx[r].pc = "flushed"
        /\ pairs' = (pairs \ tx[r].removes)
                    \cup {p \in Pair : does("grant") /\ p = ask.on}
        /\ groups' = [g \in Group |-> IF does("create") /\ g = r THEN ask.on
                                      ELSE IF does("delete") /\ g = ask.on THEN NoName
                                      ELSE groups[g]]
        /\ active' = (active \ {u \in User : does("deactivate") /\ u = ask.on})
                     \cup {u \in User : does("activate") /\ u = ask.on}
        /\ audit' = audit \o Recorded(r)
        /\ Finish(r, "ok")

Rollback(r) ==
    /\ tx[r].pc \notin {"idle", "done"}
    /\ Finish(r, "failed")
    /\ UNCHANGED tables

Step(r) ==
    \/ Refuse(r) \/ ReadSame(r) \/ Read(r)
    \/ InsertPair(r) \/ LinkPair(r) \/ DeletePair(r)
    \/ InsertGroup(r) \/ DeleteGroup(r) \/ Cascade(r)
    \/ UpdateUser(r)
    \/ Commit(r)

Quiet == (\A r \in Req : tx[r].pc = "done") /\ UNCHANGED vars

Next ==
    \/ Quiet
    \/ \E r \in Req : \/ Step(r) \/ Rollback(r)
                      \/ \E actor \in User, ask \in Ask : Authorize(r, actor, ask)

Spec == Init /\ [][Next]_vars

-----------------------------------------------------------------------------
(* Properties *)

TypeOK ==
    /\ pairs \subseteq Pair
    /\ groups \in [Group -> Name \cup {NoName}]
    /\ active \subseteq User
    /\ audit \in Seq(Entry)
    /\ tx \in [Req -> Tx]

Grants(entry, p) == entry.ask.op = "grant" /\ entry.ask.on = p

Ends(entry, p) ==
    \/ entry.ask.op = "revoke" /\ entry.ask.on = p
    \/ entry.ask.op = "delete" /\ InGroup(p, entry.ask.on)

\* No member and no role of a deleted group is left, however its deletion
\* overlaps additions to it (foreign keys, ON DELETE CASCADE).
NoOrphans ==
    \A p \in pairs, g \in Group : InGroup(p, g) => GroupExists(g)

\* api/admin.py: "every write is recorded in iam_audit_log": a grant that the
\* log shows and nothing after it takes back is in force, and a row in force
\* was seeded or is in the log.
LogCoversGrants ==
    \A p \in Pair :
        /\ (\E i \in 1..Len(audit) :
               /\ Grants(audit[i], p)
               /\ \A j \in (i + 1)..Len(audit) : ~Ends(audit[j], p))
           => p \in pairs
        /\ p \in pairs => p \in Seeded \/ \E i \in 1..Len(audit) : Grants(audit[i], p)

\* Overlapping requests never grant the same thing twice: between two grants of
\* it the log has its revocation or its group's deletion.
GrantsAlternate ==
    \A p \in Pair : \A i, j \in 1..Len(audit) :
        (i < j /\ Grants(audit[i], p) /\ Grants(audit[j], p))
        => \E k \in (i + 1)..(j - 1) : Ends(audit[k], p)

\* u may do what the permission is for, by these rows.
Entitled(u, permission, rows) ==
    \E role \in Role :
        /\ permission \in Confers[role]
        /\ \/ <<"user_role", u, role>> \in rows
           \/ \E g \in Group :
                 {<<"group_role", g, role>>, <<"group_member", g, u>>} \subseteq rows

\* Authority is handed down through committed grants only: the actor of every
\* logged write could hold the permission it needs by the seed and by grants
\* logged before it, direct or through a group.
AuthorityFromLog ==
    \A i \in 1..Len(audit) :
        LET granted == {p \in Pair : \E j \in 1..(i - 1) : Grants(audit[j], p)}
        IN  Entitled(audit[i].actor, Required(audit[i].ask), Seeded \cup granted)

\* What the next statement of r waits for has ended.
Unblocked(r) ==
    LET ask == AskOf(r)
        writes(op) == tx[r].pc = "writing" /\ ask.op = op
    IN  \/ tx[r].pc \in {"reading", "flushed"}
        \/ writes("grant") /\ ~PairGoing(ask.on) /\ ~PairComing(ask.on)
        \/ writes("revoke") /\ ~PairGoing(ask.on)
        \/ /\ writes("create")
           /\ ~\E s \in Req : Flushed(s, "create") /\ AskOf(s).on = ask.on
           /\ \A g \in Group : groups[g] = ask.on => ~GroupGoing(g)
        \/ writes("delete") /\ ~GroupGoing(ask.on) /\ ~GroupHeld(ask.on)
        \/ /\ writes("activate") \/ writes("deactivate")
           /\ ~\E s \in Req : /\ Flushed(s, "activate") \/ Flushed(s, "deactivate")
                              /\ AskOf(s).on = ask.on
        \/ /\ tx[r].pc = "linking"
           /\ \A g \in Group : InGroup(ask.on, g) => ~GroupGoing(g)
        \/ /\ tx[r].pc = "cascading"
           /\ \A p \in CascadeTo(ask.on) : ~PairGoing(p) /\ ~PairComing(p)

\* Insertions into a group, removals from it and its deletion never wait for
\* each other in a circle: while requests are under way, one waits for nothing.
NoWaitingCircle ==
    (\E r \in Req : tx[r].pc \notin {"idle", "done"}) => \E r \in Req : Unblocked(r)

\* And that one can take a step.
SomeoneProceeds ==
    NoWaitingCircle /\ \A r \in Req : Unblocked(r) <=> ENABLED Step(r)

\* api/deps.py, get_current_owner: "an IAM deactivation takes effect on the
\* next request": once a deactivation has committed, the account is inactive.
DeactivationTakesEffect ==
    [][\A r \in Req :
          (/\ tx[r].pc = "flushed" /\ tx'[r].out = "ok"
           /\ AskOf(r).op = "deactivate")
          => AskOf(r).on \notin active']_vars

-----------------------------------------------------------------------------
(* What is inductive *)

Underway(x) == x.pc \notin {"idle", "done"}

\* What a request x in flight asks for, and the rows and groups it has a claim on.
AskBy(x) == x.entry[1].ask

Inserts(x) == x.pc = "linking" \/ (x.pc = "flushed" /\ x.changes /\ AskBy(x).op = "grant")

Holds(x, g) ==
    x.pc = "flushed" /\ x.changes /\ AskBy(x).op = "grant" /\ InGroup(AskBy(x).on, g)

Deleted(x, g) ==
    x.pc = "flushed" /\ x.changes /\ AskBy(x).op = "delete" /\ AskBy(x).on = g

Deletes(x, g) == (x.pc = "cascading" /\ AskBy(x).on = g) \/ Deleted(x, g)

\* Its transaction does what its audit row will say.
Tells(x) ==
    /\ Underway(x) => Len(x.entry) = 1
    /\ x.pc = "linking" => AskBy(x).op = "grant"
    /\ x.pc = "cascading" => AskBy(x).op = "delete"
    /\ x.pc = "flushed" /\ AskBy(x).op = "grant" => x.changes
    /\ x.pc # "flushed" => x.removes = {} /\ ~x.changes
    /\ \A p \in x.removes : Ends(x.entry[1], p)

\* The row it inserts is not there, and its group is.
InsertsNew(x) ==
    /\ Inserts(x) => AskBy(x).on \notin pairs
    /\ \A g \in Group : Holds(x, g) => GroupExists(g)

\* Its cascade took every row of the group.
CascadeComplete(x) ==
    \A g \in Group : Deleted(x, g) => CascadeTo(g) \subseteq x.removes

Granted(log) == {p \in Pair : \E j \in 1..Len(log) : Grants(log[j], p)}

\* Its actor could hold the permission by what is logged so far.
ActsByLog(x) ==
    Underway(x) =>
        Entitled(x.entry[1].actor, Required(AskBy(x)), Seeded \cup Granted(audit))

Fits(x) == Tells(x) /\ InsertsNew(x) /\ CascadeComplete(x) /\ ActsByLog(x)

InsertersApart ==
    \A r, s \in Req :
        Inserts(tx[r]) /\ Inserts(tx[s]) /\ AskOf(r).on = AskOf(s).on => r = s

\* The foreign key: nobody holds a group that another deletes.
HoldersApart ==
    \A r, s \in Req, g \in Group : ~(Holds(tx[r], g) /\ Deletes(tx[s], g))

Inv ==
    /\ TypeOK
    /\ \A r \in Req : Fits(tx[r])
    /\ InsertersApart
    /\ HoldersApart
    /\ NoOrphans
    /\ LogCoversGrants
    /\ GrantsAlternate
    /\ AuthorityFromLog

-----------------------------------------------------------------------------
(* The promise of Authority, kept. *)

Writes(x, op) == x.pc \in {"writing", "cascading", "flushed"} /\ AskBy(x).op = op

\* Group ids are fresh, a request is answered when it is done, and its statement
\* does what its audit row says.
PromiseShape(r) ==
    /\ groups[r] # NoName => tx[r].pc = "done"
    /\ tx[r].pc # "done" => tx[r].out = "none"
    /\ Underway(tx[r]) => tx[r].entry[1].by = r
    /\ Writes(tx[r], "delete") /\ AskOf(r).on \in Req => tx[AskOf(r).on].pc = "done"
    /\ Writes(tx[r], "create") /\ tx[r].pc = "flushed" =>
          tx[r].changes /\ \A g \in Group : groups[g] # AskOf(r).on
    /\ Writes(tx[r], "delete") /\ tx[r].pc = "flushed" =>
          tx[r].changes \/ ~GroupExists(AskOf(r).on)

\* groups.name is unique, for what is pending, too.
CreatorsApart ==
    \A r, s \in Req :
        Flushed(r, "create") /\ Flushed(s, "create") /\ AskOf(r).on = AskOf(s).on => r = s

PromiseInv == (\A r \in Req : PromiseShape(r)) /\ CreatorsApart

\* The log so far lets u do what is asked.
MayAct(u, ask, log) == Entitled(u, Required(ask), Seeded \cup Granted(log))

Promise == INSTANCE Authority WITH
    log <- audit, answers <- [r \in Req |-> tx[r].out]

\* Administrative requests that are authorized, read, wait for locks and write in
\* steps of their own act as if each were one step: api/admin.py, iam_service.py.
AuthorityKept == Promise!Spec
=============================================================================
