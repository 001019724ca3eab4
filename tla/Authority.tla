------------------------------ MODULE Authority ------------------------------
(***************************************************************************)
(* What the administration of roles and groups promises: each request is   *)
(* answered once, and what it changes of the link tables, the groups and   *)
(* the accounts is one step together with its row of the audit log, by     *)
(* somebody whom the log allowed it; a group goes with all its rows, and   *)
(* no two groups have one name.                                            *)
(***************************************************************************)
EXTENDS Sequences

CONSTANTS
    Req, User, Group, Name, NoName, Pair, Seeded, SeedGroups,
    InGroup(_, _), \* whether a row is of a group
    MayAct(_, _, _) \* whether a log lets a user do what is asked

VARIABLES
    pairs,  \* who holds which role and is in which group
    groups, \* their names
    active, \* accounts
    log,
    answers \* to each request; the group it creates has its name

vars == <<pairs, groups, active, log, answers>>

Init ==
    /\ pairs = Seeded
    /\ groups = SeedGroups
    /\ active = User
    /\ log = <<>>
    /\ answers = [r \in Req |-> "none"]

Exists(g) == groups[g] # NoName

Answer(r, out) ==
    /\ answers[r] = "none"
    /\ answers' = [answers EXCEPT ![r] = out]

\* What is done is answered and recorded.
Does(r, op, on) ==
    /\ Answer(r, "ok")
    /\ \E u \in User :
          /\ MayAct(u, [op |-> op, on |-> on], log)
          /\ log' = log \o <<[by |-> r, actor |-> u, ask |-> [op |-> op, on |-> on]]>>

Grant(r, p) ==
    /\ p \notin pairs
    /\ \A g \in Group : InGroup(p, g) => Exists(g)
    /\ pairs' = pairs \cup {p}
    /\ Does(r, "grant", p)
    /\ UNCHANGED <<groups, active>>

\* A revocation next to a grant of the same row may not find it.
Revoke(r, p) ==
    /\ pairs' \in {pairs, pairs \ {p}}
    /\ Does(r, "revoke", p)
    /\ UNCHANGED <<groups, active>>

Create(r, name) ==
    /\ ~Exists(r)
    /\ \A g \in Group : groups[g] # name
    /\ groups' = [groups EXCEPT ![r] = name]
    /\ Does(r, "create", name)
    /\ UNCHANGED <<pairs, active>>

\* Of two deletions of a group the second changes nothing.
Delete(r, g) ==
    /\ groups' = [groups EXCEPT ![g] = NoName]
    /\ pairs' = {p \in pairs : ~InGroup(p, g)}
    /\ Does(r, "delete", g)
    /\ UNCHANGED active

\* An account that was read as it should be is left alone.
SetActive(r, u) ==
    /\ \/ active' \in {active, active \cup {u}} /\ Does(r, "activate", u)
       \/ active' \in {active, active \ {u}} /\ Does(r, "deactivate", u)
    /\ UNCHANGED <<pairs, groups>>

\* What is there already is neither granted nor recorded again.
Keep(r) ==
    /\ pairs # {}
    /\ Answer(r, "ok")
    /\ UNCHANGED <<pairs, groups, active, log>>

Decline(r) ==
    /\ \/ Answer(r, "duplicate") /\ \E g \in Group : Exists(g)
       \/ \E out \in {"forbidden", "notfound", "conflict", "failed"} : Answer(r, out)
    /\ UNCHANGED <<pairs, groups, active, log>>

Next ==
    \E r \in Req :
        \/ \E p \in Pair : Grant(r, p) \/ Revoke(r, p)
        \/ \E name \in Name : Create(r, name)
        \/ \E g \in Group : Delete(r, g)
        \/ \E u \in User : SetActive(r, u)
        \/ Keep(r) \/ Decline(r)

Spec == Init /\ [][Next]_vars
=============================================================================
