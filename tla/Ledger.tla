-------------------------------- MODULE Ledger --------------------------------
(***************************************************************************)
(* What the tracker promises of a tenant's applications: every request is  *)
(* answered once and takes effect in one step, wholly or not at all; a row *)
(* and its history change together; an owner never changes; what is        *)
(* deleted stays so; an e-mail takes effect once; and an answer that says  *)
(* why nothing was done is true when it is given.                          *)
(***************************************************************************)
CONSTANTS App, Row, NoRow, Status, Msg

VARIABLES
    rows,      \* of each application
    histories, \* of each application: what was recorded of it
    taken,     \* e-mails that have taken effect
    answers    \* to each request; a request's application has its name

vars == <<rows, histories, taken, answers>>

Init ==
    /\ rows = [a \in App |-> NoRow]
    /\ histories = [a \in App |-> {}]
    /\ taken = {}
    /\ answers = [r \in App |-> "none"]

Present(a) == rows[a] # NoRow
Live(a) == Present(a) /\ ~rows[a].deleted

Answer(r, out) ==
    /\ answers[r] = "none"
    /\ answers' = [answers EXCEPT ![r] = out]

Take(m) == m \notin taken /\ taken' = taken \cup {m}

Rewrite(a, new) == rows' = [rows EXCEPT ![a] = new]

\* An entry of request r more in the history of a.  When it is stamped, and so
\* where a reader finds it, is not promised: that time may have passed.
Record(r, a, status, note) ==
    \E e \in histories'[a] \ histories[a] :
        /\ e.id = r /\ e.status = status /\ e.note = note
        /\ histories' = [histories EXCEPT ![a] = @ \cup {e}]

\* A new application, of a request or of an e-mail.
Make(r) ==
    /\ ~Present(r)
    /\ \E row \in Row :
          ~row.deleted /\ Rewrite(r, row) /\ Record(r, r, row.status, "set")
    /\ UNCHANGED taken \/ \E m \in Msg : Take(m)
    /\ Answer(r, "created")

\* Other columns, but neither the owner nor is_deleted.  A changed status is
\* recorded; one that is written again may be.
Update(r, a) ==
    /\ Present(a)
    /\ \E new \in Row :
          /\ new.owner = rows[a].owner /\ new.deleted = rows[a].deleted
          /\ Rewrite(a, new)
          /\ \/ Record(r, a, new.status, "set")
             \/ new.status = rows[a].status /\ UNCHANGED histories
    /\ Answer(r, "updated")
    /\ UNCHANGED taken

Delete(r, a) ==
    /\ Present(a)
    /\ Rewrite(a, [rows[a] EXCEPT !.deleted = TRUE])
    /\ \E s \in Status : Record(r, a, s, "deleted")
    /\ Answer(r, "deleted")
    /\ UNCHANGED taken

\* An e-mail that gives an application its status.
Process(r, a) ==
    /\ Present(a)
    /\ \E s \in Status :
          Rewrite(a, [rows[a] EXCEPT !.status = s]) /\ Record(r, a, s, "set")
    /\ \E m \in Msg : Take(m)
    /\ Answer(r, "processed")

\* An e-mail that changes no application.
Note(r) ==
    /\ \E m \in Msg : Take(m)
    /\ \E out \in {"processed", "ignored"} : Answer(r, out)
    /\ UNCHANGED <<rows, histories>>

\* Why nothing was done.
Grounds(out) ==
    \/ out \in {"failed", "notfound"}
    \/ out = "noop" /\ \E a \in App : Present(a) /\ rows[a].deleted
    \/ out = "duplicate" /\ \E a \in App : Live(a)
    \/ /\ out = "multiple"
       /\ \E a, b \in App : /\ a # b /\ Live(a) /\ Live(b)
                            /\ rows[a].owner = rows[b].owner
                            /\ rows[a].company = rows[b].company
    \/ out \in {"skipped", "conflict"} /\ taken # {}

Decline(r) ==
    /\ \E out \in {"failed", "notfound", "noop", "duplicate", "multiple", "skipped",
                   "conflict"} : Grounds(out) /\ Answer(r, out)
    /\ UNCHANGED <<rows, histories, taken>>

Next ==
    \E r \in App :
        \/ Make(r) \/ Note(r) \/ Decline(r)
        \/ \E a \in App : Update(r, a) \/ Delete(r, a) \/ Process(r, a)

Spec == Init /\ [][Next]_vars
=============================================================================
