------------------------------ MODULE Dashboard ------------------------------
(***************************************************************************)
(* The dashboard's page (src/dashboard/src): the sign-in gate (auth.jsx),  *)
(* the tracker's list, its drawer and its "Log Application" dialog         *)
(* (App.jsx, components/), and the calls they have in flight               *)
(* (services/api.js).                                                      *)
(*                                                                         *)
(* JavaScript runs one handler at a time, up to its next `await'; a call   *)
(* is served at some point after it is sent, and its answer handled at     *)
(* some point after that, so that answers overtake each other.  A handler  *)
(* goes on with the state of the render it was created in (its closure).   *)
(***************************************************************************)
EXTENDS Functions

CONSTANTS
    Task,    \* handlers in flight at a time
    App,     \* applications
    Status,
    All,     \* the list without a filter
    NoApp,
    NoRow

\* What the list is asked for: filters, order and page.
View == Status \cup {All}

Row == [status: Status, deleted: BOOLEAN]

ASSUME NullAssumption == NoApp \notin App /\ NoRow \notin Row /\ All \notin Status
ASSUME StatusAssumption == Status # {}

\* The rows of an answer: ApplicationResponse has no is_deleted.
Rows == UNION {[S -> Status] : S \in SUBSET App}
NoRows == [a \in {} |-> CHOOSE s \in Status : TRUE]

Handler == {"idle", "signin", "signout", "load", "open", "create", "generate",
            "update", "delete"}

Call == {"me", "verify", "logout", "list", "history", "stats", "create", "update",
         "delete"}

\* A handler in flight: the call it awaits and its answer, what it acts on, the view
\* of its closure, and whether the component it belongs to is still mounted.
TaskRecord ==
    [does: Handler, awaits: Call, on: App \cup {NoApp}, sets: Status, view: View,
     reply: {"none", "ok", "unauthorized", "error"}, rows: Rows, mounted: BOOLEAN]

VARIABLES
    server,   \* the user's applications
    auth,     \* AuthProvider; link: the URL holds a sign-in link not yet used
    list,     \* the table, the view it is of, and the view asked for
    drawer,   \* the drawer, and the application it shows
    modal,    \* the "Log Application" dialog
    tasks,
    clean,    \* history: the last list request was sent alone, for the current view
    removed,  \* history: applications whose deletion was confirmed to this page
    haunted   \* history: those an older list answer still held then

vars == <<server, auth, list, drawer, modal, tasks, clean, removed, haunted>>
history == <<clean, removed, haunted>>

Visible == ~auth.loading /\ ~auth.needsLogin

IdleTask == [does |-> "idle", awaits |-> "me", on |-> NoApp, sets |-> CHOOSE s \in Status : TRUE,
             view |-> All, reply |-> "none", rows |-> NoRows, mounted |-> TRUE]

\* A new page.
FreshAuth(l) == [loading |-> TRUE, needsLogin |-> FALSE, link |-> l]
FreshList == [view |-> All, of |-> All, rows |-> NoRows, timer |-> FALSE,
              loading |-> TRUE, failed |-> FALSE]
ClosedDrawer == [open |-> FALSE, app |-> NoApp, loading |-> FALSE, saving |-> FALSE,
                 deleting |-> FALSE]
ClosedModal == [open |-> FALSE, saving |-> FALSE]

\* AuthProvider probes /auth/me.
Probing(t) == [u \in Task |-> IF u = t THEN [IdleTask EXCEPT !.does = "signin"] ELSE IdleTask]

Init ==
    /\ server \in [App -> [status: Status, deleted: {FALSE}] \cup {NoRow}]
    /\ \E l \in BOOLEAN : auth = FreshAuth(l)
    /\ list = FreshList
    /\ drawer = ClosedDrawer
    /\ modal = ClosedModal
    /\ \E t \in Task : tasks = Probing(t)
    /\ clean = TRUE
    /\ removed = {}
    /\ haunted = {}

Running(t) == tasks[t].does # "idle"
Loading(t) == Running(t) /\ tasks[t].awaits = "list"

Started(does, call) == [IdleTask EXCEPT !.does = does, !.awaits = call]

\* t goes on to its next call.
Awaiting(t, call) ==
    [tasks[t] EXCEPT !.awaits = call, !.reply = "none", !.rows = NoRows]

-----------------------------------------------------------------------------
(* The server, and the network. *)

\* GET /applications: deleted rows are left out.
Snapshot(v) ==
    [a \in {x \in App : /\ server[x] # NoRow
                        /\ ~server[x].deleted
                        /\ v \in {All, server[x].status}} |-> server[a].status]

\* t's call takes effect.
Effect(t) ==
    LET a == tasks[t].on IN
    \/ /\ tasks[t].awaits = "create"
       /\ \E new \in App :
             /\ server[new] = NoRow
             /\ server' = [server EXCEPT ![new] = [status |-> tasks[t].sets, deleted |-> FALSE]]
    \/ /\ tasks[t].awaits = "update"
       /\ server' = [server EXCEPT ![a].status = tasks[t].sets]
    \/ /\ tasks[t].awaits = "delete"
       /\ server' = [server EXCEPT ![a].deleted = TRUE]
    \/ /\ tasks[t].awaits \notin {"create", "update", "delete"}
       /\ UNCHANGED server

\* The rows of its answer.
Result(t) ==
    CASE tasks[t].awaits = "list"   -> Snapshot(tasks[t].view)
      [] tasks[t].awaits = "update" -> [x \in {tasks[t].on} |-> server'[x].status]
      [] OTHER -> NoRows

\* Calls whose answer is not looked at: failing is all the same, but for a 401.
Unread == {"history", "stats", "logout"}

\* What answers may come: the answer of a call that took effect may be lost, and the
\* session may have ended, or another window may have signed in, at any time.
Serve(t) ==
    /\ Running(t)
    /\ tasks[t].reply = "none"
    /\ \/ /\ Effect(t)
          /\ \/ tasks' = [tasks EXCEPT ![t].reply = "ok", ![t].rows = Result(t)]
             \/ /\ tasks[t].awaits \notin Unread
                /\ tasks' = [tasks EXCEPT ![t].reply = "error"]
       \/ /\ tasks[t].awaits \notin Unread
          /\ tasks' = [tasks EXCEPT ![t].reply = "error"]
          /\ UNCHANGED server
       \/ /\ tasks[t].awaits # "logout"
          /\ tasks' = [tasks EXCEPT ![t].reply = "unauthorized"]
          /\ UNCHANGED server
    /\ UNCHANGED <<auth, list, drawer, modal, history>>

\* The e-mail watcher or another client writes; nothing undoes a deletion.
OtherWriter(a, row) ==
    /\ server[a] \in [status: Status, deleted: {TRUE}] => row.deleted
    /\ row # server[a]
    /\ server' = [server EXCEPT ![a] = row]
    /\ UNCHANGED <<auth, list, drawer, modal, tasks, history>>

-----------------------------------------------------------------------------
(* Answers.  A 401 of any call shows the login screen: the list's timer is  *)
(* cleared, and the components of the tracker are unmounted.                *)

Unmounted(ts) ==
    [t \in Task |-> [ts[t] EXCEPT !.mounted = @ /\ ts[t].does \notin {"create", "update", "delete"}]]
FreshDrawer(d) == [d EXCEPT !.saving = FALSE, !.deleting = FALSE]
FreshModal(m) == [m EXCEPT !.saving = FALSE]

\* A handler's flag, which `finally' clears unless its component is gone.
Cleared(t, flag) == flag /\ ~tasks[t].mounted

\* t goes on as `task', with the list, drawer and dialog it has set.
Deliver(t, l, d, m, task) ==
    LET ts == [tasks EXCEPT ![t] = task] IN
    IF tasks[t].reply = "unauthorized"
    THEN /\ auth' = [auth EXCEPT !.needsLogin = TRUE]
         /\ list' = [l EXCEPT !.timer = FALSE]
         /\ drawer' = FreshDrawer(d)
         /\ modal' = FreshModal(m)
         /\ tasks' = Unmounted(ts)
    ELSE /\ list' = l
         /\ drawer' = d
         /\ modal' = m
         /\ tasks' = ts
         /\ UNCHANGED auth

Answered(t, call) == Running(t) /\ tasks[t].awaits = call /\ tasks[t].reply # "none"
Ok(t) == tasks[t].reply = "ok"

\* loadData up to its await.
Reloading == [list EXCEPT !.loading = TRUE, !.failed = FALSE]
LoadSent(t, v) == clean' = (v = list.view /\ \A u \in Task \ {t} : ~Loading(u))

\* loadData goes on; it never throws.
OnList(t) ==
    /\ Answered(t, "list")
    /\ LET shown == IF Ok(t) THEN [list EXCEPT !.rows = tasks[t].rows, !.of = tasks[t].view]
                             ELSE [list EXCEPT !.failed = TRUE]
       IN  Deliver(t, [shown EXCEPT !.loading = FALSE], drawer, modal,
                   IF tasks[t].does = "load" THEN IdleTask ELSE Awaiting(t, "stats"))
    /\ UNCHANGED <<server, history>>

\* loadStats, which never throws either, is the last call of what it follows.
OnStats(t) ==
    /\ Answered(t, "stats")
    /\ LET closed == [drawer EXCEPT !.open = FALSE, !.deleting = Cleared(t, @)]
           saved  == [drawer EXCEPT !.saving = Cleared(t, @)]
           logged == [open |-> FALSE, saving |-> Cleared(t, modal.saving)]
       IN  Deliver(t, list,
                   CASE tasks[t].does = "delete" -> closed
                     [] tasks[t].does = "update" -> saved
                     [] OTHER -> drawer,
                   IF tasks[t].does = "create" THEN logged ELSE modal,
                   IdleTask)
    /\ UNCHANGED <<server, history>>

\* handleCreate, and handleApplicationLogged of the résumé tab.
OnCreate(t) ==
    /\ Answered(t, "create")
    /\ \/ /\ Ok(t)
          /\ Deliver(t, Reloading, drawer, modal, Awaiting(t, "list"))
          /\ LoadSent(t, tasks[t].view)
       \/ /\ ~Ok(t)
          /\ Deliver(t, list, drawer,
                     IF tasks[t].does = "create"
                     THEN [modal EXCEPT !.saving = Cleared(t, @)] ELSE modal,
                     IdleTask)
          /\ UNCHANGED clean
    /\ UNCHANGED <<server, removed, haunted>>

\* handleUpdate: the drawer shows the answer, whatever it showed by now.
OnUpdate(t) ==
    /\ Answered(t, "update")
    /\ LET a == tasks[t].on IN
       \/ /\ Ok(t)
          /\ Deliver(t, [list EXCEPT !.rows = [x \in DOMAIN @ |->
                                                  IF x = a THEN tasks[t].rows[a] ELSE @[x]]],
                     [drawer EXCEPT !.app = a], modal, Awaiting(t, "stats"))
       \/ /\ ~Ok(t)
          /\ Deliver(t, list, [drawer EXCEPT !.saving = Cleared(t, @)], modal, IdleTask)
    /\ UNCHANGED <<server, history>>

\* Variant: the row is left in the table.
OnDeleteUnlisted(t) ==
    /\ Answered(t, "delete")
    /\ \/ /\ Ok(t)
          /\ Deliver(t, list, drawer, modal, Awaiting(t, "stats"))
          /\ removed' = removed \cup {tasks[t].on}
       \/ /\ ~Ok(t)
          /\ Deliver(t, list, [drawer EXCEPT !.deleting = Cleared(t, @)], modal, IdleTask)
          /\ UNCHANGED removed
    /\ UNCHANGED <<server, clean, haunted>>

\* handleDelete.
OnDelete(t) ==
    /\ Answered(t, "delete")
    /\ LET a == tasks[t].on IN
       \/ /\ Ok(t)
          /\ Deliver(t, [list EXCEPT !.rows = Restrict(@, DOMAIN @ \ {a})], drawer, modal,
                     Awaiting(t, "stats"))
          /\ removed' = removed \cup {a}
          /\ haunted' = IF \E u \in Task : Loading(u) /\ a \in DOMAIN tasks[u].rows
                        THEN haunted \cup {a} ELSE haunted
       \/ /\ ~Ok(t)
          /\ Deliver(t, list, [drawer EXCEPT !.deleting = Cleared(t, @)], modal, IdleTask)
          /\ UNCHANGED <<removed, haunted>>
    /\ UNCHANGED <<server, clean>>

\* Variant: setDrawerLoading(false) after the await, and not in a `finally'.
OnHistoryUnfinished(t) ==
    /\ Answered(t, "history")
    /\ Deliver(t, list, [drawer EXCEPT !.loading = @ /\ ~Ok(t)], modal, IdleTask)
    /\ UNCHANGED <<server, history>>

\* handleRowClick: the history's answer, a bare list, has no `data'.
OnHistory(t) ==
    /\ Answered(t, "history")
    /\ Deliver(t, list, [drawer EXCEPT !.loading = FALSE], modal, IdleTask)
    /\ UNCHANGED <<server, history>>

\* refresh: the list is loaded once the user is known.
OnMe(t) ==
    /\ Answered(t, "me")
    /\ auth' = [auth EXCEPT !.loading = FALSE,
                            !.needsLogin = ~Ok(t) /\ (@ \/ tasks[t].reply = "unauthorized")]
    /\ list' = [list EXCEPT !.timer = ~auth'.needsLogin]
    /\ tasks' = [tasks EXCEPT ![t] = IdleTask]
    /\ UNCHANGED <<server, drawer, modal, history>>

\* A sign-in link that is good makes the page ask who it is again.
OnVerify(t) ==
    /\ Answered(t, "verify")
    /\ auth' = [auth EXCEPT !.loading = Ok(t)]
    /\ tasks' = [tasks EXCEPT ![t] = IF Ok(t) THEN Awaiting(t, "me") ELSE IdleTask]
    /\ UNCHANGED <<server, list, drawer, modal, history>>

\* signOut, whether or not the call went well.
OnLogout(t) ==
    /\ Answered(t, "logout")
    /\ auth' = [auth EXCEPT !.needsLogin = TRUE]
    /\ list' = [list EXCEPT !.timer = FALSE]
    /\ drawer' = FreshDrawer(drawer)
    /\ modal' = FreshModal(modal)
    /\ tasks' = Unmounted([tasks EXCEPT ![t] = IdleTask])
    /\ UNCHANGED <<server, history>>

-----------------------------------------------------------------------------
(* What the user and the timers do. *)

\* The dialog is an overlay: the page behind it cannot be reached.
Reachable == Visible /\ ~modal.open

Begin(t, task) ==
    /\ ~Running(t)
    /\ tasks' = [tasks EXCEPT ![t] = task]

\* Variant: the effect that loads the list does not depend on what was changed.
ChangeViewUnnoticed(v) ==
    /\ Reachable
    /\ v # list.view
    /\ list' = [list EXCEPT !.view = v]
    /\ UNCHANGED <<server, auth, drawer, modal, tasks, history>>

\* A filter, the order or the page changes: the debounce timer starts anew.
ChangeView(v) ==
    /\ Reachable
    /\ v # list.view
    /\ list' = [list EXCEPT !.view = v, !.timer = TRUE]
    /\ UNCHANGED <<server, auth, drawer, modal, tasks, history>>

TimerFires(t) ==
    /\ list.timer
    /\ Begin(t, [Started("load", "list") EXCEPT !.view = list.view])
    /\ list' = [Reloading EXCEPT !.timer = FALSE]
    /\ LoadSent(t, list.view)
    /\ UNCHANGED <<server, auth, drawer, modal, removed, haunted>>

RowClick(t, a) ==
    /\ Reachable
    /\ ~list.loading
    /\ a \in DOMAIN list.rows
    /\ Begin(t, [Started("open", "history") EXCEPT !.on = a])
    /\ drawer' = [drawer EXCEPT !.open = TRUE, !.loading = TRUE, !.app = a]
    /\ UNCHANGED <<server, auth, list, modal, history>>

\* The drawer shows an application and its buttons.
DrawerReady == Reachable /\ drawer.open /\ ~drawer.loading /\ drawer.app # NoApp

CloseDrawer ==
    /\ DrawerReady
    /\ drawer' = [drawer EXCEPT !.open = FALSE]
    /\ UNCHANGED <<server, auth, list, modal, tasks, history>>

Save(t, s) ==
    /\ DrawerReady
    /\ ~drawer.saving
    /\ Begin(t, [Started("update", "update") EXCEPT !.on = drawer.app, !.sets = s])
    /\ drawer' = [drawer EXCEPT !.saving = TRUE]
    /\ UNCHANGED <<server, auth, list, modal, history>>

\* The button knows `app.is_deleted', which is never there, and `deleting'.
Delete(t) ==
    /\ DrawerReady
    /\ ~drawer.deleting
    /\ Begin(t, [Started("delete", "delete") EXCEPT !.on = drawer.app])
    /\ drawer' = [drawer EXCEPT !.deleting = TRUE]
    /\ UNCHANGED <<server, auth, list, modal, history>>

\* Variant: the flag is forgotten when the dialog is cancelled.
ToggleModalForgetful ==
    /\ Visible
    /\ modal' = [open |-> ~modal.open, saving |-> FALSE]
    /\ UNCHANGED <<server, auth, list, drawer, tasks, history>>

\* The dialog opens, or is cancelled; it stays mounted, and so does `saving'.
ToggleModal ==
    /\ Visible
    /\ modal' = [modal EXCEPT !.open = ~@]
    /\ UNCHANGED <<server, auth, list, drawer, tasks, history>>

Submit(t, s) ==
    /\ Visible
    /\ modal.open
    /\ ~modal.saving
    /\ Begin(t, [Started("create", "create") EXCEPT !.sets = s, !.view = list.view])
    /\ modal' = [modal EXCEPT !.saving = TRUE]
    /\ UNCHANGED <<server, auth, list, drawer, history>>

\* Another tab is opened, and then the tracker's again.
Leave(ts) ==
    /\ Reachable
    /\ tasks' = Unmounted(ts)
    /\ drawer' = FreshDrawer(drawer)
    /\ modal' = FreshModal(modal)
    /\ UNCHANGED <<server, auth, list, history>>

SwitchTab == Leave(tasks)

\* On the résumé tab, generating also logs an application.
Generate(t, s) ==
    /\ ~Running(t)
    /\ Leave([tasks EXCEPT ![t] = [Started("generate", "create")
                                       EXCEPT !.sets = s, !.view = list.view]])

\* On the account tab.
SignOut(t) ==
    /\ ~Running(t)
    /\ Leave([tasks EXCEPT ![t] = Started("signout", "logout")])

\* The login screen, mounted with a link in the URL, uses it.
UseLink(t) ==
    /\ auth.needsLogin /\ ~auth.loading /\ auth.link
    /\ Begin(t, Started("signin", "verify"))
    /\ auth' = [auth EXCEPT !.link = FALSE]
    /\ UNCHANGED <<server, list, drawer, modal, history>>

\* The user opens a sign-in link, or loads the page again.
Reload(t, l) ==
    /\ auth.needsLogin
    /\ \A u \in Task : ~Running(u)
    /\ auth' = FreshAuth(l)
    /\ list' = FreshList
    /\ drawer' = ClosedDrawer
    /\ modal' = ClosedModal
    /\ tasks' = Probing(t)
    /\ clean' = TRUE
    /\ removed' = {}
    /\ haunted' = {}
    /\ UNCHANGED server

Answer(t) ==
    \/ OnList(t) \/ OnStats(t) \/ OnCreate(t) \/ OnUpdate(t) \/ OnDelete(t)
    \/ OnHistory(t) \/ OnMe(t) \/ OnVerify(t) \/ OnLogout(t)

Next ==
    \/ \E t \in Task : Serve(t) \/ Answer(t) \/ TimerFires(t) \/ Delete(t) \/ SignOut(t)
                       \/ UseLink(t)
    \/ \E t \in Task, s \in Status : Save(t, s) \/ Submit(t, s) \/ Generate(t, s)
    \/ \E t \in Task, a \in App : RowClick(t, a)
    \/ \E t \in Task, l \in BOOLEAN : Reload(t, l)
    \/ \E v \in View : ChangeView(v)
    \/ \E a \in App, row \in Row : OtherWriter(a, row)
    \/ CloseDrawer \/ ToggleModal \/ SwitchTab

Spec == Init /\ [][Next]_vars

-----------------------------------------------------------------------------
(* Properties *)

AuthState == [loading: BOOLEAN, needsLogin: BOOLEAN, link: BOOLEAN]
ListState == [view: View, of: View, rows: Rows, timer: BOOLEAN, loading: BOOLEAN,
              failed: BOOLEAN]
DrawerState == [open: BOOLEAN, app: App \cup {NoApp}, loading: BOOLEAN,
                saving: BOOLEAN, deleting: BOOLEAN]
ModalState == [open: BOOLEAN, saving: BOOLEAN]

\* Every variable has its type.
TypeOK ==
    /\ server \in [App -> Row \cup {NoRow}]
    /\ auth \in AuthState
    /\ list \in ListState
    /\ drawer \in DrawerState
    /\ modal \in ModalState
    /\ tasks \in [Task -> TaskRecord]
    /\ clean \in BOOLEAN
    /\ removed \subseteq App
    /\ haunted \subseteq removed

\* Once everything is answered, the table is of the view its filters show, unless an
\* error is shown, or the last request for the list overlapped another one or was made
\* by a closure with older filters (App.jsx loadData and the effect that calls it).
ListIsCurrent ==
    (/\ Visible /\ ~list.timer /\ ~list.failed /\ clean
     /\ \A t \in Task : ~Loading(t))
        => list.of = list.view

\* An application the user saw deleted comes back to the table only out of a list
\* answer that was under way at the time (App.jsx handleDelete).
GhostsAreRaced == removed \cap DOMAIN list.rows \subseteq haunted

\* Whatever fails, in whatever order the answers come, and whatever is unmounted
\* meanwhile: a spinner or a disabled button has a call behind it that will clear it
\* (the `finally' blocks of App.jsx, Drawer.jsx, AppModal.jsx and auth.jsx).
SpinnersEnd ==
    /\ auth.loading => \E t \in Task : Running(t) /\ tasks[t].awaits = "me"
    /\ list.loading /\ Visible => list.timer \/ \E t \in Task : Loading(t)
    /\ drawer.loading => \E t \in Task : tasks[t].does = "open"
    /\ drawer.saving => \E t \in Task : tasks[t].does = "update" /\ tasks[t].mounted
    /\ drawer.deleting => \E t \in Task : tasks[t].does = "delete" /\ tasks[t].mounted
    /\ modal.saving => \E t \in Task : tasks[t].does = "create" /\ tasks[t].mounted

\* A form is not submitted again while it is being submitted, even if its drawer or
\* dialog was closed and opened again: only leaving the tab forgets (the `saving' and
\* `deleting' flags of Drawer.jsx and AppModal.jsx).
NoDoubleSubmit ==
    \A t, u \in Task : /\ tasks[t].does \in {"create", "update", "delete"}
                       /\ tasks[t].does = tasks[u].does
                       /\ tasks[t].mounted /\ tasks[u].mounted
                       => t = u

-----------------------------------------------------------------------------
(* What is inductive *)

\* What a handler may await.
Calls == [idle |-> {"me"}, signin |-> {"me", "verify"}, signout |-> {"logout"},
          load |-> {"list"}, open |-> {"history"}, create |-> {"create", "list", "stats"},
          generate |-> {"create", "list", "stats"}, update |-> {"update", "stats"},
          delete |-> {"delete", "stats"}]

Exists(a) == a \in App /\ server[a] # NoRow
Gone(a) == Exists(a) /\ server[a].deleted

\* What a handler in flight carries.
TaskShape(t) ==
    /\ tasks[t].awaits \in Calls[tasks[t].does]
    /\ tasks[t].does \in {"open", "update", "delete"} => Exists(tasks[t].on)
    /\ \A a \in DOMAIN tasks[t].rows : Exists(a)
    /\ tasks[t].awaits = "update" /\ tasks[t].reply = "ok" =>
         DOMAIN tasks[t].rows = {tasks[t].on}
    /\ tasks[t].awaits = "delete" /\ tasks[t].reply = "ok" => Gone(tasks[t].on)

\* The page shows applications there are.
ShownExist ==
    /\ \A a \in DOMAIN list.rows : Exists(a)
    /\ drawer.app # NoApp => Exists(drawer.app)

\* One sign-in at a time: the probe keeps the page loading, the link is used up.
OneSignIn ==
    /\ \A t, u \in Task : tasks[t].does = "signin" /\ tasks[u].does = "signin" => t = u
    /\ \A t \in Task : tasks[t].does = "signin" =>
         \/ tasks[t].awaits = "me" /\ auth.loading
         \/ tasks[t].awaits = "verify" /\ ~auth.loading /\ auth.needsLogin /\ ~auth.link

\* A handler of a mounted form keeps its form's flag set.
FlagsKept ==
    \A t \in Task : tasks[t].mounted =>
        /\ tasks[t].does = "update" => drawer.saving
        /\ tasks[t].does = "delete" => drawer.deleting
        /\ tasks[t].does = "create" => modal.saving

\* The last request for the list was sent alone, for the view that is shown.
LastLoadCurrent ==
    Visible /\ ~list.timer /\ clean =>
        /\ \A t, u \in Task : Loading(t) /\ Loading(u) => t = u
        /\ \A t \in Task : Loading(t) => tasks[t].view = list.view
        /\ (\A t \in Task : ~Loading(t)) => list.failed \/ list.of = list.view

\* What was seen deleted is deleted, and answers under way that hold it are known.
GhostsKnown ==
    /\ \A a \in removed : Gone(a)
    /\ \A t \in Task : Loading(t) => removed \cap DOMAIN tasks[t].rows \subseteq haunted

PageInv ==
    /\ TypeOK
    /\ \A t \in Task : TaskShape(t)
    /\ ShownExist
    /\ OneSignIn
    /\ FlagsKept
    /\ LastLoadCurrent
    /\ GhostsKnown
    /\ GhostsAreRaced
    /\ SpinnersEnd
    /\ NoDoubleSubmit

=============================================================================
