-------------------------- MODULE DashboardProofs ---------------------------
(* Theorems about Dashboard, for every value of its constants: any number of *)
(* handlers in flight, applications, filters and orders.                     *)
EXTENDS Dashboard, TLAPS

-----------------------------------------------------------------------------
(* Handlers *)

\* Two states of a handler, alike but for what is mounted.
SameCall(x, y) ==
    /\ x.does = y.does /\ x.awaits = y.awaits /\ x.on = y.on
    /\ x.view = y.view /\ x.reply = y.reply /\ x.rows = y.rows

Form == {"create", "update", "delete"}

\* The empty answer is one.
LEMMA NoRowsAreRows == NoRows \in Rows /\ DOMAIN NoRows = {}
<1>1. NoRows \in [{} -> Status]
  BY DEF NoRows
<1> QED BY <1>1 DEF NoRows, Rows

\* An idle handler.
LEMMA IdleFields ==
  /\ IdleTask \in TaskRecord
  /\ IdleTask.does = "idle" /\ IdleTask.awaits = "me" /\ IdleTask.on = NoApp
  /\ IdleTask.view = All /\ IdleTask.reply = "none" /\ IdleTask.rows = NoRows
  /\ IdleTask.mounted = TRUE
BY NoRowsAreRows, StatusAssumption DEF IdleTask, TaskRecord, Handler, Call, View

\* A handler that begins.
LEMMA StartedFields ==
  ASSUME NEW does \in Handler, NEW call \in Call
  PROVE  /\ Started(does, call) \in TaskRecord
         /\ Started(does, call).does = does
         /\ Started(does, call).awaits = call
         /\ Started(does, call).on = NoApp
         /\ Started(does, call).view = All
         /\ Started(does, call).reply = "none"
         /\ Started(does, call).rows = NoRows
         /\ Started(does, call).mounted = TRUE
BY IdleFields DEF Started, TaskRecord

\* A handler that goes on to its next call.
LEMMA AwaitingFields ==
  ASSUME NEW t \in Task, tasks[t] \in TaskRecord, NEW call \in Call
  PROVE  /\ Awaiting(t, call) \in TaskRecord
         /\ Awaiting(t, call).does = tasks[t].does
         /\ Awaiting(t, call).awaits = call
         /\ Awaiting(t, call).on = tasks[t].on
         /\ Awaiting(t, call).view = tasks[t].view
         /\ Awaiting(t, call).reply = "none"
         /\ Awaiting(t, call).rows = NoRows
         /\ Awaiting(t, call).mounted = tasks[t].mounted
BY NoRowsAreRows DEF Awaiting, TaskRecord

\* Unmounting the tracker touches nothing else, and no form stays mounted.
LEMMA UnmountedFields ==
  ASSUME NEW ts \in [Task -> TaskRecord]
  PROVE  /\ Unmounted(ts) \in [Task -> TaskRecord]
         /\ \A u \in Task :
              /\ SameCall(ts[u], Unmounted(ts)[u])
              /\ Unmounted(ts)[u].does \in Form => ~Unmounted(ts)[u].mounted
<1>1. ASSUME NEW u \in Task
      PROVE  /\ Unmounted(ts)[u] \in TaskRecord
             /\ SameCall(ts[u], Unmounted(ts)[u])
             /\ Unmounted(ts)[u].does \in Form => ~Unmounted(ts)[u].mounted
  <2>1. ts[u] \in TaskRecord
    OBVIOUS
  <2>2. Unmounted(ts)[u] = [ts[u] EXCEPT !.mounted = @ /\ ts[u].does \notin Form]
    BY DEF Unmounted, Form
  <2> QED BY <2>1, <2>2 DEF TaskRecord, SameCall
<1> QED BY <1>1 DEF Unmounted

-----------------------------------------------------------------------------
(* The parts of the invariant, and the steps that keep them *)

Shapes == (\A t \in Task : TaskShape(t)) /\ ShownExist

SignIns ==
    /\ OneSignIn
    /\ auth.loading => \E t \in Task : tasks[t].does = "signin" /\ tasks[t].awaits = "me"

Opens == drawer.loading => \E t \in Task : tasks[t].does = "open"

\* The form of the handlers `kind': one handler, and its flag.
OneForm(ts, kind, flag) ==
    /\ flag => \E t \in Task : ts[t].does = kind /\ ts[t].mounted
    /\ \A t \in Task : ts[t].does = kind /\ ts[t].mounted => flag
    /\ \A t, u \in Task : /\ ts[t].does = kind /\ ts[t].mounted
                          /\ ts[u].does = kind /\ ts[u].mounted
                          => t = u

Forms ==
    /\ OneForm(tasks, "create", modal.saving)
    /\ OneForm(tasks, "update", drawer.saving)
    /\ OneForm(tasks, "delete", drawer.deleting)

Loads ==
    /\ LastLoadCurrent
    /\ list.loading /\ Visible => list.timer \/ \E t \in Task : Loading(t)

Ghosts == GhostsKnown /\ GhostsAreRaced

LEMMA Parts ==
  PageInv <=> TypeOK /\ Shapes /\ SignIns /\ Opens /\ Forms /\ Loads /\ Ghosts
<1>1. ASSUME TypeOK, \A t \in Task : TaskShape(t), NEW t \in Task
      PROVE  Running(t) /\ tasks[t].awaits = "me"
               <=> tasks[t].does = "signin" /\ tasks[t].awaits = "me"
  <2>1. tasks[t].awaits \in Calls[tasks[t].does]
    BY <1>1 DEF TaskShape
  <2>2. tasks[t].does \in Handler
    BY <1>1 DEF TypeOK, TaskRecord
  <2> QED BY <2>1, <2>2 DEF Calls, Running, Handler
<1>2. ASSUME TypeOK, \A t \in Task : TaskShape(t)
      PROVE  SpinnersEnd /\ FlagsKept /\ NoDoubleSubmit /\ OneSignIn /\ LastLoadCurrent
               <=> SignIns /\ Opens /\ Forms /\ Loads
  BY <1>1, <1>2 DEF SpinnersEnd, FlagsKept, NoDoubleSubmit, SignIns, Opens, Forms, Loads,
                    OneForm
<1> QED BY <1>2 DEF PageInv, Shapes, Ghosts

\* Nothing the server holds vanishes, and nothing deleted comes back.
Grows == \A a \in App : (Exists(a) => Exists(a)') /\ (Gone(a) => Gone(a)')

LEMMA SameGrows ==
  ASSUME server' = server
  PROVE  Grows
BY DEF Grows, Exists, Gone

\* The handlers besides t go on as they are, or are unmounted.
Others(t) == \A u \in Task \ {t} : SameCall(tasks[u], tasks'[u])

LEMMA ShapesStep ==
  ASSUME Shapes, NEW t \in Task, Others(t), Grows, TaskShape(t)',
         \A a \in DOMAIN list'.rows : Exists(a)',
         drawer'.app \in {drawer.app, NoApp} \/ Exists(drawer'.app)
  PROVE  Shapes'
<1>1. ASSUME NEW u \in Task \ {t} PROVE TaskShape(u)'
  <2>1. TaskShape(u)
    BY DEF Shapes
  <2>2. SameCall(tasks[u], tasks'[u])
    BY DEF Others
  <2>3. \A a : Exists(a) => Exists(a)'
    BY DEF Grows, Exists
  <2>4. \A a : Gone(a) => Gone(a)'
    BY DEF Grows, Gone, Exists
  <2> QED BY <2>1, <2>2, <2>3, <2>4 DEF TaskShape, SameCall
<1>2. drawer'.app # NoApp => Exists(drawer.app)'
  BY DEF Shapes, ShownExist, Grows, Exists
<1> QED BY <1>1, <1>2 DEF Shapes, ShownExist

\* The sign-in in flight, if there is one, goes on.
LEMMA SignInsStep ==
  ASSUME SignIns,
         \A u \in Task : tasks[u].does = "signin" \/ tasks'[u].does = "signin" =>
             tasks'[u].does = tasks[u].does /\ tasks'[u].awaits = tasks[u].awaits,
         auth'.loading = auth.loading, auth'.link = auth.link,
         auth.needsLogin => auth'.needsLogin
  PROVE  SignIns'
BY DEF SignIns, OneSignIn

\* The drawer waits for its history as before.
LEMMA OpensStep ==
  ASSUME Opens, drawer'.loading => drawer.loading,
         \A u \in Task : tasks[u].does = "open" => tasks'[u].does = "open"
  PROVE  Opens'
BY DEF Opens

\* A form is left alone, begun, or ended.
LEMMA FormStep ==
  ASSUME NEW ts, NEW ts2, NEW kind, NEW flag \in BOOLEAN, NEW flag2 \in BOOLEAN,
         NEW t \in Task, OneForm(ts, kind, flag),
         \A u \in Task \ {t} : ts2[u].does = ts[u].does /\ ts2[u].mounted = ts[u].mounted,
         \/ /\ ts2[t].does = kind /\ ts2[t].mounted <=> ts[t].does = kind /\ ts[t].mounted
            /\ flag2 = flag
         \/ /\ ts2[t].does = kind /\ ts2[t].mounted
            /\ ~flag /\ flag2
         \/ /\ ts[t].does = kind /\ ts2[t].does # kind
            /\ flag2 <=> flag /\ ~ts[t].mounted
  PROVE  OneForm(ts2, kind, flag2)
<1>1. CASE /\ ts2[t].does = kind /\ ts2[t].mounted <=> ts[t].does = kind /\ ts[t].mounted
           /\ flag2 = flag
  BY <1>1 DEF OneForm
<1>2. CASE ts2[t].does = kind /\ ts2[t].mounted /\ ~flag /\ flag2
  BY <1>2 DEF OneForm
<1>3. CASE /\ ts[t].does = kind /\ ts2[t].does # kind
           /\ flag2 <=> flag /\ ~ts[t].mounted
  BY <1>3 DEF OneForm
<1> QED BY <1>1, <1>2, <1>3

\* All forms are left at once.
FormsLeft ==
    /\ ~modal'.saving /\ ~drawer'.saving /\ ~drawer'.deleting
    /\ \A u \in Task : tasks'[u].does \in Form => ~tasks'[u].mounted

LEMMA FormsLeftStep == FormsLeft => Forms'
BY DEF FormsLeft, Forms, OneForm, Form

\* No request for the list is sent or answered.
LEMMA LoadsStep ==
  ASSUME Loads, clean' = clean, list'.view = list.view, list'.of = list.of,
         list'.failed = list.failed, list'.loading = list.loading,
         Visible' => Visible /\ list'.timer = list.timer,
         \A u \in Task : /\ Loading(u)' <=> Loading(u)
                         /\ Loading(u) => tasks'[u].view = tasks[u].view
  PROVE  Loads'
BY DEF Loads, LastLoadCurrent

\* The tracker is not shown, or its list will be loaded.
LEMMA LoadsAhead ==
  ASSUME ~Visible' \/ list'.timer
  PROVE  Loads'
BY DEF Loads, LastLoadCurrent

\* The list shows no new row, and no new answer holds a deleted one.
LEMMA GhostsStep ==
  ASSUME Ghosts, Grows, removed' = removed, haunted' = haunted,
         DOMAIN list'.rows \subseteq DOMAIN list.rows,
         \A u \in Task : Loading(u)' =>
             \/ Loading(u) /\ tasks'[u].rows = tasks[u].rows
             \/ \A a \in DOMAIN tasks'[u].rows : a \notin removed
  PROVE  Ghosts'
<1>1. \A a \in removed : Gone(a)'
  BY DEF Ghosts, GhostsKnown, Grows, Gone, Exists
<1> QED BY <1>1 DEF Ghosts, GhostsKnown, GhostsAreRaced

\* No form is begun or ended.
LEMMA FormsStay ==
  ASSUME TypeOK, Forms, modal'.saving = modal.saving,
         drawer'.saving = drawer.saving, drawer'.deleting = drawer.deleting,
         \A u \in Task : tasks[u].does \in Form \/ tasks'[u].does \in Form =>
             tasks'[u].does = tasks[u].does /\ tasks'[u].mounted = tasks[u].mounted
  PROVE  Forms'
BY DEF Forms, OneForm, Form

-----------------------------------------------------------------------------
(* The server *)

\* What a handler awaits tells what it does.
LEMMA AwaitsTells ==
  ASSUME TypeOK, Shapes, NEW t \in Task
  PROVE  /\ TaskShape(t)
         /\ tasks[t].awaits \in {"me", "verify"} /\ Running(t) <=> tasks[t].does = "signin"
         /\ tasks[t].awaits = "logout" <=> tasks[t].does = "signout"
         /\ tasks[t].awaits = "history" <=> tasks[t].does = "open"
         /\ tasks[t].awaits = "create" => tasks[t].does \in {"create", "generate"}
         /\ tasks[t].awaits = "update" => tasks[t].does = "update"
         /\ tasks[t].awaits = "delete" => tasks[t].does = "delete"
         /\ tasks[t].awaits = "list" => tasks[t].does \in {"load", "create", "generate"}
         /\ tasks[t].awaits = "stats" => tasks[t].does \in Form \cup {"generate"}
<1>1. TaskShape(t)
  BY DEF Shapes
<1>2. tasks[t].does \in Handler /\ tasks[t].awaits \in Calls[tasks[t].does]
  BY <1>1 DEF TypeOK, TaskRecord, TaskShape
<1> QED BY <1>1, <1>2 DEF Calls, Handler, Running, Form

\* A row is there or not.
LEMMA RowOrNone ==
  ASSUME TypeOK, NEW a
  PROVE  /\ Exists(a) => a \in App /\ server[a] \in Row
         /\ Gone(a) <=> Exists(a) /\ server[a].deleted
BY DEF TypeOK, Exists, Gone

\* Calls create rows, change them, or delete them.
LEMMA EffectGrows ==
  ASSUME TypeOK, Shapes, NEW t \in Task, Effect(t)
  PROVE  /\ server' \in [App -> Row \cup {NoRow}]
         /\ Grows
         /\ tasks[t].awaits = "update" => \A a \in {tasks[t].on} : Exists(a)'
         /\ tasks[t].awaits = "delete" => \A a \in {tasks[t].on} : Gone(a)'
<1>1. tasks[t].awaits \in {"update", "delete"} => Exists(tasks[t].on)
  BY AwaitsTells DEF TaskShape
<1>2. tasks[t].sets \in Status
  BY DEF TypeOK, TaskRecord
<1>3. ASSUME NEW a \in App, server[a] = NoRow,
             server' = [server EXCEPT ![a] = [status |-> tasks[t].sets, deleted |-> FALSE]]
      PROVE  server' \in [App -> Row \cup {NoRow}] /\ Grows
  <2>1. [status |-> tasks[t].sets, deleted |-> FALSE] \in Row
    BY <1>2 DEF Row
  <2> QED BY <1>3, <2>1, NullAssumption DEF TypeOK, Grows, Exists, Gone
<1>4. ASSUME NEW a \in App, Exists(a),
             \/ server' = [server EXCEPT ![a].status = tasks[t].sets]
             \/ server' = [server EXCEPT ![a].deleted = TRUE]
      PROVE  /\ server' \in [App -> Row \cup {NoRow}]
             /\ Grows
             /\ Exists(a)'
             /\ server' = [server EXCEPT ![a].deleted = TRUE] => Gone(a)'
  <2>1. PICK row : row = server'[a]
    OBVIOUS
  <2>2. server[a] \in Row
    BY <1>4, RowOrNone
  <2>3. /\ row \in Row
        /\ row.deleted = server[a].deleted \/ row.deleted
        /\ server' = [server EXCEPT ![a].deleted = TRUE] => row.deleted
    BY <1>2, <1>4, <2>1, <2>2 DEF Row, TypeOK
  <2>4. server' = [server EXCEPT ![a] = row]
    BY <1>4, <2>1 DEF TypeOK
  <2> QED BY <2>1, <2>2, <2>3, <2>4, NullAssumption DEF TypeOK, Grows, Exists, Gone
<1>5. CASE UNCHANGED server /\ tasks[t].awaits \notin {"create", "update", "delete"}
  BY <1>5, SameGrows DEF TypeOK
<1>6. CASE tasks[t].awaits = "create"
  BY <1>3, <1>6 DEF Effect
<1>7. CASE tasks[t].awaits = "update"
  BY <1>1, <1>4, <1>7 DEF Effect, Exists
<1>8. CASE tasks[t].awaits = "delete"
  BY <1>1, <1>4, <1>8 DEF Effect, Exists
<1> QED BY <1>5, <1>6, <1>7, <1>8 DEF Effect

\* An answer holds rows that are there, and a list none that is deleted.
LEMMA ResultShape ==
  ASSUME TypeOK, Shapes, NEW t \in Task, Effect(t)
  PROVE  /\ Result(t) \in Rows
         /\ \A a \in DOMAIN Result(t) : Exists(a)'
         /\ tasks[t].awaits = "update" => DOMAIN Result(t) = {tasks[t].on}
         /\ tasks[t].awaits = "list" => \A a \in DOMAIN Result(t) : ~Gone(a)
<1>1. CASE tasks[t].awaits = "list"
  <2>1. Result(t) = Snapshot(tasks[t].view)
    BY <1>1 DEF Result
  <2>2. PICK S \in SUBSET App :
             /\ S = {x \in App : /\ server[x] # NoRow
                                 /\ ~server[x].deleted
                                 /\ tasks[t].view \in {All, server[x].status}}
             /\ Result(t) = [a \in S |-> server[a].status]
    BY <2>1 DEF Snapshot
  <2>3. \A a \in S : server[a].status \in Status /\ Exists(a) /\ ~Gone(a)
    BY <2>2, RowOrNone DEF Exists, Gone, Row
  <2>4. Result(t) \in [S -> Status] /\ DOMAIN Result(t) = S
    BY <2>2, <2>3
  <2>5. Result(t) \in Rows
    BY <2>2, <2>4 DEF Rows
  <2> QED BY <1>1, <2>3, <2>4, <2>5, EffectGrows DEF Grows
<1>2. CASE tasks[t].awaits = "update"
  <2>1. tasks[t].on \in App /\ server'[tasks[t].on] # NoRow
    BY <1>2, EffectGrows DEF Exists
  <2>2. server'[tasks[t].on] \in Row
    BY <2>1, EffectGrows
  <2>3. Result(t) = [x \in {tasks[t].on} |-> server'[x].status]
    BY <1>2 DEF Result
  <2>4. Result(t) \in [{tasks[t].on} -> Status] /\ DOMAIN Result(t) = {tasks[t].on}
    BY <2>2, <2>3 DEF Row
  <2>5. Result(t) \in Rows
    BY <2>1, <2>4 DEF Rows
  <2> QED BY <1>2, <2>1, <2>4, <2>5 DEF Exists
<1>3. CASE tasks[t].awaits \notin {"list", "update"}
  <2>1. Result(t) = NoRows
    BY <1>3 DEF Result
  <2> QED BY <1>3, <2>1, NoRowsAreRows
<1> QED BY <1>1, <1>2, <1>3

\* An answer arrives at the page's machine; nothing looks at it yet.
LEMMA AnswerStep ==
  ASSUME PageInv, NEW t \in Task, Running(t), Grows,
         server' \in [App -> Row \cup {NoRow}],
         NEW x \in TaskRecord, tasks' = [tasks EXCEPT ![t] = x],
         x.does = tasks[t].does, x.awaits = tasks[t].awaits, x.on = tasks[t].on,
         x.view = tasks[t].view, x.mounted = tasks[t].mounted,
         \A a \in DOMAIN x.rows : Exists(a)',
         x.awaits = "update" /\ x.reply = "ok" => DOMAIN x.rows = {x.on},
         x.awaits = "delete" /\ x.reply = "ok" => Gone(x.on)',
         x.awaits = "list" => \/ x.rows = tasks[t].rows
                              \/ \A a \in DOMAIN x.rows : ~Gone(a),
         UNCHANGED <<auth, list, drawer, modal, history>>
  PROVE  PageInv'
<1>1. TypeOK /\ Shapes /\ SignIns /\ Opens /\ Forms /\ Loads /\ Ghosts
  BY Parts
<1>2. tasks' \in [Task -> TaskRecord] /\ tasks'[t] = x /\ Others(t)
  BY <1>1 DEF TypeOK, Others, SameCall
<1>3. \A u \in Task \ {t} : tasks'[u] = tasks[u]
  BY <1>1 DEF TypeOK
<1>4. TypeOK'
  BY <1>1, <1>2 DEF TypeOK, history
<1>5. Shapes'
  <2>1. TaskShape(t)'
    BY <1>1, <1>2, AwaitsTells DEF TaskShape, Grows, Exists
  <2>2. \A a \in DOMAIN list'.rows : Exists(a)'
    BY <1>1 DEF Shapes, ShownExist, Grows, Exists
  <2> QED BY <1>1, <1>2, <2>1, <2>2, ShapesStep
<1>6. SignIns' /\ Opens'
  BY <1>1, <1>2, <1>3, SignInsStep, OpensStep
<1>7. Forms'
  BY <1>1, <1>2, <1>3, FormsStay
<1>8. \A u \in Task : Loading(u)' <=> Loading(u)
  BY <1>2, <1>3 DEF Loading, Running
<1>9. Loads'
  BY <1>1, <1>2, <1>3, <1>8, LoadsStep DEF history, Visible
<1>10. Ghosts'
  <2>1. \A a \in removed : Gone(a)
    BY <1>1 DEF Ghosts, GhostsKnown
  <2>2. \A u \in Task : Loading(u)' =>
             \/ Loading(u) /\ tasks'[u].rows = tasks[u].rows
             \/ \A a \in DOMAIN tasks'[u].rows : a \notin removed
    BY <1>2, <1>3, <1>8, <2>1 DEF Loading
  <2> QED BY <1>1, <2>2, GhostsStep DEF history
<1> QED BY <1>4, <1>5, <1>6, <1>7, <1>9, <1>10, Parts, PTL

\* The server takes the call, or refuses it, and its answer is sent.
LEMMA ServeInv ==
  ASSUME PageInv, NEW t \in Task, Serve(t)
  PROVE  PageInv'
<1>1. TypeOK /\ Shapes /\ Running(t) /\ TaskShape(t)
  BY Parts, AwaitsTells DEF Serve
<1>2. tasks[t] \in TaskRecord /\ UNCHANGED <<auth, list, drawer, modal, history>>
  BY <1>1 DEF TypeOK, Serve
<1>3. CASE Effect(t) /\ tasks' = [tasks EXCEPT ![t].reply = "ok", ![t].rows = Result(t)]
  <2>1. PICK rows : rows = Result(t)
    OBVIOUS
  <2> DEFINE x == [tasks[t] EXCEPT !.reply = "ok", !.rows = rows]
  <2>2. rows \in Rows
    BY <1>1, <1>3, <2>1, ResultShape
  <2>3. x \in TaskRecord
    BY <1>2, <2>2 DEF TaskRecord
  <2>4. /\ x.does = tasks[t].does /\ x.awaits = tasks[t].awaits /\ x.on = tasks[t].on
        /\ x.view = tasks[t].view /\ x.mounted = tasks[t].mounted /\ x.rows = rows
    BY <1>2 DEF TaskRecord
  <2>5. tasks' = [tasks EXCEPT ![t] = x]
    BY <1>3, <2>1
  <2> HIDE DEF x
  <2>6. /\ \A a \in DOMAIN rows : Exists(a)'
        /\ tasks[t].awaits = "update" => DOMAIN rows = {tasks[t].on}
        /\ tasks[t].awaits = "list" => \A a \in DOMAIN rows : ~Gone(a)
    BY <1>1, <1>3, <2>1, ResultShape, Zenon
  <2>7. PICK y \in TaskRecord : y = x
    BY <2>3
  <2>8. tasks[t].awaits = "delete" => Gone(y.on)'
    BY <1>1, <1>3, <2>4, <2>7, EffectGrows
  <2> QED BY <1>1, <1>2, <1>3, <2>4, <2>5, <2>6, <2>7, <2>8, EffectGrows, AnswerStep
<1>4. ASSUME Effect(t) \/ UNCHANGED server, NEW reply \in {"error", "unauthorized"},
             tasks' = [tasks EXCEPT ![t].reply = reply]
      PROVE  PageInv'
  <2> DEFINE x == [tasks[t] EXCEPT !.reply = reply]
  <2>1. x \in TaskRecord
    BY <1>2 DEF TaskRecord
  <2>2. /\ x.does = tasks[t].does /\ x.awaits = tasks[t].awaits /\ x.on = tasks[t].on
        /\ x.view = tasks[t].view /\ x.mounted = tasks[t].mounted
        /\ x.rows = tasks[t].rows /\ x.reply # "ok"
    BY <1>2, <1>4 DEF TaskRecord
  <2>3. tasks' = [tasks EXCEPT ![t] = x]
    BY <1>4
  <2> HIDE DEF x
  <2>4. server' \in [App -> Row \cup {NoRow}] /\ Grows
    BY <1>1, <1>4, EffectGrows, SameGrows DEF TypeOK
  <2>5. \A a \in DOMAIN tasks[t].rows : Exists(a)'
    BY <1>1, <2>4 DEF TaskShape, Grows, Exists
  <2>6. PICK y \in TaskRecord : y = x
    BY <2>1
  <2> QED BY <1>1, <1>2, <2>2, <2>3, <2>4, <2>5, <2>6, AnswerStep
<1> QED BY <1>3, <1>4 DEF Serve

\* No handler goes on, or begins.
LEMMA StillStep ==
  ASSUME PageInv, Grows, \A u \in Task : SameCall(tasks[u], tasks'[u]),
         UNCHANGED <<auth, removed, haunted>>,
         list'.rows = list.rows, drawer'.app = drawer.app, drawer'.loading = drawer.loading
  PROVE  Shapes' /\ SignIns' /\ Opens' /\ Ghosts' /\ \A u \in Task : Loading(u)' <=> Loading(u)
<1>1. TypeOK /\ Shapes /\ SignIns /\ Opens /\ Ghosts
  BY Parts
<1>2. Shapes'
  <2>1. ASSUME NEW u \in Task PROVE TaskShape(u)'
    <3>1. TaskShape(u) /\ SameCall(tasks[u], tasks'[u])
      BY <1>1 DEF Shapes
    <3>2. \A a : (Exists(a) => Exists(a)') /\ (Gone(a) => Gone(a)')
      BY DEF Grows, Exists, Gone
    <3> QED BY <3>1, <3>2 DEF TaskShape, SameCall
  <2>2. ShownExist'
    BY <1>1 DEF Shapes, ShownExist, Grows, Exists
  <2> QED BY <2>1, <2>2 DEF Shapes
<1>3. SignIns' /\ Opens'
  BY <1>1, SignInsStep, OpensStep DEF SameCall
<1>4. \A u \in Task : Loading(u)' <=> Loading(u)
  BY DEF Loading, Running, SameCall
<1>5. Ghosts'
  BY <1>1, <1>4, GhostsStep DEF SameCall
<1> QED BY <1>2, <1>3, <1>4, <1>5

\* Another client or the watcher writes.
LEMMA OtherWriterInv ==
  ASSUME PageInv, NEW a \in App, NEW row \in Row, OtherWriter(a, row)
  PROVE  PageInv'
<1>1. TypeOK /\ Loads /\ Forms
  BY Parts
<1>2. server' = [server EXCEPT ![a] = row]
      /\ UNCHANGED <<auth, list, drawer, modal, tasks, clean, removed, haunted>>
  BY DEF OtherWriter, history
<1>3. Grows
  <2>1. Gone(a) => row.deleted
    <3> SUFFICES ASSUME Gone(a) PROVE row.deleted
      OBVIOUS
    <3>1. server[a] \in Row /\ server[a].deleted
      BY <1>1, RowOrNone
    <3>2. server[a] \in [status: Status, deleted: {TRUE}]
      BY <3>1 DEF Row
    <3> QED BY <3>2 DEF OtherWriter
  <2>2. row # NoRow
    BY NullAssumption
  <2> QED BY <1>1, <1>2, <2>1, <2>2 DEF TypeOK, Grows, Exists, Gone
<1>4. TypeOK'
  BY <1>1, <1>2 DEF TypeOK
<1>5. Shapes' /\ SignIns' /\ Opens' /\ Ghosts' /\ \A u \in Task : Loading(u)' <=> Loading(u)
  BY <1>2, <1>3, StillStep DEF SameCall
<1>6. Forms'
  BY <1>1, <1>2, FormsStay
<1>7. Loads'
  BY <1>1, <1>2, <1>5, LoadsStep DEF Visible
<1> QED BY <1>4, <1>5, <1>6, <1>7, Parts, PTL

-----------------------------------------------------------------------------
(* What the user and the timers do *)

\* A handler that begins knows only what it acts on.
Fresh(task) ==
    /\ task \in TaskRecord
    /\ task.awaits \in Calls[task.does]
    /\ task.does \in {"open", "update", "delete"} => Exists(task.on)
    /\ task.reply = "none"
    /\ task.rows = NoRows

\* A handler begins; forms may be unmounted.
LEMMA BeginStep ==
  ASSUME PageInv, NEW t \in Task, ~Running(t), NEW task, Fresh(task), task.does # "idle",
         Others(t), SameCall(task, tasks'[t]),
         UNCHANGED <<server, removed, haunted>>,
         list'.rows = list.rows, drawer'.app = drawer.app \/ Exists(drawer'.app)
  PROVE  /\ Shapes' /\ Ghosts'
         /\ tasks[t].does = "idle"
         /\ task.does # "signin" /\ UNCHANGED auth => SignIns'
         /\ drawer'.loading = drawer.loading => Opens'
         /\ task.awaits # "list" => \A u \in Task : Loading(u)' <=> Loading(u)
<1>1. TypeOK /\ Shapes /\ SignIns /\ Opens /\ Ghosts /\ tasks[t].does = "idle"
  BY Parts DEF Running
<1>2. Grows
  BY SameGrows
<1>3. TaskShape(t)'
  BY NoRowsAreRows DEF Fresh, SameCall, TaskShape, Exists
<1>4. Shapes'
  BY <1>1, <1>2, <1>3, ShapesStep DEF Shapes, ShownExist, Exists
<1>5. ASSUME NEW u \in Task \ {t}
      PROVE  SameCall(tasks[u], tasks'[u]) /\ (Loading(u)' <=> Loading(u))
  BY DEF Others, SameCall, Loading, Running
<1>6. Ghosts'
  <2>1. tasks'[t].rows = NoRows
    BY DEF Fresh, SameCall
  <2> QED BY <1>1, <1>2, <1>5, <2>1, NoRowsAreRows, GhostsStep DEF SameCall
<1>7. task.does # "signin" /\ UNCHANGED auth => SignIns'
  BY <1>1, <1>5, SignInsStep DEF SameCall
<1>8. drawer'.loading = drawer.loading => Opens'
  BY <1>1, <1>5, OpensStep DEF SameCall
<1>9. task.awaits # "list" => \A u \in Task : Loading(u)' <=> Loading(u)
  BY <1>1, <1>5 DEF SameCall, Loading, Running
<1> QED BY <1>1, <1>4, <1>6, <1>7, <1>8, <1>9

\* It begins, and nothing is unmounted.
LEMMA BeginFields ==
  ASSUME TypeOK, NEW t \in Task, NEW task, task \in TaskRecord, Begin(t, task)
  PROVE  /\ ~Running(t)
         /\ tasks' \in [Task -> TaskRecord]
         /\ tasks'[t] = task
         /\ SameCall(task, tasks'[t])
         /\ \A u \in Task \ {t} : tasks'[u] = tasks[u]
         /\ Others(t)
BY DEF TypeOK, Begin, SameCall, Others

LEMMA ChangeViewInv ==
  ASSUME PageInv, NEW v \in View, ChangeView(v)
  PROVE  PageInv'
<1>1. TypeOK /\ Forms
  BY Parts
<1>2. /\ list' = [list EXCEPT !.view = v, !.timer = TRUE]
      /\ UNCHANGED <<server, auth, drawer, modal, tasks, clean, removed, haunted>>
  BY DEF ChangeView, history
<1>3. list \in ListState
  BY <1>1 DEF TypeOK
<1>4. list' \in ListState /\ list'.timer /\ list'.rows = list.rows
  BY <1>2, <1>3 DEF ListState
<1>5. TypeOK'
  BY <1>1, <1>2, <1>4 DEF TypeOK
<1>6. Shapes' /\ SignIns' /\ Opens' /\ Ghosts'
  BY <1>2, <1>4, SameGrows, StillStep DEF SameCall
<1>7. Forms' /\ Loads'
  BY <1>1, <1>2, <1>4, FormsStay, LoadsAhead
<1> QED BY <1>5, <1>6, <1>7, Parts, PTL

LEMMA TimerFiresInv ==
  ASSUME PageInv, NEW t \in Task, TimerFires(t)
  PROVE  PageInv'
<1> DEFINE begun == Started("load", "list")
           task == [begun EXCEPT !.view = list.view]
<1>1. TypeOK /\ Forms /\ list \in ListState
  BY Parts DEF TypeOK
<1>2. /\ begun \in TaskRecord /\ begun.does = "load" /\ begun.awaits = "list"
      /\ begun.reply = "none" /\ begun.rows = NoRows /\ begun.mounted
      /\ list.view \in View
  <2>1. "load" \in Handler /\ "list" \in Call
    BY DEF Handler, Call
  <2>2. list.view \in View
    BY <1>1 DEF ListState
  <2> QED BY <2>1, <2>2, StartedFields
<1>3. /\ task \in TaskRecord /\ task.does = "load" /\ task.awaits = "list"
      /\ task.reply = "none" /\ task.rows = NoRows /\ task.view = list.view
      /\ task.mounted
  <2> HIDE DEF begun
  <2> QED BY <1>2 DEF TaskRecord
<1>4. Begin(t, task)
  BY DEF TimerFires
<1> HIDE DEF task
<1>5. PICK x : x = task
  OBVIOUS
<1>6. /\ list' \in ListState /\ list'.rows = list.rows /\ list'.view = list.view
      /\ clean' \in BOOLEAN
      /\ clean' => \A u \in Task \ {t} : ~Loading(u)
      /\ UNCHANGED <<server, auth, drawer, modal, removed, haunted>>
  BY <1>1 DEF TimerFires, Reloading, ListState, LoadSent
<1>7. /\ ~Running(t) /\ tasks' \in [Task -> TaskRecord] /\ tasks'[t] = x
      /\ SameCall(x, tasks'[t])
      /\ \A u \in Task \ {t} : tasks'[u] = tasks[u]
      /\ Others(t)
  BY <1>1, <1>3, <1>4, <1>5, BeginFields
<1>8. TypeOK'
  BY <1>1, <1>6, <1>7 DEF TypeOK
<1>9. Fresh(x)
  BY <1>3, <1>5 DEF Fresh, Calls
<1>10. Shapes' /\ SignIns' /\ Opens' /\ Ghosts' /\ tasks[t].does = "idle"
  BY <1>3, <1>5, <1>6, <1>7, <1>9, BeginStep
<1>11. Forms'
  BY <1>1, <1>3, <1>5, <1>6, <1>7, <1>10, FormsStay DEF Form
<1>12. Loads'
  <2>1. Loading(t)' /\ tasks'[t].view = list'.view
    BY <1>3, <1>5, <1>6, <1>7 DEF Loading, Running
  <2>2. clean' => \A u \in Task \ {t} : ~Loading(u)'
    BY <1>6, <1>7 DEF Loading, Running
  <2> QED BY <2>1, <2>2 DEF Loads, LastLoadCurrent
<1> QED BY <1>8, <1>10, <1>11, <1>12, Parts, PTL

LEMMA RowClickInv ==
  ASSUME PageInv, NEW t \in Task, NEW a \in App, RowClick(t, a)
  PROVE  PageInv'
<1> DEFINE begun == Started("open", "history")
           task == [begun EXCEPT !.on = a]
<1>1. TypeOK /\ Shapes /\ Forms /\ Loads /\ drawer \in DrawerState
  BY Parts DEF TypeOK
<1>2. /\ begun \in TaskRecord /\ begun.does = "open" /\ begun.awaits = "history"
      /\ begun.reply = "none" /\ begun.rows = NoRows /\ begun.mounted
  <2>1. "open" \in Handler /\ "history" \in Call
    BY DEF Handler, Call
  <2> QED BY <2>1, StartedFields
<1>3. /\ task \in TaskRecord /\ task.does = "open" /\ task.awaits = "history"
      /\ task.reply = "none" /\ task.rows = NoRows /\ task.on = a
      /\ task.mounted
  <2> HIDE DEF begun
  <2> QED BY <1>2 DEF TaskRecord
<1>4. Begin(t, task)
  BY DEF RowClick
<1> HIDE DEF task
<1>5. PICK x : x = task
  OBVIOUS
<1>6. /\ drawer' \in DrawerState /\ drawer'.app = a /\ drawer'.loading
      /\ drawer'.saving = drawer.saving /\ drawer'.deleting = drawer.deleting
      /\ UNCHANGED <<server, auth, list, modal, clean, removed, haunted>>
  BY <1>1 DEF RowClick, DrawerState, history
<1>7. Exists(a)
  BY <1>1 DEF RowClick, Shapes, ShownExist
<1>8. /\ ~Running(t) /\ tasks' \in [Task -> TaskRecord] /\ tasks'[t] = x
      /\ SameCall(x, tasks'[t])
      /\ \A u \in Task \ {t} : tasks'[u] = tasks[u]
      /\ Others(t)
  BY <1>1, <1>3, <1>4, <1>5, BeginFields
<1>9. TypeOK'
  BY <1>1, <1>6, <1>8 DEF TypeOK
<1>10. Fresh(x)
  BY <1>3, <1>5, <1>7 DEF Fresh, Calls
<1>11. /\ Shapes' /\ SignIns' /\ Ghosts' /\ tasks[t].does = "idle"
       /\ \A u \in Task : Loading(u)' <=> Loading(u)
  BY <1>3, <1>5, <1>6, <1>7, <1>8, <1>10, BeginStep
<1>12. Opens'
  BY <1>3, <1>5, <1>8 DEF Opens
<1>13. Forms'
  BY <1>1, <1>3, <1>5, <1>6, <1>8, <1>11, FormsStay DEF Form
<1>14. Loads'
  BY <1>1, <1>6, <1>8, <1>11, LoadsStep DEF Visible, Loading, Running
<1> QED BY <1>9, <1>11, <1>12, <1>13, <1>14, Parts, PTL

LEMMA CloseDrawerInv ==
  ASSUME PageInv, CloseDrawer
  PROVE  PageInv'
<1>1. TypeOK /\ Forms /\ Loads /\ drawer \in DrawerState
  BY Parts DEF TypeOK
<1>2. /\ drawer' \in DrawerState /\ drawer'.app = drawer.app
      /\ drawer'.loading = drawer.loading /\ drawer'.saving = drawer.saving
      /\ drawer'.deleting = drawer.deleting
      /\ UNCHANGED <<server, auth, list, modal, tasks, clean, removed, haunted>>
  BY <1>1 DEF CloseDrawer, DrawerState, history
<1>3. TypeOK'
  BY <1>1, <1>2 DEF TypeOK
<1>4. Shapes' /\ SignIns' /\ Opens' /\ Ghosts' /\ \A u \in Task : Loading(u)' <=> Loading(u)
  BY <1>2, SameGrows, StillStep DEF SameCall
<1>5. Forms' /\ Loads'
  BY <1>1, <1>2, <1>4, FormsStay, LoadsStep DEF Visible
<1> QED BY <1>3, <1>4, <1>5, Parts, PTL

LEMMA ToggleModalInv ==
  ASSUME PageInv, ToggleModal
  PROVE  PageInv'
<1>1. TypeOK /\ Forms /\ Loads /\ modal \in ModalState
  BY Parts DEF TypeOK
<1>2. /\ modal' \in ModalState /\ modal'.saving = modal.saving
      /\ UNCHANGED <<server, auth, list, drawer, tasks, clean, removed, haunted>>
  BY <1>1 DEF ToggleModal, ModalState, history
<1>3. TypeOK'
  BY <1>1, <1>2 DEF TypeOK
<1>4. Shapes' /\ SignIns' /\ Opens' /\ Ghosts' /\ \A u \in Task : Loading(u)' <=> Loading(u)
  BY <1>2, SameGrows, StillStep DEF SameCall
<1>5. Forms' /\ Loads'
  BY <1>1, <1>2, <1>4, FormsStay, LoadsStep DEF Visible
<1> QED BY <1>3, <1>4, <1>5, Parts, PTL

\* A form is submitted: its flag was off, and is on.
LEMMA SubmitStep ==
  ASSUME PageInv, NEW t \in Task, NEW task, Fresh(task), Begin(t, task), task.mounted,
         task.does \in Form, task.awaits = task.does,
         UNCHANGED <<server, auth, list, clean, removed, haunted>>,
         drawer' \in DrawerState, modal' \in ModalState,
         drawer'.app = drawer.app, drawer'.loading = drawer.loading,
         IF task.does = "create" THEN ~modal.saving /\ modal'.saving
                                 ELSE modal'.saving = modal.saving,
         IF task.does = "update" THEN ~drawer.saving /\ drawer'.saving
                                 ELSE drawer'.saving = drawer.saving,
         IF task.does = "delete" THEN ~drawer.deleting /\ drawer'.deleting
                                 ELSE drawer'.deleting = drawer.deleting
  PROVE  PageInv'
<1>1. TypeOK /\ Shapes /\ Forms /\ Loads
  BY Parts
<1>2. /\ ~Running(t) /\ tasks' \in [Task -> TaskRecord] /\ tasks'[t] = task
      /\ SameCall(task, tasks'[t])
      /\ \A u \in Task \ {t} : tasks'[u] = tasks[u]
      /\ Others(t)
  BY <1>1, BeginFields DEF Fresh
<1>3. TypeOK'
  BY <1>1, <1>2 DEF TypeOK
<1>4. /\ Shapes' /\ SignIns' /\ Opens' /\ Ghosts' /\ tasks[t].does = "idle"
      /\ \A u \in Task : Loading(u)' <=> Loading(u)
  BY <1>2, BeginStep DEF Form
<1>5. Forms'
  <2>1. OneForm(tasks', "create", modal'.saving)
    <3>1. OneForm(tasks, "create", modal.saving) /\ modal.saving \in BOOLEAN /\ modal'.saving \in BOOLEAN
      BY <1>1 DEF Forms, TypeOK, ModalState
    <3>2. CASE task.does = "create"
      BY <1>2, <3>1, <3>2, FormStep
    <3>3. CASE task.does # "create"
      BY <1>2, <1>4, <3>1, <3>3, FormStep
    <3> QED BY <3>2, <3>3
  <2>2. OneForm(tasks', "update", drawer'.saving)
    <3>1. OneForm(tasks, "update", drawer.saving) /\ drawer.saving \in BOOLEAN /\ drawer'.saving \in BOOLEAN
      BY <1>1 DEF Forms, TypeOK, DrawerState
    <3>2. CASE task.does = "update"
      BY <1>2, <3>1, <3>2, FormStep
    <3>3. CASE task.does # "update"
      BY <1>2, <1>4, <3>1, <3>3, FormStep
    <3> QED BY <3>2, <3>3
  <2>3. OneForm(tasks', "delete", drawer'.deleting)
    <3>1. OneForm(tasks, "delete", drawer.deleting) /\ drawer.deleting \in BOOLEAN /\ drawer'.deleting \in BOOLEAN
      BY <1>1 DEF Forms, TypeOK, DrawerState
    <3>2. CASE task.does = "delete"
      BY <1>2, <3>1, <3>2, FormStep
    <3>3. CASE task.does # "delete"
      BY <1>2, <1>4, <3>1, <3>3, FormStep
    <3> QED BY <3>2, <3>3
  <2> QED BY <2>1, <2>2, <2>3 DEF Forms
<1>6. Loads'
  BY <1>1, <1>2, <1>4, LoadsStep DEF Visible, Loading, Running
<1> QED BY <1>3, <1>4, <1>5, <1>6, Parts, PTL

LEMMA SaveInv ==
  ASSUME PageInv, NEW t \in Task, NEW s \in Status, Save(t, s)
  PROVE  PageInv'
<1> DEFINE begun == Started("update", "update")
           task == [begun EXCEPT !.on = drawer.app, !.sets = s]
<1>1. TypeOK /\ Shapes /\ drawer \in DrawerState
  BY Parts DEF TypeOK
<1>2. /\ begun \in TaskRecord /\ begun.does = "update" /\ begun.awaits = "update"
      /\ begun.reply = "none" /\ begun.rows = NoRows /\ begun.mounted
  <2>1. "update" \in Handler /\ "update" \in Call
    BY DEF Handler, Call
  <2> QED BY <2>1, StartedFields
<1>3. Exists(drawer.app) /\ drawer.app \in App
  BY <1>1 DEF Save, DrawerReady, Shapes, ShownExist, Exists
<1>4. /\ task \in TaskRecord /\ task.does = "update" /\ task.awaits = "update"
      /\ task.reply = "none" /\ task.rows = NoRows /\ task.on = drawer.app
      /\ task.mounted
  <2> HIDE DEF begun
  <2> QED BY <1>2, <1>3 DEF TaskRecord
<1>5. Begin(t, task)
  BY DEF Save
<1> HIDE DEF task
<1>6. PICK x : x = task
  OBVIOUS
<1>7. Fresh(x)
  BY <1>3, <1>4, <1>6 DEF Fresh, Calls
<1>8. /\ drawer' \in DrawerState /\ drawer'.app = drawer.app
      /\ drawer'.loading = drawer.loading /\ drawer'.deleting = drawer.deleting
      /\ ~drawer.saving /\ drawer'.saving
      /\ modal' \in ModalState /\ modal' = modal
      /\ UNCHANGED <<server, auth, list, clean, removed, haunted>>
  BY <1>1 DEF Save, DrawerState, history, TypeOK
<1> QED BY <1>4, <1>5, <1>6, <1>7, <1>8, SubmitStep DEF Form

LEMMA DeleteInv ==
  ASSUME PageInv, NEW t \in Task, Delete(t)
  PROVE  PageInv'
<1> DEFINE begun == Started("delete", "delete")
           task == [begun EXCEPT !.on = drawer.app]
<1>1. TypeOK /\ Shapes /\ drawer \in DrawerState
  BY Parts DEF TypeOK
<1>2. /\ begun \in TaskRecord /\ begun.does = "delete" /\ begun.awaits = "delete"
      /\ begun.reply = "none" /\ begun.rows = NoRows /\ begun.mounted
  <2>1. "delete" \in Handler /\ "delete" \in Call
    BY DEF Handler, Call
  <2> QED BY <2>1, StartedFields
<1>3. Exists(drawer.app) /\ drawer.app \in App
  BY <1>1 DEF Delete, DrawerReady, Shapes, ShownExist, Exists
<1>4. /\ task \in TaskRecord /\ task.does = "delete" /\ task.awaits = "delete"
      /\ task.reply = "none" /\ task.rows = NoRows /\ task.on = drawer.app
      /\ task.mounted
  <2> HIDE DEF begun
  <2> QED BY <1>2, <1>3 DEF TaskRecord
<1>5. Begin(t, task)
  BY DEF Delete
<1> HIDE DEF task
<1>6. PICK x : x = task
  OBVIOUS
<1>7. Fresh(x)
  BY <1>3, <1>4, <1>6 DEF Fresh, Calls
<1>8. /\ drawer' \in DrawerState /\ drawer'.app = drawer.app
      /\ drawer'.loading = drawer.loading /\ drawer'.saving = drawer.saving
      /\ ~drawer.deleting /\ drawer'.deleting
      /\ modal' \in ModalState /\ modal' = modal
      /\ UNCHANGED <<server, auth, list, clean, removed, haunted>>
  BY <1>1 DEF Delete, DrawerState, history, TypeOK
<1> QED BY <1>4, <1>5, <1>6, <1>7, <1>8, SubmitStep DEF Form

LEMMA SubmitInv ==
  ASSUME PageInv, NEW t \in Task, NEW s \in Status, Submit(t, s)
  PROVE  PageInv'
<1> DEFINE begun == Started("create", "create")
           task == [begun EXCEPT !.sets = s, !.view = list.view]
<1>1. TypeOK /\ modal \in ModalState /\ list.view \in View
  BY Parts DEF TypeOK, ListState
<1>2. /\ begun \in TaskRecord /\ begun.does = "create" /\ begun.awaits = "create"
      /\ begun.reply = "none" /\ begun.rows = NoRows /\ begun.mounted
  <2>1. "create" \in Handler /\ "create" \in Call
    BY DEF Handler, Call
  <2> QED BY <2>1, StartedFields
<1>3. /\ task \in TaskRecord /\ task.does = "create" /\ task.awaits = "create"
      /\ task.reply = "none" /\ task.rows = NoRows /\ task.mounted
  <2> HIDE DEF begun
  <2> QED BY <1>1, <1>2 DEF TaskRecord
<1>4. Begin(t, task)
  BY DEF Submit
<1> HIDE DEF task
<1>5. PICK x : x = task
  OBVIOUS
<1>6. Fresh(x)
  BY <1>3, <1>5 DEF Fresh, Calls
<1>7. /\ modal' \in ModalState /\ ~modal.saving /\ modal'.saving
      /\ drawer' \in DrawerState /\ drawer' = drawer
      /\ UNCHANGED <<server, auth, list, clean, removed, haunted>>
  BY <1>1 DEF Submit, ModalState, history, TypeOK
<1> QED BY <1>3, <1>4, <1>5, <1>6, <1>7, SubmitStep DEF Form

\* Leaving the tab unmounts every form.
LEMMA LeaveFields ==
  ASSUME TypeOK, NEW ts \in [Task -> TaskRecord], Leave(ts)
  PROVE  /\ tasks' \in [Task -> TaskRecord]
         /\ \A u \in Task : SameCall(ts[u], tasks'[u])
         /\ FormsLeft
         /\ drawer' \in DrawerState /\ drawer'.app = drawer.app
         /\ drawer'.loading = drawer.loading
         /\ modal' \in ModalState
         /\ UNCHANGED <<server, auth, list, clean, removed, haunted>>
<1>1. drawer \in DrawerState /\ modal \in ModalState
  BY DEF TypeOK
<1>2. /\ tasks' \in [Task -> TaskRecord]
      /\ \A u \in Task : SameCall(ts[u], tasks'[u])
      /\ \A u \in Task : tasks'[u].does \in Form => ~tasks'[u].mounted
  BY UnmountedFields DEF Leave
<1>3. /\ drawer' \in DrawerState /\ drawer'.app = drawer.app
      /\ drawer'.loading = drawer.loading
      /\ ~drawer'.saving /\ ~drawer'.deleting
  BY <1>1 DEF Leave, FreshDrawer, DrawerState
<1>4. modal' \in ModalState /\ ~modal'.saving
  BY <1>1 DEF Leave, FreshModal, ModalState
<1> QED BY <1>2, <1>3, <1>4 DEF FormsLeft, Leave, history

LEMMA SwitchTabInv ==
  ASSUME PageInv, SwitchTab
  PROVE  PageInv'
<1>1. TypeOK /\ Loads /\ tasks \in [Task -> TaskRecord]
  BY Parts DEF TypeOK
<1>2. /\ tasks' \in [Task -> TaskRecord]
      /\ \A u \in Task : SameCall(tasks[u], tasks'[u])
      /\ FormsLeft
      /\ drawer' \in DrawerState /\ drawer'.app = drawer.app
      /\ drawer'.loading = drawer.loading
      /\ modal' \in ModalState
      /\ UNCHANGED <<server, auth, list, clean, removed, haunted>>
  BY <1>1, LeaveFields DEF SwitchTab
<1>3. TypeOK'
  BY <1>1, <1>2 DEF TypeOK
<1>4. Shapes' /\ SignIns' /\ Opens' /\ Ghosts' /\ \A u \in Task : Loading(u)' <=> Loading(u)
  BY <1>2, SameGrows, StillStep
<1>5. Forms' /\ Loads'
  BY <1>1, <1>2, <1>4, FormsLeftStep, LoadsStep DEF Visible, SameCall
<1> QED BY <1>3, <1>4, <1>5, Parts, PTL

\* A handler begins as the tab is left.
LEMMA LeavingStep ==
  ASSUME PageInv, NEW t \in Task, ~Running(t), NEW task, Fresh(task),
         task.does \notin {"idle", "signin"}, task.awaits # "list",
         Leave([tasks EXCEPT ![t] = task])
  PROVE  PageInv'
<1> DEFINE ts == [tasks EXCEPT ![t] = task]
<1>1. TypeOK /\ Loads
  BY Parts
<1>2. ts \in [Task -> TaskRecord] /\ ts[t] = task /\ \A u \in Task \ {t} : ts[u] = tasks[u]
  BY <1>1 DEF TypeOK, Fresh
<1> HIDE DEF ts
<1>3. /\ tasks' \in [Task -> TaskRecord]
      /\ \A u \in Task : SameCall(ts[u], tasks'[u])
      /\ FormsLeft
      /\ drawer' \in DrawerState /\ drawer'.app = drawer.app
      /\ drawer'.loading = drawer.loading
      /\ modal' \in ModalState
      /\ UNCHANGED <<server, auth, list, clean, removed, haunted>>
  BY <1>1, <1>2, LeaveFields DEF ts
<1>4. Others(t) /\ SameCall(task, tasks'[t])
  BY <1>2, <1>3 DEF Others
<1>5. TypeOK'
  BY <1>1, <1>3 DEF TypeOK
<1>6. /\ Shapes' /\ SignIns' /\ Opens' /\ Ghosts' /\ tasks[t].does = "idle"
      /\ \A u \in Task : Loading(u)' <=> Loading(u)
  BY <1>3, <1>4, BeginStep
<1>7. \A u \in Task : Loading(u) => tasks'[u].view = tasks[u].view
  BY <1>4, <1>6 DEF Others, SameCall, Loading, Running
<1>8. Forms' /\ Loads'
  BY <1>1, <1>3, <1>6, <1>7, FormsLeftStep, LoadsStep DEF Visible
<1> QED BY <1>5, <1>6, <1>8, Parts, PTL

LEMMA GenerateInv ==
  ASSUME PageInv, NEW t \in Task, NEW s \in Status, Generate(t, s)
  PROVE  PageInv'
<1> DEFINE begun == Started("generate", "create")
           task == [begun EXCEPT !.sets = s, !.view = list.view]
<1>1. list.view \in View
  BY Parts DEF TypeOK, ListState
<1>2. /\ begun \in TaskRecord /\ begun.does = "generate" /\ begun.awaits = "create"
      /\ begun.reply = "none" /\ begun.rows = NoRows
  <2>1. "generate" \in Handler /\ "create" \in Call
    BY DEF Handler, Call
  <2> QED BY <2>1, StartedFields
<1>3. /\ task \in TaskRecord /\ task.does = "generate" /\ task.awaits = "create"
      /\ task.reply = "none" /\ task.rows = NoRows
  <2> HIDE DEF begun
  <2> QED BY <1>1, <1>2 DEF TaskRecord
<1>4. ~Running(t) /\ Leave([tasks EXCEPT ![t] = task])
  BY DEF Generate
<1> HIDE DEF task
<1>5. PICK x : x = task
  OBVIOUS
<1>6. Fresh(x)
  BY <1>3, <1>5 DEF Fresh, Calls
<1> QED BY <1>3, <1>4, <1>5, <1>6, LeavingStep

LEMMA SignOutInv ==
  ASSUME PageInv, NEW t \in Task, SignOut(t)
  PROVE  PageInv'
<1> DEFINE task == Started("signout", "logout")
<1>1. /\ task \in TaskRecord /\ task.does = "signout" /\ task.awaits = "logout"
      /\ task.reply = "none" /\ task.rows = NoRows
  <2>1. "signout" \in Handler /\ "logout" \in Call
    BY DEF Handler, Call
  <2> QED BY <2>1, StartedFields
<1>2. ~Running(t) /\ Leave([tasks EXCEPT ![t] = task])
  BY DEF SignOut
<1> HIDE DEF task
<1>3. PICK x : x = task
  OBVIOUS
<1>4. Fresh(x)
  BY <1>1, <1>3 DEF Fresh, Calls
<1> QED BY <1>1, <1>2, <1>3, <1>4, LeavingStep

\* The link is used only when nothing else signs in.
LEMMA UseLinkInv ==
  ASSUME PageInv, NEW t \in Task, UseLink(t)
  PROVE  PageInv'
<1> DEFINE task == Started("signin", "verify")
<1>1. TypeOK /\ SignIns /\ Opens /\ Forms /\ auth \in AuthState
  BY Parts DEF TypeOK
<1>2. /\ task \in TaskRecord /\ task.does = "signin" /\ task.awaits = "verify"
      /\ task.reply = "none" /\ task.rows = NoRows
  <2>1. "signin" \in Handler /\ "verify" \in Call
    BY DEF Handler, Call
  <2> QED BY <2>1, StartedFields
<1>3. Begin(t, task)
  BY DEF UseLink
<1> HIDE DEF task
<1>4. PICK x : x = task
  OBVIOUS
<1>5. Fresh(x)
  BY <1>2, <1>4 DEF Fresh, Calls
<1>6. /\ ~Running(t) /\ tasks' \in [Task -> TaskRecord] /\ tasks'[t] = x
      /\ SameCall(x, tasks'[t])
      /\ \A u \in Task \ {t} : tasks'[u] = tasks[u]
      /\ Others(t)
  BY <1>1, <1>2, <1>3, <1>4, BeginFields
<1>7. /\ auth.needsLogin /\ ~auth.loading /\ auth.link
      /\ auth' \in AuthState /\ auth'.needsLogin /\ ~auth'.loading /\ ~auth'.link
      /\ UNCHANGED <<server, list, drawer, modal, clean, removed, haunted>>
  BY <1>1 DEF UseLink, AuthState, history
<1>8. TypeOK'
  BY <1>1, <1>6, <1>7 DEF TypeOK
<1>9. Shapes' /\ Opens' /\ Ghosts' /\ tasks[t].does = "idle"
  BY <1>2, <1>4, <1>5, <1>6, <1>7, BeginStep
<1>10. SignIns'
  <2>1. \A u \in Task : tasks[u].does # "signin"
    BY <1>1, <1>7 DEF SignIns, OneSignIn
  <2> QED BY <1>2, <1>4, <1>6, <1>7, <2>1 DEF SignIns, OneSignIn
<1>11. Forms'
  BY <1>1, <1>2, <1>4, <1>6, <1>7, <1>9, FormsStay DEF Form
<1>12. Loads'
  BY <1>7, LoadsAhead DEF Visible
<1> QED BY <1>8, <1>9, <1>10, <1>11, <1>12, Parts, PTL

-----------------------------------------------------------------------------
(* A new page *)

\* A page that probes who its user is.
AsNew ==
    /\ server \in [App -> Row \cup {NoRow}]
    /\ \E l \in BOOLEAN : auth = FreshAuth(l)
    /\ list = FreshList
    /\ drawer = ClosedDrawer
    /\ modal = ClosedModal
    /\ \E t \in Task : tasks = Probing(t)
    /\ clean = TRUE /\ removed = {} /\ haunted = {}

LEMMA NewPage == AsNew => PageInv
<1> SUFFICES ASSUME AsNew, NEW t \in Task, NEW l \in BOOLEAN,
                    server \in [App -> Row \cup {NoRow}],
                    auth = FreshAuth(l), list = FreshList, drawer = ClosedDrawer,
                    modal = ClosedModal, tasks = Probing(t),
                    clean = TRUE, removed = {}, haunted = {}
             PROVE  PageInv
  BY Zenon DEF AsNew
<1>1. IdleTask.does = "idle" /\ IdleTask \in TaskRecord
  BY IdleFields
<1>2. PICK x : x = [IdleTask EXCEPT !.does = "signin"]
  OBVIOUS
<1>3. /\ x \in TaskRecord /\ x.does = "signin" /\ x.awaits = "me" /\ x.on = NoApp
      /\ x.reply = "none" /\ x.rows = NoRows
  BY <1>2, IdleFields DEF TaskRecord, Handler
<1>4. ASSUME NEW u \in Task
      PROVE  tasks[u] = IF u = t THEN x ELSE IdleTask
  BY <1>2 DEF Probing
<1>5. tasks \in [Task -> TaskRecord]
  BY <1>1, <1>2, <1>3 DEF Probing
<1>6. TypeOK
  BY <1>5, NoRowsAreRows DEF TypeOK, FreshAuth, AuthState, FreshList, ListState, View,
                             ClosedDrawer, DrawerState, ClosedModal, ModalState
<1>7. Shapes
  <2>1. ASSUME NEW u \in Task PROVE TaskShape(u)
    BY <1>3, <1>4, IdleFields, NoRowsAreRows DEF TaskShape, Calls
  <2>2. ShownExist
    BY NoRowsAreRows DEF ShownExist, FreshList, ClosedDrawer
  <2> QED BY <2>1, <2>2 DEF Shapes
<1>8. SignIns
  BY <1>1, <1>3, <1>4 DEF SignIns, OneSignIn, FreshAuth
<1>9. Opens
  BY DEF Opens, ClosedDrawer
<1>10. Forms
  BY <1>1, <1>3, <1>4 DEF Forms, OneForm, ClosedDrawer, ClosedModal
<1>11. Loads
  BY DEF Loads, LastLoadCurrent, Visible, FreshAuth
<1>12. Ghosts
  BY DEF Ghosts, GhostsKnown, GhostsAreRaced
<1> QED BY <1>6, <1>7, <1>8, <1>9, <1>10, <1>11, <1>12, Parts

LEMMA PageInvInit == Init => PageInv
<1> SUFFICES ASSUME Init PROVE PageInv
  OBVIOUS
<1>1. server \in [App -> Row \cup {NoRow}]
  BY DEF Init, Row
<1> QED BY <1>1, NewPage, Zenon DEF Init, AsNew

LEMMA ReloadInv ==
  ASSUME PageInv, NEW t \in Task, NEW l \in BOOLEAN, Reload(t, l)
  PROVE  PageInv'
<1>1. server' \in [App -> Row \cup {NoRow}]
  BY DEF PageInv, TypeOK, Reload
<1>2. /\ auth' = FreshAuth(l) /\ list' = FreshList /\ drawer' = ClosedDrawer
      /\ modal' = ClosedModal /\ tasks' = Probing(t)
      /\ clean' = TRUE /\ removed' = {} /\ haunted' = {}
  BY DEF Reload
<1>3. AsNew'
  BY <1>1, <1>2, Zenon DEF AsNew
<1> QED BY <1>3, NewPage, PTL

-----------------------------------------------------------------------------
(* Answers *)

\* A handler ends, or goes on to another call.
GoesOn(t, task) ==
    task = IdleTask \/ \E call \in Calls[tasks[t].does] : task = Awaiting(t, call)

LEMMA GoesOnFields ==
  ASSUME TypeOK, NEW t \in Task, NEW task, GoesOn(t, task)
  PROVE  /\ task \in TaskRecord
         /\ task.awaits \in Calls[task.does]
         /\ task.reply = "none" /\ task.rows = NoRows
         /\ \/ task.does = "idle" /\ task.awaits = "me"
            \/ /\ task.does = tasks[t].does /\ task.on = tasks[t].on
               /\ task.view = tasks[t].view /\ task.mounted = tasks[t].mounted
<1>1. CASE task = IdleTask
  BY <1>1, IdleFields DEF Calls
<1>2. ASSUME NEW call \in Calls[tasks[t].does], task = Awaiting(t, call)
      PROVE  /\ task \in TaskRecord
             /\ task.awaits \in Calls[task.does]
             /\ task.reply = "none" /\ task.rows = NoRows
             /\ task.does = tasks[t].does /\ task.on = tasks[t].on
             /\ task.view = tasks[t].view /\ task.mounted = tasks[t].mounted
  <2>1. tasks[t] \in TaskRecord /\ tasks[t].does \in Handler
    BY DEF TypeOK, TaskRecord
  <2>2. call \in Call
    BY <1>2, <2>1 DEF Calls, Handler, Call
  <2> QED BY <1>2, <2>1, <2>2, AwaitingFields
<1> QED BY <1>1, <1>2 DEF GoesOn

\* What t does to the flag of a form: it clears its own when it ends.
Flagged(t, task, kind, flag, flag2) ==
    flag2 = IF tasks[t].does = kind /\ task.does = "idle" THEN Cleared(t, flag) ELSE flag

\* t's answer is handled: what Deliver may have done.
LEMMA DeliverFields ==
  ASSUME TypeOK, NEW t \in Task, NEW l \in ListState, NEW d \in DrawerState,
         NEW m \in ModalState, NEW task \in TaskRecord, Deliver(t, l, d, m, task)
  PROVE  /\ auth' \in AuthState /\ list' \in ListState /\ drawer' \in DrawerState
         /\ modal' \in ModalState /\ tasks' \in [Task -> TaskRecord]
         /\ Others(t) /\ SameCall(task, tasks'[t])
         /\ list'.rows = l.rows /\ list'.view = l.view /\ list'.of = l.of
         /\ list'.failed = l.failed /\ list'.loading = l.loading
         /\ drawer'.app = d.app /\ drawer'.loading = d.loading
         /\ auth'.loading = auth.loading /\ auth'.link = auth.link
         /\ auth.needsLogin => auth'.needsLogin
         /\ \/ FormsLeft /\ ~Visible'
            \/ /\ UNCHANGED auth /\ list' = l /\ drawer' = d /\ modal' = m
               /\ tasks'[t] = task /\ \A u \in Task \ {t} : tasks'[u] = tasks[u]
<1> DEFINE ts == [tasks EXCEPT ![t] = task]
<1>1. /\ ts \in [Task -> TaskRecord] /\ ts[t] = task
      /\ \A u \in Task \ {t} : ts[u] = tasks[u]
  BY DEF TypeOK
<1> HIDE DEF ts
<1>2. CASE tasks[t].reply = "unauthorized"
  <2>1. /\ auth' = [auth EXCEPT !.needsLogin = TRUE]
        /\ list' = [l EXCEPT !.timer = FALSE]
        /\ drawer' = FreshDrawer(d)
        /\ modal' = FreshModal(m)
        /\ tasks' = Unmounted(ts)
    BY <1>2 DEF Deliver, ts
  <2>2. /\ auth' \in AuthState /\ auth'.needsLogin
        /\ auth'.loading = auth.loading /\ auth'.link = auth.link
    BY <2>1 DEF TypeOK, AuthState
  <2>3. /\ list' \in ListState /\ list'.rows = l.rows /\ list'.view = l.view
        /\ list'.of = l.of /\ list'.failed = l.failed /\ list'.loading = l.loading
    BY <2>1 DEF ListState
  <2>4. /\ drawer' \in DrawerState /\ drawer'.app = d.app /\ drawer'.loading = d.loading
        /\ ~drawer'.saving /\ ~drawer'.deleting
    BY <2>1 DEF FreshDrawer, DrawerState
  <2>5. modal' \in ModalState /\ ~modal'.saving
    BY <2>1 DEF FreshModal, ModalState
  <2>6. /\ tasks' \in [Task -> TaskRecord]
        /\ \A u \in Task : SameCall(ts[u], tasks'[u])
        /\ \A u \in Task : tasks'[u].does \in Form => ~tasks'[u].mounted
    BY <1>1, <2>1, UnmountedFields
  <2>7. Others(t) /\ SameCall(task, tasks'[t])
    BY <1>1, <2>6 DEF Others
  <2>8. FormsLeft /\ ~Visible'
    BY <2>2, <2>4, <2>5, <2>6 DEF FormsLeft, Visible
  <2> QED BY <2>2, <2>3, <2>4, <2>5, <2>6, <2>7, <2>8
<1>3. CASE tasks[t].reply # "unauthorized"
  <2>1. UNCHANGED auth /\ list' = l /\ drawer' = d /\ modal' = m /\ tasks' = ts
    BY <1>3 DEF Deliver, ts
  <2>2. Others(t) /\ SameCall(task, tasks'[t])
    BY <1>1, <2>1 DEF Others, SameCall
  <2> QED BY <1>1, <2>1, <2>2 DEF TypeOK
<1> QED BY <1>2, <1>3

\* It disturbs no sign-in and no form but its own, and shows what there is.
LEMMA DeliverStep ==
  ASSUME PageInv, NEW t \in Task, Running(t), tasks[t].does # "signin",
         NEW l \in ListState, NEW d \in DrawerState, NEW m \in ModalState, NEW task,
         GoesOn(t, task), Deliver(t, l, d, m, task),
         UNCHANGED server, clean' \in BOOLEAN, removed' \subseteq App,
         haunted' \subseteq removed',
         \A a \in DOMAIN l.rows : Exists(a),
         d.app = drawer.app \/ Exists(d.app),
         Flagged(t, task, "create", modal.saving, m.saving),
         Flagged(t, task, "update", drawer.saving, d.saving),
         Flagged(t, task, "delete", drawer.deleting, d.deleting)
  PROVE  TypeOK' /\ Shapes' /\ SignIns' /\ Forms'
<1>1. TypeOK /\ Shapes /\ SignIns /\ Forms
  BY Parts
<1>2. /\ task \in TaskRecord
      /\ task.awaits \in Calls[task.does]
      /\ task.reply = "none" /\ task.rows = NoRows
      /\ \/ task.does = "idle" /\ task.awaits = "me"
         \/ /\ task.does = tasks[t].does /\ task.on = tasks[t].on
            /\ task.view = tasks[t].view /\ task.mounted = tasks[t].mounted
  BY <1>1, GoesOnFields
<1>3. /\ auth' \in AuthState /\ list' \in ListState /\ drawer' \in DrawerState
      /\ modal' \in ModalState /\ tasks' \in [Task -> TaskRecord]
      /\ Others(t) /\ SameCall(task, tasks'[t])
      /\ list'.rows = l.rows /\ drawer'.app = d.app
      /\ auth'.loading = auth.loading /\ auth'.link = auth.link
      /\ auth.needsLogin => auth'.needsLogin
      /\ \/ FormsLeft
         \/ /\ drawer' = d /\ modal' = m
            /\ tasks'[t] = task /\ \A u \in Task \ {t} : tasks'[u] = tasks[u]
  BY <1>1, <1>2, DeliverFields
<1>4. TypeOK'
  BY <1>1, <1>3 DEF TypeOK
<1>5. Shapes'
  <2>1. TaskShape(t)
    BY <1>1 DEF Shapes
  <2>2. TaskShape(t)'
    BY <1>2, <1>3, <2>1, NoRowsAreRows DEF TaskShape, SameCall, Exists
  <2>3. \A a \in DOMAIN list'.rows : Exists(a)'
    BY <1>3 DEF Exists
  <2> QED BY <1>1, <1>3, <2>2, <2>3, SameGrows, ShapesStep
<1>6. SignIns'
  BY <1>1, <1>2, <1>3, SignInsStep DEF Others, SameCall
<1>7. Forms'
  <2>1. CASE FormsLeft
    BY <2>1, FormsLeftStep
  <2>2. CASE /\ drawer' = d /\ modal' = m
             /\ tasks'[t] = task /\ \A u \in Task \ {t} : tasks'[u] = tasks[u]
    <3>1. ASSUME NEW kind \in Form, NEW flag \in BOOLEAN, NEW flag2 \in BOOLEAN,
                 OneForm(tasks, kind, flag), Flagged(t, task, kind, flag, flag2)
          PROVE  OneForm(tasks', kind, flag2)
      <4>1. CASE tasks[t].does = kind /\ task.does = "idle"
        <5>1. flag2 <=> flag /\ ~tasks[t].mounted
          BY <3>1, <4>1 DEF Flagged, Cleared
        <5> QED BY <2>2, <3>1, <4>1, <5>1, FormStep DEF Form
      <4>2. CASE ~(tasks[t].does = kind /\ task.does = "idle")
        <5>1. flag2 = flag
          BY <3>1, <4>2 DEF Flagged
        <5> QED BY <1>2, <2>2, <3>1, <4>2, <5>1, FormStep DEF Form
      <4> QED BY <4>1, <4>2
    <3>2. OneForm(tasks', "create", m.saving)
      BY <1>1, <3>1 DEF Forms, Form, TypeOK, ModalState
    <3>3. OneForm(tasks', "update", d.saving) /\ OneForm(tasks', "delete", d.deleting)
      BY <1>1, <3>1 DEF Forms, Form, TypeOK, DrawerState
    <3> QED BY <2>2, <3>2, <3>3 DEF Forms
  <2> QED BY <1>3, <2>1, <2>2
<1> QED BY <1>4, <1>5, <1>6, <1>7

\* The handler that goes on neither awaited the list nor awaits it.
LEMMA NoLoadStep ==
  ASSUME Loads, NEW t \in Task, ~Loading(t), Others(t), NEW task,
         SameCall(task, tasks'[t]), task.awaits # "list",
         clean' = clean, list'.view = list.view, list'.of = list.of,
         list'.failed = list.failed, list'.loading = list.loading,
         Visible' => UNCHANGED auth /\ list'.timer = list.timer
  PROVE  Loads' /\ \A u \in Task : Loading(u)' <=> Loading(u)
<1>1. ASSUME NEW u \in Task
      PROVE  /\ Loading(u)' <=> Loading(u)
             /\ Loading(u) => tasks'[u].view = tasks[u].view
  BY DEF Others, SameCall, Loading, Running
<1>2. Visible' => Visible /\ list'.timer = list.timer
  BY DEF Visible
<1> QED BY <1>1, <1>2, LoadsStep

\* The list is answered.
LEMMA OnListInv ==
  ASSUME PageInv, NEW t \in Task, OnList(t)
  PROVE  PageInv'
<1> DEFINE shown == IF Ok(t) THEN [list EXCEPT !.rows = tasks[t].rows, !.of = tasks[t].view]
                             ELSE [list EXCEPT !.failed = TRUE]
           l == [shown EXCEPT !.loading = FALSE]
           task == IF tasks[t].does = "load" THEN IdleTask ELSE Awaiting(t, "stats")
<1>1. TypeOK /\ Shapes /\ Opens /\ Loads /\ Ghosts /\ Loading(t) /\ Running(t)
  BY Parts DEF OnList, Answered, Loading
<1>2. tasks[t].does \in {"load", "create", "generate"} /\ TaskShape(t)
  BY <1>1, AwaitsTells DEF Loading
<1>3. /\ tasks[t].rows \in Rows /\ tasks[t].view \in View
      /\ list \in ListState /\ drawer \in DrawerState /\ modal \in ModalState
  BY <1>1 DEF TypeOK, TaskRecord
<1>4. /\ l \in ListState /\ l.view = list.view /\ l.timer = list.timer
      /\ ~l.loading
      /\ l.rows = IF Ok(t) THEN tasks[t].rows ELSE list.rows
      /\ IF Ok(t) THEN l.of = tasks[t].view ELSE l.failed
  BY <1>3 DEF ListState
<1>5. GoesOn(t, task)
  BY <1>2 DEF GoesOn, Calls
<1>6. /\ Deliver(t, l, drawer, modal, task)
      /\ UNCHANGED <<server, clean, removed, haunted>>
  BY DEF OnList, history
<1>7. task.does = "idle" => tasks[t].does = "load"
  BY <1>1, <1>2, <1>3, IdleFields, AwaitingFields DEF TypeOK, Call
<1> HIDE DEF l, task
<1>8. /\ task \in TaskRecord /\ task.awaits \in Calls[task.does]
      /\ task.awaits # "list"
  <2>1. task \in TaskRecord /\ task.awaits \in Calls[task.does]
    BY <1>1, <1>5, GoesOnFields
  <2>2. task.awaits # "list"
    BY <1>1, IdleFields, AwaitingFields DEF task, TypeOK, Call
  <2> QED BY <2>1, <2>2
<1>9. /\ Others(t) /\ SameCall(task, tasks'[t])
      /\ list'.rows = l.rows
      /\ drawer'.app = drawer.app /\ drawer'.loading = drawer.loading
      /\ ~Visible' \/ (UNCHANGED auth /\ list' = l)
  BY <1>1, <1>3, <1>4, <1>6, <1>8, DeliverFields
<1>10. \A a \in DOMAIN l.rows : Exists(a)
  BY <1>1, <1>2, <1>4 DEF TaskShape, Shapes, ShownExist
<1>11. TypeOK' /\ Shapes' /\ SignIns' /\ Forms'
  <2>1. /\ Flagged(t, task, "create", modal.saving, modal.saving)
        /\ Flagged(t, task, "update", drawer.saving, drawer.saving)
        /\ Flagged(t, task, "delete", drawer.deleting, drawer.deleting)
    BY <1>2, <1>7 DEF Flagged
  <2>2. clean' \in BOOLEAN /\ removed' \subseteq App /\ haunted' \subseteq removed'
    BY <1>1, <1>6 DEF TypeOK
  <2> QED BY <1>1, <1>2, <1>3, <1>4, <1>5, <1>6, <1>10, <2>1, <2>2, DeliverStep
<1>12. \A u \in Task : Loading(u)' <=> Loading(u) /\ u # t
  BY <1>1, <1>8, <1>9 DEF Others, SameCall, Loading, Running
<1>13. Opens'
  BY <1>1, <1>2, <1>9, OpensStep DEF Others, SameCall
<1>14. Loads'
  <2>1. CASE ~Visible'
    BY <2>1, LoadsAhead
  <2>2. CASE UNCHANGED auth /\ list' = l
    <3>1. Visible' <=> Visible
      BY <2>2 DEF Visible
    <3>2. ASSUME Visible, ~list.timer, clean
          PROVE  /\ \A u \in Task : Loading(u) => u = t
                 /\ tasks[t].view = list.view
      BY <1>1, <3>2 DEF Loads, LastLoadCurrent
    <3>3. LastLoadCurrent'
      BY <1>4, <1>6, <1>12, <2>2, <3>1, <3>2 DEF LastLoadCurrent
    <3> QED BY <1>4, <2>2, <3>3 DEF Loads
  <2> QED BY <1>9, <2>1, <2>2
<1>15. Ghosts'
  <2>1. removed \cap DOMAIN l.rows \subseteq haunted
    BY <1>1, <1>4 DEF Ghosts, GhostsKnown, GhostsAreRaced
  <2>2. \A u \in Task : Loading(u)' => tasks'[u].rows = tasks[u].rows /\ Loading(u)
    BY <1>9, <1>12 DEF Others, SameCall
  <2>3. \A a \in removed : Gone(a)'
    BY <1>1, <1>6 DEF Ghosts, GhostsKnown, Gone, Exists
  <2> QED BY <1>1, <1>6, <1>9, <2>1, <2>2, <2>3 DEF Ghosts, GhostsKnown, GhostsAreRaced
<1> QED BY <1>11, <1>13, <1>14, <1>15, Parts, PTL

\* A handler ends, having left the list alone.
LEMMA EndStep ==
  ASSUME PageInv, NEW t \in Task, Running(t), ~Loading(t), tasks[t].does # "signin",
         NEW d \in DrawerState, NEW m \in ModalState, Deliver(t, list, d, m, IdleTask),
         UNCHANGED <<server, clean, removed, haunted>>,
         d.app = drawer.app, d.loading => drawer.loading /\ tasks[t].does # "open",
         Flagged(t, IdleTask, "create", modal.saving, m.saving),
         Flagged(t, IdleTask, "update", drawer.saving, d.saving),
         Flagged(t, IdleTask, "delete", drawer.deleting, d.deleting)
  PROVE  PageInv'
<1>1. TypeOK /\ Shapes /\ Opens /\ Loads /\ Ghosts /\ list \in ListState
  BY Parts DEF TypeOK
<1>2. PICK l \in ListState : l = list
  BY <1>1
<1>3. Deliver(t, l, d, m, IdleTask)
  BY <1>2
<1>4. /\ Others(t) /\ SameCall(IdleTask, tasks'[t])
      /\ list'.rows = l.rows /\ list'.view = l.view /\ list'.of = l.of
      /\ list'.failed = l.failed /\ list'.loading = l.loading
      /\ drawer'.loading = d.loading
      /\ ~Visible' \/ (UNCHANGED auth /\ list' = l)
  BY <1>1, <1>3, IdleFields, DeliverFields
<1>5. TypeOK' /\ Shapes' /\ SignIns' /\ Forms'
  <2>1. clean' \in BOOLEAN /\ removed' \subseteq App /\ haunted' \subseteq removed'
    BY <1>1 DEF TypeOK
  <2>2. \A a \in DOMAIN l.rows : Exists(a)
    BY <1>1, <1>2 DEF Shapes, ShownExist
  <2>3. GoesOn(t, IdleTask)
    BY DEF GoesOn
  <2> QED BY <1>3, <2>1, <2>2, <2>3, DeliverStep
<1>6. Opens'
  <2>1. CASE d.loading
    BY <1>1, <1>4, <2>1, OpensStep DEF Others, SameCall
  <2>2. CASE ~d.loading
    BY <1>4, <2>2 DEF Opens
  <2> QED BY <2>1, <2>2
<1>7. Loads' /\ \A u \in Task : Loading(u)' <=> Loading(u)
  BY <1>1, <1>2, <1>4, IdleFields, NoLoadStep
<1>8. Ghosts'
  <2>1. \A u \in Task : Loading(u)' => Loading(u) /\ tasks'[u].rows = tasks[u].rows
    BY <1>4, <1>7 DEF Others, SameCall
  <2> QED BY <1>1, <1>2, <1>4, <2>1, SameGrows, GhostsStep
<1> QED BY <1>5, <1>6, <1>7, <1>8, Parts, PTL

\* The figures are answered: what they followed ends.
LEMMA OnStatsInv ==
  ASSUME PageInv, NEW t \in Task, OnStats(t)
  PROVE  PageInv'
<1>1. TypeOK /\ Shapes /\ ~Loading(t) /\ Running(t)
  BY Parts DEF OnStats, Answered, Loading
<1>2. tasks[t].does \in Form \cup {"generate"}
  BY <1>1, AwaitsTells DEF OnStats, Answered
<1>3. drawer \in DrawerState /\ modal \in ModalState
  BY <1>1 DEF TypeOK
<1>4. PICK d, m :
        /\ d = CASE tasks[t].does = "delete" ->
                      [drawer EXCEPT !.open = FALSE, !.deleting = Cleared(t, @)]
                 [] tasks[t].does = "update" -> [drawer EXCEPT !.saving = Cleared(t, @)]
                 [] OTHER -> drawer
        /\ m = IF tasks[t].does = "create"
               THEN [open |-> FALSE, saving |-> Cleared(t, modal.saving)] ELSE modal
        /\ Deliver(t, list, d, m, IdleTask)
  BY Zenon DEF OnStats
<1>5. Cleared(t, modal.saving) \in BOOLEAN /\ Cleared(t, drawer.saving) \in BOOLEAN
      /\ Cleared(t, drawer.deleting) \in BOOLEAN
  BY <1>3 DEF Cleared, ModalState, DrawerState
<1>6. /\ d \in DrawerState /\ d.app = drawer.app /\ d.loading = drawer.loading
      /\ d.saving = IF tasks[t].does = "update" THEN Cleared(t, drawer.saving)
                                                ELSE drawer.saving
      /\ d.deleting = IF tasks[t].does = "delete" THEN Cleared(t, drawer.deleting)
                                                  ELSE drawer.deleting
  BY <1>2, <1>3, <1>4, <1>5 DEF DrawerState
<1>7. /\ m \in ModalState
      /\ m.saving = IF tasks[t].does = "create" THEN Cleared(t, modal.saving)
                                                ELSE modal.saving
  BY <1>3, <1>4, <1>5 DEF ModalState
<1>8. UNCHANGED <<server, clean, removed, haunted>>
  BY DEF OnStats, history
<1>9. /\ Flagged(t, IdleTask, "create", modal.saving, m.saving)
      /\ Flagged(t, IdleTask, "update", drawer.saving, d.saving)
      /\ Flagged(t, IdleTask, "delete", drawer.deleting, d.deleting)
  BY <1>6, <1>7, IdleFields DEF Flagged
<1> QED BY <1>1, <1>2, <1>4, <1>6, <1>7, <1>8, <1>9, EndStep DEF Form

LEMMA OnHistoryInv ==
  ASSUME PageInv, NEW t \in Task, OnHistory(t)
  PROVE  PageInv'
<1>1. TypeOK /\ Shapes /\ ~Loading(t) /\ Running(t)
  BY Parts DEF OnHistory, Answered, Loading
<1>2. tasks[t].does = "open"
  BY <1>1, AwaitsTells DEF OnHistory, Answered
<1>3. PICK d, m : d = [drawer EXCEPT !.loading = FALSE] /\ m = modal
                  /\ Deliver(t, list, d, m, IdleTask)
  BY Zenon DEF OnHistory
<1>4. /\ d \in DrawerState /\ d.app = drawer.app /\ ~d.loading
      /\ d.saving = drawer.saving /\ d.deleting = drawer.deleting
      /\ m \in ModalState /\ m.saving = modal.saving
  BY <1>1, <1>3 DEF TypeOK, DrawerState
<1>5. UNCHANGED <<server, clean, removed, haunted>>
  BY DEF OnHistory, history
<1>6. /\ Flagged(t, IdleTask, "create", modal.saving, m.saving)
      /\ Flagged(t, IdleTask, "update", drawer.saving, d.saving)
      /\ Flagged(t, IdleTask, "delete", drawer.deleting, d.deleting)
  BY <1>2, <1>4 DEF Flagged
<1> QED BY <1>1, <1>2, <1>3, <1>4, <1>5, <1>6, EndStep

\* A created application: the list is loaded again, for the closure's view.
LEMMA OnCreateInv ==
  ASSUME PageInv, NEW t \in Task, OnCreate(t)
  PROVE  PageInv'
<1>1. /\ TypeOK /\ Shapes /\ Opens /\ Loads /\ Ghosts /\ ~Loading(t) /\ Running(t)
      /\ list \in ListState /\ drawer \in DrawerState /\ modal \in ModalState
  BY Parts DEF OnCreate, Answered, Loading, TypeOK
<1>2. tasks[t].does \in {"create", "generate"} /\ tasks[t] \in TaskRecord
  BY <1>1, AwaitsTells DEF OnCreate, Answered, TypeOK
<1>3. CASE ~Ok(t)
  <2>1. PICK m :
          /\ m = IF tasks[t].does = "create" THEN [modal EXCEPT !.saving = Cleared(t, @)]
                                             ELSE modal
          /\ Deliver(t, list, drawer, m, IdleTask)
          /\ UNCHANGED <<server, clean, removed, haunted>>
    BY <1>3, Zenon DEF OnCreate
  <2>2. Cleared(t, modal.saving) \in BOOLEAN
    BY <1>1 DEF Cleared, ModalState
  <2>3. /\ m \in ModalState
        /\ m.saving = IF tasks[t].does = "create" THEN Cleared(t, modal.saving)
                                                  ELSE modal.saving
    BY <1>1, <2>1, <2>2 DEF ModalState
  <2>4. /\ Flagged(t, IdleTask, "create", modal.saving, m.saving)
        /\ Flagged(t, IdleTask, "update", drawer.saving, drawer.saving)
        /\ Flagged(t, IdleTask, "delete", drawer.deleting, drawer.deleting)
    BY <1>2, <2>3, IdleFields DEF Flagged
  <2>5. PICK d \in DrawerState : d = drawer
    BY <1>1
  <2>6. Deliver(t, list, d, m, IdleTask)
    BY <2>1, <2>5
  <2> QED BY <1>1, <1>2, <2>1, <2>3, <2>4, <2>5, <2>6, EndStep
<1>4. CASE Ok(t)
  <2>1. PICK l, d, m, task :
          /\ l = Reloading /\ d = drawer /\ m = modal /\ task = Awaiting(t, "list")
          /\ Deliver(t, l, d, m, task)
          /\ LoadSent(t, tasks[t].view)
          /\ UNCHANGED <<server, removed, haunted>>
    BY <1>4, Zenon DEF OnCreate
  <2>2. /\ l \in ListState /\ l.rows = list.rows /\ l.view = list.view
        /\ l.timer = list.timer /\ l.loading
    BY <1>1, <2>1 DEF Reloading, ListState
  <2>3. "list" \in Call /\ "list" \in Calls[tasks[t].does]
    BY <1>2 DEF Call, Calls
  <2>4. /\ GoesOn(t, task) /\ task \in TaskRecord /\ task.does = tasks[t].does
        /\ task.awaits = "list" /\ task.view = tasks[t].view /\ task.rows = NoRows
    BY <1>2, <2>1, <2>3, AwaitingFields DEF GoesOn
  <2>5. clean' \in BOOLEAN
    BY <2>1 DEF LoadSent
  <2>6. /\ Others(t) /\ SameCall(task, tasks'[t])
        /\ list'.rows = l.rows /\ list'.view = l.view /\ drawer'.loading = d.loading
        /\ ~Visible' \/ (UNCHANGED auth /\ list' = l)
    BY <1>1, <2>1, <2>2, <2>4, DeliverFields
  <2>7. TypeOK' /\ Shapes' /\ SignIns' /\ Forms'
    <3>1. /\ Flagged(t, task, "create", modal.saving, m.saving)
          /\ Flagged(t, task, "update", drawer.saving, d.saving)
          /\ Flagged(t, task, "delete", drawer.deleting, d.deleting)
      BY <1>2, <2>1, <2>4 DEF Flagged
    <3>2. removed' \subseteq App /\ haunted' \subseteq removed'
      BY <1>1, <2>1 DEF TypeOK
    <3>3. \A a \in DOMAIN l.rows : Exists(a)
      BY <1>1, <2>2 DEF Shapes, ShownExist
    <3> QED BY <1>1, <1>2, <2>1, <2>2, <2>4, <2>5, <3>1, <3>2, <3>3, DeliverStep
  <2>8. Opens'
    BY <1>1, <1>2, <2>1, <2>6, OpensStep DEF Others, SameCall
  <2>9. ASSUME NEW u \in Task \ {t}
        PROVE  /\ Loading(u)' <=> Loading(u)
               /\ tasks'[u].rows = tasks[u].rows
    BY <2>6 DEF Others, SameCall, Loading, Running
  <2>10. Loading(t)' /\ tasks'[t].view = tasks[t].view /\ tasks'[t].rows = NoRows
    BY <1>2, <2>4, <2>6 DEF SameCall, Loading, Running
  <2>11. Loads'
    <3>1. clean' => tasks[t].view = list.view /\ \A u \in Task \ {t} : ~Loading(u)
      BY <2>1 DEF LoadSent
    <3> QED BY <2>2, <2>6, <2>9, <2>10, <3>1 DEF Loads, LastLoadCurrent
  <2>12. Ghosts'
    <3>1. \A u \in Task : Loading(u)' =>
               \/ Loading(u) /\ tasks'[u].rows = tasks[u].rows
               \/ \A a \in DOMAIN tasks'[u].rows : a \notin removed
      BY <2>9, <2>10, NoRowsAreRows
    <3> QED BY <1>1, <2>1, <2>2, <2>6, <3>1, SameGrows, GhostsStep
  <2> QED BY <2>7, <2>8, <2>11, <2>12, Parts, PTL
<1> QED BY <1>3, <1>4

\* A handler goes on to ask for the figures; the list keeps its view.
LEMMA StatsStep ==
  ASSUME PageInv, NEW t \in Task, Running(t), ~Loading(t), tasks[t].does \in {"update", "delete"},
         NEW l \in ListState, NEW d \in DrawerState,
         Deliver(t, l, d, modal, Awaiting(t, "stats")),
         UNCHANGED <<server, clean>>, removed' \subseteq App, haunted' \subseteq removed',
         \A a \in DOMAIN l.rows : Exists(a),
         l.view = list.view, l.of = list.of, l.failed = list.failed,
         l.loading = list.loading, l.timer = list.timer,
         d.app = drawer.app \/ Exists(d.app), d.loading = drawer.loading,
         d.saving = drawer.saving, d.deleting = drawer.deleting
  PROVE  /\ TypeOK' /\ Shapes' /\ SignIns' /\ Opens' /\ Forms' /\ Loads'
         /\ list'.rows = l.rows
         /\ \A u \in Task : Loading(u)' => Loading(u) /\ tasks'[u].rows = tasks[u].rows
<1>1. /\ TypeOK /\ Shapes /\ Opens /\ Loads
      /\ modal \in ModalState /\ tasks[t] \in TaskRecord
  BY Parts DEF TypeOK
<1>2. PICK m, task : m = modal /\ task = Awaiting(t, "stats")
  OBVIOUS
<1>3. /\ GoesOn(t, task) /\ task \in TaskRecord /\ task.does = tasks[t].does
      /\ task.awaits = "stats"
  <2>1. "stats" \in Call /\ "stats" \in Calls[tasks[t].does]
    BY DEF Call, Calls
  <2> QED BY <1>1, <1>2, <2>1, AwaitingFields DEF GoesOn
<1>4. Deliver(t, l, d, m, task)
  BY <1>2
<1>5. /\ Others(t) /\ SameCall(task, tasks'[t])
      /\ list'.rows = l.rows /\ list'.view = l.view /\ list'.of = l.of
      /\ list'.failed = l.failed /\ list'.loading = l.loading
      /\ drawer'.loading = d.loading
      /\ ~Visible' \/ (UNCHANGED auth /\ list' = l)
  BY <1>1, <1>2, <1>3, <1>4, DeliverFields
<1>6. TypeOK' /\ Shapes' /\ SignIns' /\ Forms'
  <2>1. /\ Flagged(t, task, "create", modal.saving, m.saving)
        /\ Flagged(t, task, "update", drawer.saving, d.saving)
        /\ Flagged(t, task, "delete", drawer.deleting, d.deleting)
    BY <1>2, <1>3 DEF Flagged
  <2>2. clean' \in BOOLEAN
    BY <1>1 DEF TypeOK
  <2> QED BY <1>1, <1>2, <1>3, <1>4, <2>1, <2>2, DeliverStep
<1>7. Opens'
  BY <1>1, <1>5, OpensStep DEF Others, SameCall
<1>8. Loads' /\ \A u \in Task : Loading(u)' <=> Loading(u)
  BY <1>1, <1>3, <1>5, NoLoadStep
<1>9. \A u \in Task : Loading(u)' => Loading(u) /\ tasks'[u].rows = tasks[u].rows
  BY <1>5, <1>8 DEF Others, SameCall
<1> QED BY <1>5, <1>6, <1>7, <1>8, <1>9

LEMMA OnUpdateInv ==
  ASSUME PageInv, NEW t \in Task, OnUpdate(t)
  PROVE  PageInv'
<1>1. /\ TypeOK /\ Shapes /\ Ghosts /\ ~Loading(t) /\ Running(t)
      /\ list \in ListState /\ drawer \in DrawerState /\ modal \in ModalState
      /\ tasks[t] \in TaskRecord
  BY Parts DEF OnUpdate, Answered, Loading, TypeOK
<1>2. tasks[t].does = "update" /\ TaskShape(t) /\ tasks[t].awaits = "update"
  BY <1>1, AwaitsTells DEF OnUpdate, Answered
<1>3. UNCHANGED <<server, clean, removed, haunted>>
  BY DEF OnUpdate, history
<1>4. CASE ~Ok(t)
  <2>1. PICK d, m : /\ d = [drawer EXCEPT !.saving = Cleared(t, @)] /\ m = modal
                    /\ Deliver(t, list, d, m, IdleTask)
    BY <1>4, Zenon DEF OnUpdate
  <2>2. Cleared(t, drawer.saving) \in BOOLEAN
    BY <1>1 DEF Cleared, DrawerState
  <2>3. /\ d \in DrawerState /\ d.app = drawer.app /\ d.loading = drawer.loading
        /\ d.saving = Cleared(t, drawer.saving) /\ d.deleting = drawer.deleting
    BY <1>1, <2>1, <2>2 DEF DrawerState
  <2>4. /\ Flagged(t, IdleTask, "create", modal.saving, m.saving)
        /\ Flagged(t, IdleTask, "update", drawer.saving, d.saving)
        /\ Flagged(t, IdleTask, "delete", drawer.deleting, d.deleting)
    BY <1>2, <2>1, <2>3, IdleFields DEF Flagged
  <2> QED BY <1>1, <1>2, <1>3, <2>1, <2>3, <2>4, EndStep
<1>5. CASE Ok(t)
  <2>1. PICK a : a = tasks[t].on
    OBVIOUS
  <2>2. PICK rows : rows = [x \in DOMAIN list.rows |->
                               IF x = a THEN tasks[t].rows[a] ELSE list.rows[x]]
    OBVIOUS
  <2>3. PICK l, d : /\ l = [list EXCEPT !.rows = rows] /\ d = [drawer EXCEPT !.app = a]
                    /\ Deliver(t, l, d, modal, Awaiting(t, "stats"))
    BY <1>5, <2>1, <2>2, Zenon DEF OnUpdate
  <2>4. Exists(a) /\ a \in App /\ DOMAIN tasks[t].rows = {a}
    BY <1>2, <1>5, <2>1 DEF TaskShape, Ok, Exists
  <2>5. tasks[t].rows[a] \in Status
    BY <1>1, <2>4 DEF TaskRecord, Rows
  <2>6. PICK S \in SUBSET App : list.rows \in [S -> Status] /\ DOMAIN list.rows = S
    BY <1>1 DEF ListState, Rows
  <2>7. rows \in [S -> Status] /\ DOMAIN rows = DOMAIN list.rows
    BY <2>2, <2>5, <2>6
  <2>8. rows \in Rows
    BY <2>6, <2>7 DEF Rows
  <2>9. /\ l \in ListState /\ l.view = list.view /\ l.of = list.of
        /\ l.failed = list.failed /\ l.loading = list.loading /\ l.timer = list.timer
        /\ l.rows = rows
    BY <1>1, <2>3, <2>8 DEF ListState
  <2>10. /\ d \in DrawerState /\ d.app = a /\ d.loading = drawer.loading
         /\ d.saving = drawer.saving /\ d.deleting = drawer.deleting
    BY <1>1, <2>3, <2>4 DEF DrawerState
  <2>11. \A x \in DOMAIN l.rows : Exists(x)
    BY <1>1, <2>7, <2>9 DEF Shapes, ShownExist
  <2>12. removed' \subseteq App /\ haunted' \subseteq removed'
    BY <1>1, <1>3 DEF TypeOK
  <2>13. /\ TypeOK' /\ Shapes' /\ SignIns' /\ Opens' /\ Forms' /\ Loads'
         /\ list'.rows = l.rows
         /\ \A u \in Task : Loading(u)' => Loading(u) /\ tasks'[u].rows = tasks[u].rows
    BY <1>1, <1>2, <1>3, <2>3, <2>4, <2>9, <2>10, <2>11, <2>12, StatsStep
  <2>14. Ghosts'
    BY <1>1, <1>3, <2>7, <2>9, <2>13, SameGrows, GhostsStep
  <2> QED BY <2>13, <2>14, Parts, PTL
<1> QED BY <1>4, <1>5

\* A deleted row leaves the table; lists under way that hold it are remembered.
LEMMA OnDeleteInv ==
  ASSUME PageInv, NEW t \in Task, OnDelete(t)
  PROVE  PageInv'
<1>1. /\ TypeOK /\ Shapes /\ Ghosts /\ ~Loading(t) /\ Running(t)
      /\ list \in ListState /\ drawer \in DrawerState /\ modal \in ModalState
      /\ tasks[t] \in TaskRecord
  BY Parts DEF OnDelete, Answered, Loading, TypeOK
<1>2. tasks[t].does = "delete" /\ TaskShape(t) /\ tasks[t].awaits = "delete"
  BY <1>1, AwaitsTells DEF OnDelete, Answered
<1>3. UNCHANGED <<server, clean>>
  BY DEF OnDelete
<1>4. CASE ~Ok(t)
  <2>1. PICK d, m : /\ d = [drawer EXCEPT !.deleting = Cleared(t, @)] /\ m = modal
                    /\ Deliver(t, list, d, m, IdleTask)
                    /\ UNCHANGED <<removed, haunted>>
    BY <1>4, Zenon DEF OnDelete
  <2>2. Cleared(t, drawer.deleting) \in BOOLEAN
    BY <1>1 DEF Cleared, DrawerState
  <2>3. /\ d \in DrawerState /\ d.app = drawer.app /\ d.loading = drawer.loading
        /\ d.deleting = Cleared(t, drawer.deleting) /\ d.saving = drawer.saving
    BY <1>1, <2>1, <2>2 DEF DrawerState
  <2>4. /\ Flagged(t, IdleTask, "create", modal.saving, m.saving)
        /\ Flagged(t, IdleTask, "update", drawer.saving, d.saving)
        /\ Flagged(t, IdleTask, "delete", drawer.deleting, d.deleting)
    BY <1>2, <2>1, <2>3, IdleFields DEF Flagged
  <2> QED BY <1>1, <1>2, <1>3, <2>1, <2>3, <2>4, EndStep
<1>5. CASE Ok(t)
  <2>1. PICK a : a = tasks[t].on
    OBVIOUS
  <2>2. PICK rows : rows = Restrict(list.rows, DOMAIN list.rows \ {a})
    OBVIOUS
  <2>3. PICK l, d : /\ l = [list EXCEPT !.rows = rows] /\ d = drawer
                    /\ Deliver(t, l, d, modal, Awaiting(t, "stats"))
                    /\ removed' = removed \cup {a}
                    /\ haunted' = IF \E u \in Task : Loading(u) /\ a \in DOMAIN tasks[u].rows
                                  THEN haunted \cup {a} ELSE haunted
    BY <1>5, <2>1, <2>2, Zenon DEF OnDelete
  <2>4. Exists(a) /\ a \in App /\ Gone(a)
    BY <1>2, <1>5, <2>1 DEF TaskShape, Ok, Exists
  <2>5. PICK S \in SUBSET App : list.rows \in [S -> Status] /\ DOMAIN list.rows = S
    BY <1>1 DEF ListState, Rows
  <2>6. rows \in [S \ {a} -> Status] /\ DOMAIN rows = DOMAIN list.rows \ {a}
    BY <2>2, <2>5 DEF Restrict
  <2>7. rows \in Rows
    BY <2>5, <2>6 DEF Rows
  <2>8. /\ l \in ListState /\ l.view = list.view /\ l.of = list.of
        /\ l.failed = list.failed /\ l.loading = list.loading /\ l.timer = list.timer
        /\ l.rows = rows
    BY <1>1, <2>3, <2>7 DEF ListState
  <2>9. \A x \in DOMAIN l.rows : Exists(x)
    BY <1>1, <2>6, <2>8 DEF Shapes, ShownExist
  <2>10. removed' \subseteq App /\ haunted' \subseteq removed' /\ haunted \subseteq haunted'
    BY <1>1, <2>3, <2>4 DEF TypeOK
  <2>11. /\ TypeOK' /\ Shapes' /\ SignIns' /\ Opens' /\ Forms' /\ Loads'
         /\ list'.rows = l.rows
         /\ \A u \in Task : Loading(u)' => Loading(u) /\ tasks'[u].rows = tasks[u].rows
    BY <1>1, <1>2, <1>3, <2>3, <2>8, <2>9, <2>10, StatsStep
  <2>12. Ghosts'
    <3>1. \A x \in removed' : Gone(x)'
      BY <1>1, <1>3, <2>3, <2>4 DEF Ghosts, GhostsKnown, Gone, Exists
    <3>2. ASSUME NEW u \in Task, Loading(u)'
          PROVE  removed' \cap DOMAIN tasks'[u].rows \subseteq haunted'
      <4>1. Loading(u) /\ tasks'[u].rows = tasks[u].rows
        BY <2>11, <3>2
      <4>2. removed \cap DOMAIN tasks[u].rows \subseteq haunted
        BY <1>1, <4>1 DEF Ghosts, GhostsKnown
      <4> QED BY <2>3, <4>1, <4>2
    <3>3. removed' \cap DOMAIN list'.rows \subseteq haunted'
      BY <1>1, <2>3, <2>6, <2>8, <2>10, <2>11 DEF Ghosts, GhostsAreRaced
    <3> QED BY <3>1, <3>2, <3>3 DEF Ghosts, GhostsKnown, GhostsAreRaced
  <2> QED BY <2>11, <2>12, Parts, PTL
<1> QED BY <1>4, <1>5

\* A handler of no form goes on outside of the tracker.
LEMMA GateStep ==
  ASSUME PageInv, NEW t \in Task, Running(t), ~Loading(t),
         tasks[t].does \in {"signin", "signout"}, NEW task, GoesOn(t, task),
         Others(t), SameCall(task, tasks'[t]),
         UNCHANGED <<server, clean, removed, haunted>>,
         list'.rows = list.rows, drawer'.app = drawer.app, drawer'.loading = drawer.loading
  PROVE  Shapes' /\ Opens' /\ Ghosts'
<1>1. TypeOK /\ Shapes /\ Opens /\ Ghosts
  BY Parts
<1>2. /\ task.awaits \in Calls[task.does]
      /\ task.reply = "none" /\ task.rows = NoRows
      /\ task.does \in {"idle", "signin", "signout"}
  BY <1>1, GoesOnFields
<1>3. Shapes'
  <2>1. TaskShape(t)'
    BY <1>2, NoRowsAreRows DEF TaskShape, SameCall
  <2>2. \A a \in DOMAIN list'.rows : Exists(a)'
    BY <1>1 DEF Shapes, ShownExist, Exists
  <2> QED BY <1>1, <2>1, <2>2, SameGrows, ShapesStep
<1>4. Opens'
  BY <1>1, OpensStep DEF Others, SameCall
<1>5. Ghosts'
  <2>1. tasks'[t].rows = NoRows
    BY <1>2 DEF SameCall
  <2>2. \A u \in Task \ {t} : /\ tasks'[u].rows = tasks[u].rows
                              /\ Loading(u)' <=> Loading(u)
    BY DEF Others, SameCall, Loading, Running
  <2> QED BY <1>1, <2>1, <2>2, NoRowsAreRows, SameGrows, GhostsStep
<1> QED BY <1>3, <1>4, <1>5

\* The page knows its user, or asks for a sign-in.
LEMMA OnMeInv ==
  ASSUME PageInv, NEW t \in Task, OnMe(t)
  PROVE  PageInv'
<1>1. /\ TypeOK /\ Shapes /\ SignIns /\ Forms /\ ~Loading(t) /\ Running(t)
      /\ auth \in AuthState /\ list \in ListState
  BY Parts DEF OnMe, Answered, Loading, TypeOK
<1>2. tasks[t].does = "signin" /\ tasks[t].awaits = "me"
  BY <1>1, AwaitsTells DEF OnMe, Answered
<1>3. /\ auth' \in AuthState /\ ~auth'.loading
  BY <1>1 DEF OnMe, AuthState, Ok
<1>4. /\ list' \in ListState /\ list'.rows = list.rows
      /\ list'.timer <=> ~auth'.needsLogin
  BY <1>1, <1>3 DEF OnMe, ListState, AuthState
<1>5. /\ tasks' \in [Task -> TaskRecord] /\ tasks'[t] = IdleTask
      /\ \A u \in Task \ {t} : tasks'[u] = tasks[u]
      /\ Others(t) /\ SameCall(IdleTask, tasks'[t])
  BY <1>1, IdleFields DEF OnMe, TypeOK, Others, SameCall
<1>6. UNCHANGED <<server, drawer, modal, clean, removed, haunted>>
  BY DEF OnMe, history
<1>7. TypeOK'
  BY <1>1, <1>3, <1>4, <1>5, <1>6 DEF TypeOK
<1>8. Shapes' /\ Opens' /\ Ghosts'
  <2>1. GoesOn(t, IdleTask)
    BY DEF GoesOn
  <2> QED BY <1>1, <1>2, <1>4, <1>5, <1>6, <2>1, GateStep
<1>9. SignIns'
  <2>1. \A u \in Task : tasks'[u].does # "signin"
    BY <1>1, <1>2, <1>5, IdleFields DEF SignIns, OneSignIn
  <2> QED BY <1>3, <2>1 DEF SignIns, OneSignIn
<1>10. Forms'
  BY <1>1, <1>2, <1>5, <1>6, IdleFields, FormsStay DEF Form
<1>11. Loads'
  BY <1>4, LoadsAhead DEF Visible
<1> QED BY <1>7, <1>8, <1>9, <1>10, <1>11, Parts, PTL

\* A link was used: if it was good, the page asks who its user is.
LEMMA OnVerifyInv ==
  ASSUME PageInv, NEW t \in Task, OnVerify(t)
  PROVE  PageInv'
<1>1. /\ TypeOK /\ Shapes /\ SignIns /\ Forms /\ ~Loading(t) /\ Running(t)
      /\ auth \in AuthState /\ tasks[t] \in TaskRecord
  BY Parts DEF OnVerify, Answered, Loading, TypeOK
<1>2. tasks[t].does = "signin" /\ tasks[t].awaits = "verify"
  BY <1>1, AwaitsTells DEF OnVerify, Answered
<1>3. auth.needsLogin
  BY <1>1, <1>2 DEF SignIns, OneSignIn
<1>4. /\ auth' \in AuthState /\ (auth'.loading <=> Ok(t))
      /\ auth'.needsLogin /\ auth'.link = auth.link
  BY <1>1, <1>3 DEF OnVerify, AuthState, Ok
<1>5. ~auth.loading /\ ~auth.link /\ \A u \in Task \ {t} : tasks[u].does # "signin"
  BY <1>1, <1>2 DEF SignIns, OneSignIn
<1>6. PICK task : /\ task = IF Ok(t) THEN Awaiting(t, "me") ELSE IdleTask
                  /\ tasks' = [tasks EXCEPT ![t] = task]
  BY Zenon DEF OnVerify
<1>7. /\ GoesOn(t, task) /\ task \in TaskRecord
      /\ IF Ok(t) THEN task.does = "signin" /\ task.awaits = "me"
                  ELSE task.does = "idle" /\ task.awaits = "me"
  <2>1. "me" \in Call /\ "me" \in Calls[tasks[t].does]
    BY <1>2 DEF Call, Calls
  <2> QED BY <1>1, <1>2, <1>6, <2>1, IdleFields, AwaitingFields DEF GoesOn
<1>8. /\ tasks' \in [Task -> TaskRecord] /\ tasks'[t] = task
      /\ \A u \in Task \ {t} : tasks'[u] = tasks[u]
      /\ Others(t) /\ SameCall(task, tasks'[t])
  BY <1>1, <1>6, <1>7 DEF TypeOK, Others, SameCall
<1>9. UNCHANGED <<server, list, drawer, modal, clean, removed, haunted>>
  BY DEF OnVerify, history
<1>10. TypeOK'
  BY <1>1, <1>4, <1>8, <1>9 DEF TypeOK
<1>11. Shapes' /\ Opens' /\ Ghosts'
  BY <1>1, <1>2, <1>7, <1>8, <1>9, GateStep
<1>12. SignIns'
  BY <1>4, <1>5, <1>7, <1>8 DEF SignIns, OneSignIn
<1>13. Forms'
  BY <1>1, <1>2, <1>7, <1>8, <1>9, FormsStay DEF Form
<1>14. Loads'
  BY <1>4, LoadsAhead DEF Visible
<1> QED BY <1>10, <1>11, <1>12, <1>13, <1>14, Parts, PTL

LEMMA OnLogoutInv ==
  ASSUME PageInv, NEW t \in Task, OnLogout(t)
  PROVE  PageInv'
<1> DEFINE ts == [tasks EXCEPT ![t] = IdleTask]
<1>1. /\ TypeOK /\ Shapes /\ SignIns /\ ~Loading(t) /\ Running(t)
      /\ auth \in AuthState /\ list \in ListState
      /\ drawer \in DrawerState /\ modal \in ModalState
  BY Parts DEF OnLogout, Answered, Loading, TypeOK
<1>2. tasks[t].does = "signout"
  BY <1>1, AwaitsTells DEF OnLogout, Answered
<1>3. /\ auth' \in AuthState /\ auth'.needsLogin
      /\ auth'.loading = auth.loading /\ auth'.link = auth.link
  BY <1>1 DEF OnLogout, AuthState
<1>4. list' \in ListState /\ list'.rows = list.rows
  BY <1>1 DEF OnLogout, ListState
<1>5. /\ drawer' \in DrawerState /\ drawer'.app = drawer.app
      /\ drawer'.loading = drawer.loading
      /\ ~drawer'.saving /\ ~drawer'.deleting
      /\ modal' \in ModalState /\ ~modal'.saving
  BY <1>1 DEF OnLogout, FreshDrawer, DrawerState, FreshModal, ModalState
<1>6. /\ ts \in [Task -> TaskRecord] /\ ts[t] = IdleTask
      /\ \A u \in Task \ {t} : ts[u] = tasks[u]
  BY <1>1, IdleFields DEF TypeOK
<1>7. tasks' = Unmounted(ts)
  BY DEF OnLogout
<1> HIDE DEF ts
<1>8. /\ tasks' \in [Task -> TaskRecord]
      /\ Others(t) /\ SameCall(IdleTask, tasks'[t])
      /\ \A u \in Task : tasks'[u].does \in Form => ~tasks'[u].mounted
  BY <1>6, <1>7, UnmountedFields DEF Others
<1>9. UNCHANGED <<server, clean, removed, haunted>>
  BY DEF OnLogout, history
<1>10. TypeOK'
  BY <1>1, <1>3, <1>4, <1>5, <1>8, <1>9 DEF TypeOK
<1>11. Shapes' /\ Opens' /\ Ghosts'
  <2>1. GoesOn(t, IdleTask)
    BY DEF GoesOn
  <2> QED BY <1>1, <1>2, <1>4, <1>5, <1>8, <1>9, <2>1, GateStep
<1>12. SignIns'
  BY <1>1, <1>2, <1>3, <1>8, IdleFields, SignInsStep DEF Others, SameCall
<1>13. Forms'
  BY <1>5, <1>8, FormsLeftStep DEF FormsLeft
<1>14. Loads'
  BY <1>3, LoadsAhead DEF Visible
<1> QED BY <1>10, <1>11, <1>12, <1>13, <1>14, Parts, PTL

-----------------------------------------------------------------------------
(* The theorems *)

\* Nothing happens.
LEMMA StutterInv == PageInv /\ UNCHANGED vars => PageInv'
<1> SUFFICES ASSUME PageInv, UNCHANGED vars PROVE PageInv'
  OBVIOUS
<1>1. UNCHANGED <<server, auth, list, drawer, modal, tasks, clean, removed, haunted>>
  BY DEF vars
<1>2. TypeOK /\ Forms /\ Loads
  BY Parts
<1>3. TypeOK'
  BY <1>1, <1>2 DEF TypeOK
<1>4. Shapes' /\ SignIns' /\ Opens' /\ Ghosts' /\ \A u \in Task : Loading(u)' <=> Loading(u)
  BY <1>1, SameGrows, StillStep DEF SameCall
<1>5. Forms' /\ Loads'
  BY <1>1, <1>2, <1>4, FormsStay, LoadsStep DEF Visible
<1> QED BY <1>3, <1>4, <1>5, Parts, PTL

LEMMA PageInvNext == PageInv /\ [Next]_vars => PageInv'
<1> SUFFICES ASSUME PageInv, Next PROVE PageInv'
  BY StutterInv
<1>1. ASSUME NEW t \in Task, Serve(t) \/ Answer(t)
      PROVE  PageInv'
  BY <1>1, ServeInv, OnListInv, OnStatsInv, OnCreateInv, OnUpdateInv, OnDeleteInv,
     OnHistoryInv, OnMeInv, OnVerifyInv, OnLogoutInv DEF Answer
<1>2. ASSUME NEW t \in Task, TimerFires(t) \/ Delete(t) \/ SignOut(t) \/ UseLink(t)
      PROVE  PageInv'
  BY <1>2, TimerFiresInv, DeleteInv, SignOutInv, UseLinkInv
<1>3. ASSUME NEW t \in Task, NEW s \in Status, Save(t, s) \/ Submit(t, s) \/ Generate(t, s)
      PROVE  PageInv'
  BY <1>3, SaveInv, SubmitInv, GenerateInv
<1>4. ASSUME NEW t \in Task, NEW a \in App, RowClick(t, a) PROVE PageInv'
  BY <1>4, RowClickInv
<1>5. ASSUME NEW t \in Task, NEW l \in BOOLEAN, Reload(t, l) PROVE PageInv'
  BY <1>5, ReloadInv
<1>6. ASSUME NEW v \in View, ChangeView(v) PROVE PageInv'
  BY <1>6, ChangeViewInv
<1>7. ASSUME NEW a \in App, NEW row \in Row, OtherWriter(a, row) PROVE PageInv'
  BY <1>7, OtherWriterInv
<1>8. CASE CloseDrawer \/ ToggleModal \/ SwitchTab
  BY <1>8, CloseDrawerInv, ToggleModalInv, SwitchTabInv
<1> QED BY <1>1, <1>2, <1>3, <1>4, <1>5, <1>6, <1>7, <1>8 DEF Next

\* The invariant holds in every reachable state.
THEOREM PageInvariance == Spec => []PageInv
BY PageInvInit, PageInvNext, PTL DEF Spec

\* Every variable keeps its type.
THEOREM TypeCorrect == Spec => []TypeOK
<1>1. PageInv => TypeOK
  BY DEF PageInv
<1> QED BY <1>1, PageInvariance, PTL

\* With any number of answers under way, the table is of the view its filters
\* show, unless the last request for it was raced (App.jsx loadData).
THEOREM ListStaysCurrent == Spec => []ListIsCurrent
<1>1. PageInv => ListIsCurrent
  BY DEF PageInv, LastLoadCurrent, ListIsCurrent
<1> QED BY <1>1, PageInvariance, PTL

\* A deleted row comes back only out of an answer that was under way
\* (App.jsx handleDelete).
THEOREM GhostsComeFromRaces == Spec => []GhostsAreRaced
<1>1. PageInv => GhostsAreRaced
  BY DEF PageInv
<1> QED BY <1>1, PageInvariance, PTL

\* A spinner or a disabled button has a handler behind it, whatever fails and
\* whatever is unmounted (the `finally' blocks of App.jsx, Drawer.jsx,
\* AppModal.jsx and auth.jsx).
THEOREM EverySpinnerEnds == Spec => []SpinnersEnd
<1>1. PageInv => SpinnersEnd
  BY DEF PageInv
<1> QED BY <1>1, PageInvariance, PTL

\* However many handlers there are, no form has two of them (the `saving' and
\* `deleting' flags of Drawer.jsx and AppModal.jsx).
THEOREM FormsSubmitOnce == Spec => []NoDoubleSubmit
<1>1. PageInv => NoDoubleSubmit
  BY DEF PageInv
<1> QED BY <1>1, PageInvariance, PTL
=============================================================================
