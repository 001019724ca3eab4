------------------------------- MODULE Listing -------------------------------
(***************************************************************************)
(* Reading an owner's applications while they are written: a client that   *)
(* goes through the pages of GET /applications, and GET /applications/stats *)
(* (services/application_service.py get_applications, get_stats).  Under   *)
(* READ COMMITTED each statement sees what is committed when it runs: the  *)
(* total and the page of one answer are two statements, the figures of the *)
(* statistics are three.                                                   *)
(***************************************************************************)
EXTENDS Integers, Sequences, FiniteSets, SequencesExt

CONSTANTS
    App,      \* application ids
    Client,   \* clients; each makes one round of requests
    Filter,   \* ApplicationFilters: the sources to show, and include_deleted
    Limit,    \* rows of a page
    WeekDays, \* days of a week; day 0 is a Monday
    Weeks,    \* weeks of the trend
    Today,
    Day,      \* the days of the applications
    MaxWrites \* bound on the commits while clients read

ASSUME AppAssumption == IsFiniteSet(App)
ASSUME LimitAssumption == Limit \in Nat \ {0}
ASSUME WeekAssumption == WeekDays \in Nat \ {0} /\ Weeks \in Nat \ {0}
ASSUME DayAssumption == Today \in Nat /\ Day \subseteq 0..Today /\ Day # {}
ASSUME MaxWritesAssumption == MaxWrites \in Nat

Source == {"manual", "resume_generator"}

\* The columns of job_applications that a listing or a figure looks at;
\* `day' is applied_date, which is never in the future.
Row == [stored: BOOLEAN, deleted: BOOLEAN, day: Day, source: Source]

NoApp == [stored |-> FALSE, deleted |-> FALSE, day |-> CHOOSE d \in Day : TRUE,
          source |-> "manual"]

AnyFilter == [source |-> Source, deleted |-> FALSE]

ASSUME FilterAssumption == AnyFilter \in Filter

Phase == {"idle", "counting", "paging", "breakdown", "trend", "done"}

Kind == {"none", "list", "stats", "refused", "failed"}

\* A client's round.  Of a listing: the page it asks for, the total of the last
\* answer, the rows it was shown.  Of the statistics: the figures.
Reader == [pc: Phase, kind: Kind, filter: Filter, page: Nat, total: Nat, seen: Seq(App),
           manual: Nat, generated: Nat, weekly: [0..(Today \div WeekDays) -> Nat]]

IdleReader == [pc |-> "idle", kind |-> "none", filter |-> AnyFilter, page |-> 1, total |-> 0,
               seen |-> <<>>, manual |-> 0, generated |-> 0,
               weekly |-> [w \in 0..(Today \div WeekDays) |-> 0]]

\* History of a round: rows listed and unmoved since it began, whether one
\* came into the listing, left it, came since the last count, whether two
\* shared a sort key, and the commits during the statistics.
Past == [stayed: SUBSET App, came: BOOLEAN, left: BOOLEAN, late: BOOLEAN,
         tied: BOOLEAN, during: Nat]

NoPast == [stayed |-> {}, came |-> FALSE, left |-> FALSE, late |-> FALSE,
           tied |-> FALSE, during |-> 0]

VARIABLES
    apps,   \* committed job_applications of the owner
    writes, \* commits so far
    reader, \* the clients' rounds
    past    \* history of each round

vars == <<apps, writes, reader, past>>

Init ==
    /\ apps \in [App -> {NoApp} \cup {row \in Row : row.stored /\ ~row.deleted}]
    /\ writes = 0
    /\ reader = [c \in Client |-> IdleReader]
    /\ past = [c \in Client |-> NoPast]

-----------------------------------------------------------------------------
(* The queries *)

\* The WHERE clause of get_applications.
Matches(row, f) ==
    row.stored /\ row.source \in f.source /\ (row.deleted => f.deleted)

Listed(rows, f) == {a \in App : Matches(rows[a], f)}

Matching(f) == Listed(apps, f)

Tied(f) == \E a, b \in Matching(f) : a # b /\ apps[a].day = apps[b].day

\* ORDER BY applied_date DESC: rows that tie come in any order.
Orders(f) ==
    {s \in SetToSeqs(Matching(f)) :
        \A i, j \in 1..Len(s) : i < j => apps[s[i]].day >= apps[s[j]].day}

\* Variant: the offset of the page after.
OffsetNext(page) == page * Limit

Offset(page) == (page - 1) * Limit

\* OFFSET and LIMIT
PageOf(s, page) == SubSeq(s, Offset(page) + 1, Min({Offset(page) + Limit, Len(s)}))

\* math.ceil(total / limit)
TotalPages(total) == (total + Limit - 1) \div Limit

\* base_where of get_stats
Counted == Matching(AnyFilter)

CountedFrom(source) == Cardinality({a \in Counted : apps[a].source = source})

\* Variant: the whole of the weeks is subtracted, and one week too many shown.
TrendSinceEarlier == Today - Weeks * WeekDays

\* today - timedelta(weeks=11)
TrendSince == Today - (Weeks - 1) * WeekDays

\* date_trunc('week', applied_date), as the number of the week
WeekOf(day) == day \div WeekDays

\* The weekly trend; a week without a row is not in the answer, here 0.
WeeklyTrend ==
    [w \in 0..WeekOf(Today) |->
        Cardinality({a \in Counted : apps[a].day >= TrendSince /\ WeekOf(apps[a].day) = w})]

-----------------------------------------------------------------------------
(* GET /applications *)

\* _parse_filters lets the request through.
OpenList(c, f) ==
    /\ reader[c].pc = "idle"
    /\ reader' = [reader EXCEPT ![c].pc = "counting", ![c].kind = "list",
                                ![c].filter = f]
    /\ UNCHANGED <<apps, writes, past>>

\* _parse_filters, or the bounds on page and limit: answered with 422.
RefuseList(c) ==
    /\ reader[c].pc = "idle"
    /\ reader' = [reader EXCEPT ![c].pc = "done", ![c].kind = "refused"]
    /\ UNCHANGED <<apps, writes, past>>

\* The first statement: the total.
CountRows(c) ==
    LET f == reader[c].filter
    IN  /\ reader[c].pc = "counting"
        /\ reader' = [reader EXCEPT ![c].pc = "paging",
                                    ![c].total = Cardinality(Matching(f))]
        /\ past' = IF reader[c].page = 1
                   THEN [past EXCEPT ![c] = [NoPast EXCEPT !.stayed = Matching(f)]]
                   ELSE [past EXCEPT ![c].late = FALSE]
        /\ UNCHANGED <<apps, writes>>

\* Pagination.jsx: the next page is asked for while there is one.
NextPage(c) ==
    IF reader[c].page < TotalPages(reader[c].total)
    THEN [pc |-> "counting", page |-> reader[c].page + 1]
    ELSE [pc |-> "done", page |-> reader[c].page]

\* The second statement, the answer, and the client's next request.
FetchPage(c) ==
    /\ reader[c].pc = "paging"
    /\ \E s \in Orders(reader[c].filter) :
          reader' = [reader EXCEPT ![c].pc = NextPage(c).pc,
                                   ![c].page = NextPage(c).page,
                                   ![c].seen = @ \o PageOf(s, reader[c].page)]
    /\ past' = [past EXCEPT ![c].tied = @ \/ Tied(reader[c].filter)]
    /\ UNCHANGED <<apps, writes>>

-----------------------------------------------------------------------------
(* GET /applications/stats *)

\* The first statement: the headline counts.
Headline(c) ==
    /\ reader[c].pc = "idle"
    /\ reader' = [reader EXCEPT ![c].pc = "breakdown", ![c].kind = "stats",
                                ![c].total = Cardinality(Counted)]
    /\ UNCHANGED <<apps, writes, past>>

\* The second: the breakdown by source.
Breakdown(c) ==
    /\ reader[c].pc = "breakdown"
    /\ reader' = [reader EXCEPT ![c].pc = "trend",
                                ![c].manual = CountedFrom("manual"),
                                ![c].generated = CountedFrom("resume_generator")]
    /\ UNCHANGED <<apps, writes, past>>

\* The third, and the answer.
Trend(c) ==
    /\ reader[c].pc = "trend"
    /\ reader' = [reader EXCEPT ![c].pc = "done", ![c].weekly = WeeklyTrend]
    /\ UNCHANGED <<apps, writes, past>>

\* A statement fails, or the process dies: the round ends without its answer.
Fail(c) ==
    /\ reader[c].pc \notin {"idle", "done"}
    /\ reader' = [reader EXCEPT ![c].pc = "done", ![c].kind = "failed"]
    /\ UNCHANGED <<apps, writes, past>>

-----------------------------------------------------------------------------
(* The writers, as the commits of module Applications *)

\* A commit that turns row a into `row', seen by the rounds under way.
Store(a, row) ==
    LET entered(c) == /\ Matches(row, reader[c].filter)
                      /\ Matches(apps[a], reader[c].filter) => row.day # apps[a].day
        gone(c) == /\ Matches(apps[a], reader[c].filter)
                   /\ Matches(row, reader[c].filter) => row.day # apps[a].day
        lists == {c \in Client : reader[c].pc \in {"counting", "paging"}}
        counts == {c \in Client : reader[c].pc \in {"breakdown", "trend"}}
    IN  /\ writes < MaxWrites
        /\ writes' = writes + 1
        /\ apps' = [apps EXCEPT ![a] = row]
        /\ past' = [c \in Client |->
                IF c \in lists
                THEN [past[c] EXCEPT
                        !.stayed = IF gone(c) THEN @ \ {a} ELSE @,
                        !.came = @ \/ entered(c),
                        !.late = @ \/ entered(c),
                        !.left = @ \/ gone(c)]
                ELSE IF c \in counts THEN [past[c] EXCEPT !.during = @ + 1]
                ELSE past[c]]
        /\ UNCHANGED reader

\* A POST commits.
Insert(a, row) ==
    /\ ~apps[a].stored
    /\ row.stored /\ ~row.deleted
    /\ Store(a, row)

\* A PATCH commits a new applied_date or source.
Change(a, day, source) ==
    LET row == [apps[a] EXCEPT !.day = day, !.source = source]
    IN  apps[a].stored /\ row # apps[a] /\ Store(a, row)

\* A DELETE commits: a soft deletion.
SoftDelete(a) ==
    /\ apps[a].stored /\ ~apps[a].deleted
    /\ Store(a, [apps[a] EXCEPT !.deleted = TRUE])

-----------------------------------------------------------------------------

Start(c) == RefuseList(c) \/ Headline(c) \/ \E f \in Filter : OpenList(c, f)

Read(c) == CountRows(c) \/ FetchPage(c) \/ Breakdown(c) \/ Trend(c) \/ Fail(c)

Writer ==
    \E a \in App :
        \/ \E row \in Row : Insert(a, row)
        \/ \E day \in Day, source \in Source : Change(a, day, source)
        \/ SoftDelete(a)

Quiet == (\A c \in Client : reader[c].pc = "done") /\ UNCHANGED vars

Next == Quiet \/ Writer \/ \E c \in Client : Start(c) \/ Read(c)

Spec == Init /\ [][Next]_vars

-----------------------------------------------------------------------------
(* Properties *)

TypeOK ==
    /\ apps \in [App -> Row]
    /\ writes \in 0..MaxWrites
    /\ reader \in [Client -> Reader]
    /\ past \in [Client -> Past]

\* What a round that went through all pages was shown.
RowsShown(x, p) ==
    LET shown == ToSet(x.seen)
        twice == {a \in shown : \E i, j \in 1..Len(x.seen) :
                    i # j /\ x.seen[i] = a /\ x.seen[j] = a}
    IN  /\ p.stayed \subseteq shown \/ p.left \/ p.late
        /\ twice \cap p.stayed = {} \/ p.came
        /\ shown \subseteq p.stayed \/ p.came \/ p.left

\* Going through the pages while others write shows each row that stays in the
\* listing, and once: one is missed only if a row left the listing meanwhile or
\* came between the count and the page of the last answer, one is repeated only
\* if a row came.  Rows that tie in the sort column are not so lucky.
PagesComplete ==
    \A c \in Client :
        (reader[c].kind = "list" /\ reader[c].pc = "done" /\ ~past[c].tied) =>
            RowsShown(reader[c], past[c])

\* The bars of the weekly trend: one pair for each row that is shown.
Bars(weekly) == UNION {{w} \X (1..weekly[w]) : w \in DOMAIN weekly}

\* The figures of one answer, with the commits between its statements.
FiguresNear(x, p) ==
    LET bySource == x.manual + x.generated
    IN  /\ bySource - x.total \in -p.during..p.during
        /\ Cardinality(Bars(x.weekly)) <= x.total + p.during
        /\ \A w \in DOMAIN x.weekly : x.weekly[w] > 0 => WeekOf(Today) - w < Weeks

\* The figures of one answer come from three statements: the breakdown by source
\* and the weekly trend differ from the total by at most the commits between
\* them, and the trend covers no more than its weeks.
FiguresAgree ==
    \A c \in Client :
        (reader[c].kind = "stats" /\ reader[c].pc = "done") =>
            FiguresNear(reader[c], past[c])

-----------------------------------------------------------------------------
(* What is inductive, of a round x with its history p over the rows *)

\* The rows listed before row a; in an order without ties, their number is the
\* offset of row a.
Ahead(rows, f, a) == {b \in Listed(rows, f) : rows[b].day > rows[a].day}

\* The first count of the listing has been made.
Began(x) == x.pc = "paging" \/ x.page > 1

RoundShape(x, p) ==
    /\ x.page >= 1
    /\ x.pc = "idle" => x.kind = "none" /\ p = NoPast
    /\ x.pc \in {"counting", "paging"} => x.kind = "list"
    /\ x.pc \in {"breakdown", "trend"} => x.kind = "stats"
    /\ x.kind = "refused" => x.pc = "done"
    /\ x.kind \in {"none", "stats", "refused"} => x.page = 1
    /\ x.pc # "done" /\ x.page = 1 => x.seen = <<>>
    /\ x.pc = "counting" /\ x.page = 1 => p.stayed = {}

\* While the rows of a listing only arrive, a row that stays moves back: what
\* was not shown is still ahead.  While they only leave, it moves forward: what
\* was shown stays behind.
PagesSoFar(x, p, rows) ==
    LET f == x.filter
        shown == ToSet(x.seen)
        offset(a) == Cardinality(Ahead(rows, f, a))
    IN  /\ p.stayed \subseteq Listed(rows, f)
        /\ Began(x) => Listed(rows, f) \subseteq p.stayed \/ p.came \/ p.left
        /\ shown \subseteq p.stayed \/ p.came \/ p.left
        /\ ~p.left /\ ~p.tied => \A a \in p.stayed \ shown : offset(a) >= Offset(x.page)
        /\ ~p.came /\ ~p.tied => \A a \in p.stayed \cap shown : offset(a) < Offset(x.page)
        /\ ~p.came /\ ~p.tied =>
              \A i, j \in 1..Len(x.seen) :
                 x.seen[i] \in p.stayed /\ x.seen[i] = x.seen[j] => i = j
        /\ x.pc = "paging" /\ ~p.late => Cardinality(Listed(rows, f)) <= x.total

\* Each commit since the headline moves the count by one at most.
FiguresSoFar(x, p, rows) ==
    /\ Cardinality(Listed(rows, AnyFilter)) - x.total \in -p.during..p.during
    /\ x.pc = "trend" => (x.manual + x.generated) - x.total \in -p.during..p.during

RoundInv(x, p, rows) ==
    /\ RoundShape(x, p)
    /\ x.pc \in {"counting", "paging"} => PagesSoFar(x, p, rows)
    /\ x.pc \in {"breakdown", "trend"} => FiguresSoFar(x, p, rows)
    /\ x.kind = "list" /\ x.pc = "done" /\ ~p.tied => RowsShown(x, p)
    /\ x.kind = "stats" /\ x.pc = "done" => FiguresNear(x, p)

ReadInv ==
    /\ TypeOK
    /\ \A c \in Client : RoundInv(reader[c], past[c], apps)
=============================================================================
