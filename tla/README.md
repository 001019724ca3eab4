# Resume Intelligence Tracker: TLA+ models and proofs

The tracker is a FastAPI service over PostgreSQL (`src/src`) with a React
dashboard (`src/dashboard`). It logs job applications, tailors résumés with an
LLM, takes status updates from classified e-mail, and signs users in by e-mailed
links. This directory models the parts of it that keep state and can be reached
by several requests at once, model-checks them with TLC, and proves what matters
most with TLAPS.

Paths below are relative to the repository root; `services/...`, `api/...` and
so on stand for `src/src/services/...`, `src/src/api/...`.

## How the system works, and what makes it hard

Every HTTP request is one coroutine and one database transaction: `get_db`
(`db/session.py`) opens a session, the endpoint runs, and `get_db` commits when
it returns or rolls back when it raises. Three facts shape everything else:

* PostgreSQL runs at its default level, READ COMMITTED. Each SELECT sees what is
  committed at that moment, an UPDATE or DELETE waits for the row's lock and is
  applied to the row as it is by then, and locks last until the transaction ends.
* SQLAlchemy flushes the attributes that differ from the row *as it was read*.
  A decision ("is this a change?", "is it there already?") is made on that
  earlier read.
* The service runs on several workers; nothing but the database orders them.

So the state of a component is its tables plus the transactions in flight, and
an action of a model is one statement (or a run of statements that nobody can
tell apart), never a whole request.

| component | state | operations | interacts with | hard because |
|---|---|---|---|---|
| Applications (`services/application_service.py`, `api/applications.py`) | `job_applications`, `application_status_history` | POST, PATCH, DELETE, listing, stats | generator and e-mail watcher write the same rows | check-then-insert with no unique index; decisions on stale reads |
| E-mail watcher (`services/email_watcher_service.py`) | `email_queue` | process one classified e-mail | applications of every owner | retried deliveries; row lock held while waiting for a unique index |
| Résumé generator (`api/resume_generator.py`, `services/resume_ai_service.py`, `services/llm_client.py`) | context variables | tailor, preview, log | LLM, audit log, applications, pool | holds a connection over the LLM call |
| Generation audit (`services/generation_audit_service.py`) | `resume_generations` | persist an attempt, attach an application | opens its own sessions, next to the request's | second connection while the first is held; commits on its own |
| Magic links (`services/auth_service.py`, `api/auth.py`) | `login_tokens`, `users` | request, verify, sweep | rate limiter, sessions | one link opened twice; first sign-ins racing; a failure path that commits |
| Sessions (`api/deps.py`, `users.token_version`, JWTs of `auth_service.py`) | `users`, the cookie, the secret of the process | issue, decode, log out everywhere | all routes | revocation against requests in flight; a secret rotated over restarts |
| Configuration guardrails (`core/config.py`) | the settings of a process | refuse to boot | sessions | what an earlier process signed with another secret |
| Rate limiter (`utils/ratelimit.py`) | one table per process | hit, prune | request-link, verify | keys of different windows in one table |
| API tokens (`services/token_service.py`) | `api_tokens` | mint, resolve, list, revoke | every bearer-authenticated route | a row lock held over the whole request |
| IAM (`services/iam_service.py`, `api/admin.py`) | `user_roles`, `groups`, `group_members`, `group_roles`, `iam_audit_log` | grant, revoke, groups, activation | every administrative route | check-then-insert, cascades, stale reads, an audit log that must fit |
| Base résumé (`services/base_resume_service.py`) | `base_resumes` | get, upsert | generator, pool | check-then-insert; an UPDATE of only the columns that differ from an earlier read |
| Listing and statistics (`application_service.py` `get_applications`, `get_stats`) | none; reads | pages, counts, weekly trend | applications | every statement sees other commits; OFFSET over rows that move |
| Metrics (`utils/metrics.py`, `api/middleware.py`) | counters and rolling windows in memory | record, snapshot | every request | exceptions pass it by; percentiles at the edges |
| Dashboard (`src/dashboard/src`) | React state | sign in and out, load, filter, open, create, update, delete | the API | answers out of order, closures over an older render, components unmounted under their handlers |
| DOCX, prompts, e-mail sending, logging, health, seed, migrations | none | | | |

What makes each of them correct is stated as the properties of its module,
below; `PROJECT.json` lists the hazards with the lines where they bite.

## The modules

| module | models | proofs |
|---|---|---|
| `Applications` | the five writers of applications and their history, with the e-mail queue | `ApplicationsProofs` |
| `Ledger` | what a tenant's applications promise: the abstract specification `Applications` implements | `ApplicationsProofs` |
| `MagicLink` | links, first sign-ins, sessions, logout, sweep, deactivation | `SessionsProofs` |
| `SingleUse` | what a link promises: the abstract specification `MagicLink` implements | `SessionsProofs` |
| `Sessions` | extends `MagicLink`: the JWTs, and restarts into another configuration | `SessionsProofs` |
| `RateLimit` | the limiter's table under hits, prunes and restarts | `RateLimitProofs` |
| `Generation` | the tailoring request, its token's row lock, its audit log and the connection pool | `TailoringProofs` |
| `BaseResume` | the upsert of a base résumé | `TailoringProofs` |
| `Tailoring` | composes `Generation` and `BaseResume`: one row, one pool | `TailoringProofs` |
| `Listing` | pages and statistics read while rows are written | `ListingProofs` |
| `Metrics` | the 95th percentile of a window of latencies | `ListingProofs` |
| `Iam` | link tables, groups, activation and the audit log | `IamProofs` |
| `Authority` | what the administration promises: the abstract specification `Iam` implements | `IamProofs` |
| `ApiTokens` | bearer-authenticated requests, minting and revoking | `ApiTokensProofs` |
| `Dashboard` | the page: sign-in gate, list, drawer, dialog, calls in flight | `DashboardProofs` |
| `MC...` | constants and symmetry of the small instances | |

Operators whose comment begins with "Variant:" are not part of a specification:
each is a definition of the module with a plausible bug in it, and the properties
are known to notice it.

### Applications and Ledger

`apps`, `hist` and `queue` are the committed tables; `tx[r]` is the transaction of
request `r`, with the row it read (`row`), the row it wants (`new`) and the history
entry it will insert. An application's id is a fresh uuid4, so the row inserted by
`r` is called `r`. `PostHardCheck` and `PostSoftCheck` are the two SELECTs of
`_check_duplicates` (the second with the flush of both INSERTs); `Generate` is
`generate_and_log`; `PatchRead`, `DeleteRead` and `GetMissing` are the services up to
their flush, `LockRow` the UPDATE that gets its lock; `EmailDedup`, `EmailMatch`,
`EmailCreate` and `QueueMessage` are the statements of `process_email_event`. The
`Commit...` actions apply only the changed columns (`Merge`) to the row as it is by
then. A history is a set of entries, read in the order of `changed_at`; an entry is stamped
by `clock` where the code builds it (`EntryOf`: `_make_history` and its like in the e-mail
watcher), which is before its flush waits for a lock, so that stamps and commits may go in
different orders. Stamps are strictly ordered: two workers never stamp the same instant, nor
do their clocks differ, and a stamp is taken together with the SELECT before it. `missed` and
`moved` are history variables: the requests that committed while one was under way, and which
rows a PATCH moved.

Properties: `HistoryMatchesStatus` (in the order of `changed_at` a history ends with the row's
status, unless the writer of a later entry committed while the writer of that status was under
way: overlapping writers may commit in the other order than their stamps, see the findings),
`DuplicatesAreRaced` (a duplicate exists only where the check could not see it),
`DeletedStaysDeleted`, `MessageAppliedOnce`, `TenantsApart` (a row changes by requests served
for its owner, and by e-mails of whoever, which change the status and nothing else), `EveryRequestEnds`, and
`LedgerKept`: under the mapping of the committed tables and of the answers, every behaviour is one of
`Ledger`, in which each request is one step. A row and its history change together and with the answer;
an owner never changes and a deletion is never undone; an e-mail takes effect with its row of `email_queue`,
once; and an answer that says why nothing was done (`Grounds`) is true when it is given, but for `failed` and
`notfound`, of which `Ledger` asks nothing. It promises which entries a history gets, not where in the order
of `changed_at` they stand. A PATCH that was overtaken by another may record a status that is there already,
and a deletion may be recorded twice.

### MagicLink and SingleUse

`links` and `users` are the committed tables, `issued` remembers each link as it was
issued, `tx` holds the verifications and logouts. `LockLink` is the SELECT ... FOR
UPDATE with its checks, `FindUser` and `InsertUser` the statements of
`_get_or_create_user` with its SAVEPOINT, `SignIn` the commit, and `Deny` the commit
of the failure path, which stores the `consumed_at` that was set before the account
turned out to be inactive. `RequestLink`, `Sweep`, `LogoutCheck`, `LogoutBump` and
`SetActive` are the other writers; `Tick` is the clock.

Properties: `SignsInOnce`, `LinkHonoured`, `LiveLinksKept`, `OneAccount`, `LogoutCoversAll`, and
`PromiseKept`: under the mapping of `LinkState`, every behaviour is one of
`SingleUse` (a link is issued, and is then spent by exactly one grant or voided). A
link under check counts as live until its transaction ends, since its row lock
keeps the clean-up away from it (`LiveLinksKept`). `OneAccount`: of two first sign-ins that
race for one address, the account that was stored stays. `RevokedStaysRevoked` is proved
and not part of a run; `EveryRequestEnds` and `DeadLinksSwept` are checked in
`Sessions`, where the process may restart, too.

### Sessions

A session is the `key` that signed it and its `exp`; its subject and `token_version`
are in `MagicLink`'s `tx`. `Verify` is a sign-in with `issue_session`, `Logout` a
logout that `decode_session` let through (`Decodes`: either secret, not expired).
`Restart(c)` ends the process, with every request under way, and boots with
configuration `c` if `_production_guardrails` let it (`Boots`). The operator may write
any configuration of `Settings`; `orderly` remembers whether every restart so far kept the
secrets, began a rotation (`Rotates`: a new secret, the old one as
`JWT_SECRET_PREVIOUS`), or ended one after a `SESSION_DAYS` window (`Drops`), as the
comments of `core/config.py` tell operators to.

Properties: `RotationKeepsSessions` (after any orderly sequence of restarts a session
that neither expired nor was revoked is accepted), `NoDevSessions` (in production no
session of the development secret is accepted, whatever ran before), `EveryRequestEnds`,
`DeadLinksSwept`.

### RateLimit

The table maps a key to the start of its window and its count. `Hit` counts, and when
the table is larger than its bound prunes *by the caller's window*, as `_prune` does;
`Restart` loses the table. `ShortestLimitExact` says that keys of the shortest window
are limited exactly; keys of a longer one are not (see the findings), so that no
property is stated of them. `RetryEnough`:
a client that waits for `Retry-After` finds its window rolled over.

### Generation

`tx[r].pc` says how far a request is and with it how many pooled connections it
holds (`OneConnection`, `TwoConnections`): one from its first statement (`Connect`) to
the end of its transaction, the LLM call included, and a second while the audit layer's own
session writes (`writing`, `linking`). `others` counts the connections of the rest of
the service, which takes and returns them at will (`OtherRequests`). A request with an API
token updates the token's `last_used_at` when it authenticates (`Stamp`) and so keeps
that row locked, and every other request of the token waiting with a connection in
its hands, until its transaction ends. `Refuse` is a 401, `LoadBase` the read of the base
résumé, `CallLLM` the model's answer with its validation, `LogApplication`, `Commit` and
`Rollback` the request's own writes. The audit layer swallows its own errors
(`AuditTimeout`, `AuditFail`, `AttachTimeout`, `AttachFail`).

Properties, checked in the composition below: `AuditTruthful` (a row has its attempt's
status and mode; only kept generations are linked, and the application linked to
exists unless its request is still under way or failed after linking),
`ResultNotMasked`, `EveryRequestEnds`. `PoolBound` and `OnlyMadeIsLogged` are proved. The
audit row is written in preview mode, too, although the comment at
`api/resume_generator.py:102` says "No DB write in preview mode."

### BaseResume and Tailoring

`PutRead`, `PutInsert`, `PutUpdate` and `PutCommit` are the statements of `upsert` and its
commit. `put[p].read` is the row as the PUT's session first saw it: an UPDATE writes only
the columns that differ from it (`Written`), so that overlapping PUTs can leave the text of
one with the structure of the other, and overlapping first PUTs end in a conflict that
nothing handles. `last` is a history variable: the body stored last, if no other PUT had
committed between its PUT's read and its write.

`Tailoring` runs both. `Prompt` is `LoadBase` with the row that `BaseResume` keeps; `others` is
the number of PUTs under way (`Pooled`), so that they and the generations compete for the same
connections. Every step of `Tailoring` is one of `Generation` or a stutter, and one of
`BaseResume` or a stutter (theorem `Implements`).

Properties: `ResumeWhole` (the stored résumé is one body, unless a PUT was overlapped),
`TailoredFromStored` (a prompt is rendered from a text stored when its request
arrived, or since: never from an older one), `EveryoneEnds` (waiting for a second
connection, for a token's row, and for another PUT's row never lasts for ever).

### Listing and Metrics

`apps` holds the columns a listing looks at; `Insert`, `Change` and `SoftDelete` are the commits
of the writers of `Applications`. A client's round (`reader[c]`) goes through the pages of a
listing as `Pagination.jsx` does, each answer being two statements (`CountRows`, `FetchPage`),
or reads the statistics, which are three (`Headline`, `Breakdown`, `Trend`). Rows that tie in the
sort column come in any order (`Orders`). `past` is the history of a round: which rows stayed in
their place, and what happened meanwhile.

Properties: `PagesComplete` (a row that stays is shown, once, unless a row left the listing, or
came between count and page, or came at all, respectively; stated for rounds in which no two rows
tied, in the order by `applied_date`, latest first), `FiguresAgree` (the breakdown differs from the total by
no more than the commits between the statements, the trend exceeds it by no more, and no bar is older
than the trend's weeks). `Metrics` has no state: `PercentileNear`, that the p95 is at most one rank
too low, and exact for a full window, is about numbers alone and proved. The counters beside the window
are not modelled; the middleware increments them once for each answer that passes it.

### Iam and Authority

`pairs` is the union of the three link tables, each row being its own primary key.
A request is authorized (`Authorize`: `get_current_owner` and
`require_permission`), reads (`Read`, `ReadSame`, `Refuse`), writes under locks
(`InsertPair` and `LinkPair` for the primary and the foreign key of an INSERT,
`DeletePair`, `InsertGroup`, `DeleteGroup` and `Cascade`, `UpdateUser`), and commits
with its audit row. `audit` is in commit order. Properties: `NoOrphans`,
`GrantsAlternate` (two grants of a thing are separated by its
revocation), `LogCoversGrants` (a grant that stands in the log is in force, and what is in force
is in the log), `AuthorityFromLog` (whoever acted could hold the permission by the
seed and the grants logged before), `SomeoneProceeds` (no deadlock). The converse of
`LogCoversGrants` is false: a revocation that overlaps the pending grant of the same
row deletes nothing and is logged after it.

`SomeoneProceeds` is `NoWaitingCircle` (while requests are under way, what one of them
waits for has ended, `Unblocked`) together with `Unblocked(r) <=> ENABLED Step(r)`, which has TLC compare
`Unblocked` with the guards of the statements.

`AuthorityKept`: with the committed tables and the answers, every behaviour is one of
`Authority`, in which each request is one step, together with its audit row, by somebody the log
before it allowed to act. A grant adds a row that was not there, of a group that exists; a group goes with
all its rows; of two groups none share a name. `Authority` is as loose as the code: a revocation next to a
pending grant may leave the row, a second deletion of a group changes nothing, and a deactivation
that read a stale row is answered, logged and without effect (see the findings).

### ApiTokens

A request that presents a token stamps its row in its own transaction and so keeps
it locked until it ends (`Stamp`); one that revokes a token takes a second lock
(`RevokeFlush`). Two requests that revoke each other's token wait in a circle, and
PostgreSQL aborts one (`DeadlockAbort`). A session knows the row of its bearer token
as it first read it (`Known`, SQLAlchemy's identity map). Properties:
`RevokedForGood`, `EveryRequestEnds`; `RevokedByOwner` is proved. A request that read its token
before a revocation committed is still served once; the model has that behaviour,
and no property forbids it.

### Dashboard

`server` is the user's applications as the API keeps them; `auth`, `list`, `drawer` and
`modal` are the React state of `AuthProvider`, `App`, `Drawer` and `AppModal`. A task is
one event handler or effect in flight: the call it awaits, the answer when it has been
served, the view of the render it was created in, and whether its component is still
mounted. `Serve` is a call taking effect at the server and its answer (success, error, an
answer lost, 401); the `On...` actions are the code from one `await` to the next, with its
`finally`; `TimerFires` is the debounced effect. A *view* stands for the filters, the
order and the page together. A 401 of any call shows the login screen, which unmounts
the tracker (`Deliver`, `Unmounted`).

Properties: `ListIsCurrent` (the table is of the view its filters show, unless the last
request for it was raced, by another or by a closure with older filters),
`GhostsAreRaced` (a row seen deleted reappears only out of an answer that was under way),
`SpinnersEnd` (each spinner and disabled button has a handler behind it that will clear
it), `NoDoubleSubmit`.

Left out: the figures in the header and the effect that loads them at sign-in (`App.jsx:58`;
`loadStats` is there as the call that keeps a form disabled), the flag of the drawer's download
button (`Drawer.jsx:187`), the row's highlight, the lists the other tabs keep for themselves (of
them only signing out and generating a résumé reach this state), and what the forms hold.
Asking for a sign-in link changes nothing but a message.

## The runs

| run | checks | bounds, and why they are enough |
|---|---|---|
| `applications_writers` | safety of all five writers, refinement of `Ledger` | three requests: every race here is between two writers, and a third makes the row they race for, or re-reads it; three statuses, so that two PATCHes can both change the one a row was made with, and not to the same; two spellings of a company; one job id, one message id |
| `applications_live` | tenants, and that every request ends | two owners, no symmetry (liveness) |
| `magiclink_links` | safety of links and sessions, refinement of `SingleUse` | four requests: two sign-ins and two logouts can overlap; two links; a clock that reaches expiry and passes it |
| `sessions_live` | sessions over restarts and rotations; requests end, dead links are swept | two requests and two links for one address; five configurations, from development through a rotation in production; two restarts, which is what a rotation takes, and a clock that reaches the end of a `SESSION_DAYS` window |
| `ratelimit_shared` | exactness and Retry-After | keys of two windows, a table bound they exceed |
| `tailoring_audit` | audit log, answers, pool, base résumé | two generations and two PUTs on two connections: both generations, or one and a PUT, may hold the pool while one wants a second or the token's row; bodies that differ in the text, in the structure, or in both |
| `listing_reads` | listings, statistics | three rows and pages of one, so that a row can move over a page's edge in either direction; one client (readers do not touch each other); three commits, one for each gap between the statements of two pages; days at the edge of the trend, in the middle of a week, and before it |
| `iam_grants` | link tables, log, locks, refinement of `Authority` | three requests of any kind; an old group that confers the administrator's role |
| `apitokens_revoke` | revocation, locks | two requests on two tokens, which is what the circle of locks takes |
| `dashboard_answers` | the page's consistency with answers in any order | two handlers in flight, since every race here is between two; one application, which may be created, changed and deleted by others too; two views (with two applications the instance is too large for a run, so nothing is checked of an update's answer that arrives when the drawer shows another row) |
| `applications_warning`, `iam_deactivation` | a violation each | see the findings |

Requests are served once each, which bounds histories and logs; the only other
bounds are the clocks (`MaxTime`), the handlers in flight (`Task`), the commits next to a
reader (`MaxWrites`) and the restarts of `Sessions` (`MaxRestarts`).

The type invariants of `Applications`, `MagicLink`, `ApiTokens`, `Iam`, `Dashboard`, `Listing`, `Sessions` and
`Generation` are proved and left out of the runs, which check what else these modules say.

### Findings

* `applications_warning`: two soft duplicates may be stored (the second with a
  warning), and then `scalar_one_or_none()` of the soft check raises on every
  further POST of that posting, which fails with an internal error. No overlap is
  needed.
* `iam_deactivation`: a deactivation that reads the account as inactive while an
  activation is pending emits no UPDATE; both are answered and logged, and the
  account stays active.

Smaller disagreements met on the way are not runs. Of writers:

* two overlapping PATCHes to one status both write history ("Write history only if status
  changed", `services/application_service.py:180`), two overlapping DELETEs both write a note
  ("no-op", line 375);
* of two overlapping changes of a status, PATCHes or e-mails, that commit in the other order than their
  `changed_at` stamps (taken at `services/application_service.py:48` and
  `services/email_watcher_service.py:130`, before the wait for the row's lock), the row keeps the later
  commit's status while its history, which line 419 and `models/application.py:105` order by `changed_at`,
  ends with the other's. The model has it, and `HistoryMatchesStatus` exempts it;
* a refused sign-in of a deactivated account consumes its link (`api/auth.py:114`);
* a hit by IP with the 60 s window prunes per-e-mail counts whose hour is still running
  (`_prune`, called with the caller's window, `utils/ratelimit.py:28`);
* an attempt whose audit row cannot be written is not recorded
  (`services/resume_ai_service.py:70`);
* a revocation of a role that is not held writes an audit row (`services/iam_service.py:156`), and
  of two overlapping assignments of a role one fails ("Idempotent", line 135);
* `attach_application` commits in a session of its own before the application's own commit: if
  that fails, the audit row names an application that does not exist
  (`models/resume_generation.py:70`: "Set on success once the application has been logged");
* of two overlapping first PUTs of a base résumé one ends with an unhandled IntegrityError, and
  overlapping later ones can mix the text of one body with the structure of another.

Of readers:

* the trend of the "last 12 ISO weeks" starts eleven weeks before today, so that its first week
  is cut short unless today is a Monday (`services/application_service.py:316`);
* the listing has no tie-breaker after its sort column: rows of one day may be repeated or missed
  over the pages, even if nothing is written;
* deleting a row of the first page and then asking for the next one skips a row;
* the 500 of an exception without a handler is answered outside of the middleware
  (`src/src/main.py:144`) and not counted, although the metrics' docstring speaks of "API success /
  failure rates (4xx/5xx)" (`utils/metrics.py:6`); the model leaves the counters out;
* each window of latencies is bounded, but their number is not: they are keyed by the raw path
  (`utils/metrics.py:36`), which holds the ids of applications;
* the p95 is one rank low for most sizes of a window that is not full.

In the dashboard: `historyData.data` of an answer that is a bare list is undefined, so the
drawer's timeline is always empty (`App.jsx:105`); `app.is_deleted` is not in any answer
(`Drawer.jsx:208`), so that a deleted application can be deleted again; an updated row is
changed in place and stays under a filter it no longer fits (`App.jsx:130`); the answer of
an update replaces the drawer's application even if another row was clicked meanwhile
(`App.jsx:129`); `handleCreate` reloads the list with the filters of the render it was
created in (`App.jsx:123`). The model has all five behaviours.

## Fairness

Weakly fair are the request's own progress (`Step(r)`; with what surrounds it `Serve(r)` and `PutGo(p)`
in `Tailoring`, `Serving(r)` in `Sessions`) and the sweep: the event loop runs every coroutine,
PostgreSQL grants a released lock and looks for deadlocks (`deadlock_timeout`), the LLM client has a
timeout (`LLM_TIMEOUT_SEC`), the pool has one (`pool_timeout`), and `_login_token_sweep_loop`
catches every exception, goes on, and starts again with the process. Clients need not send
anything, administrators need not act, operators need not restart, credentials need not be
refused, transactions need not fail, and the clock need not advance: none of these is fair.

## What is proved

For every value of the constants (any number of requests, tenants, tokens, users, groups,
applications and handlers, any pool, page or table size), under the named assumptions of
each module: null values are distinct from the rest, sizes and clocks are natural numbers,
sets that are counted (the applications of a listing, the requests and PUTs that share a pool) are
finite, there is a status, and seeds are well formed. Every property of a passing run is
proved, except for those at the end of this section.

Each proof has the same three facts at its base: `Init => Inv`, `Inv /\ [Next]_vars => Inv'` with
one lemma per action, and `Inv` implies the property; an action property is drawn from `Inv` and the
step, and a refinement from a lemma that maps each step to one of the abstract specification or to a
stutter. Every strengthening was model-checked before it was proved.

### Applications

`ApplicationsProofs`: `TypeCorrect`, `HistoryIsFaithful`, `DuplicateCheckIsCurrent`, `DeletionIsFinal`,
`MessagesTakeEffectOnce`, `TenantsStayApart`, `LedgerImplemented`. `HistoryMatchesStatus` alone is not inductive: a
commit applies what a request prepared long before. `TxShape` says what a request in flight carries
(its history entry is the one that fits the columns it will write, and its row exists),
`StampsAreCurrent` that every stamp is of the past, and that an entry of the history with a later stamp than
that of an entry in flight is of a request that committed while this one was under way,
`ChecksAreCurrent` that a POST in flight has missed every twin that is there. A commit then
preserves the property because `Merge` writes a status exactly when the entry records it, and whatever is
stamped later than that entry is on record as missed.
`MessageShape` says that a delivery past the queue's unique index is the only one of its message
and that the message is not in the queue yet; `OwnerShape` that the row a request is about to update is
its owner's, unless the request is an e-mail, which by `UpdateFits` changes the status alone.

`LedgerImplemented`, `Spec => LedgerKept`, needs of a request in flight what it will do when it commits.
`AnswerShape` says that it is not answered yet and that an UPDATE on its way changes what its operation
may change (`UpdateFits`): a PATCH never `is_deleted`, a DELETE nothing else, an e-mail the status alone.
A commit applies this to a row that may have changed since it was read; `MergeByOperation` shows
that what it then does is still of its operation, whatever the row has become. Every step
but a commit or the end of a request is a stutter (`QuietStep`), and a request that ends without a write has
its grounds from what it has just read (`DeclineStep`, `TwinsAreGrounds`).

### Links and sessions

`SessionsProofs` first proves of `MagicLink`: `TypeCorrect`, `SingleSignIn`, `SignInHonoursLink`,
`AccountIsUnique`, `RevocationIsFinal`, `LogoutIsComplete`, `LiveLinksStay`, and
`SingleUseImplemented`: `Spec => PromiseKept`, the refinement of `SingleUse`. The strengthening says
that at most one request holds a link's lock (`HoldersApart`), that its link is as it was checked
(`HoldsLiveLink`), that at most one pending INSERT of an account exists, and that a session's
`token_version` never exceeds the account's. For the refinement the steps are sorted by what they do to a
link's `LinkState`: `RequestLink` issues a link, `SignIn` redeems one, and every other step either leaves
all links as they are or makes no link usable that was not (`FadingStep`): a denial, a tick of the
clock, or the end of a request that held an expired link voids what was live.

Then of `Sessions`: `SessionsTypeCorrect`, `RotationIsSeamless`, `ProductionIsApart`,
`LinksStandRestarts` (single use and expiry hold with restarts that end requests half-way), and
`SingleUseStandsRestarts`: `SessionsSpec => PromiseKept`, the refinement of `SingleUse` by a service that
restarts, in which a restart is one more step that only makes links fade (`RestartFades`). The
strengthening of `RotationKeepsSessions` is `Rotating`: in an orderly sequence, a session that is
not signed with the current secret is signed with the previous one and expires within a
`SESSION_DAYS` window of the rotation's begin, so that dropping the previous secret then drops only
expired sessions.

### The rate limiter

`RateLimitProofs`: `ShortestIsExact`, since no prune, by whatever window, removes a running entry of
a shortest window; `RetryIsEnough`, an argument about the division of `Retry-After`, which rounds down, and
the second that is added to it.

### Generation, base résumé and their composition

`TailoringProofs` proves of `Generation`: `TypeCorrect`, `AuditIsTruthful`, `ApplicationsAreMade`, from
`Fits` (how far a request can have come, given its audit row); `AuditMasksNothing`, that the audit
layer's time-outs and errors change no answer; and `PoolIsBounded`, which counts the sets of requests that hold
one and two connections. Of `Tailoring`: `ResumeIsWhole`; `Implements`, that the composition implements both
`Generation` and `BaseResume`, and with it `GeneratorKeepsItsPromises` and `AnswersAreTheResults`,
the theorems of `Generation` in the composition; `PromptsAreFresh`; `TailoringTypeCorrect`. What
makes the composition work is `PutInv`: `others` is the number of PUTs under way, so that a PUT's
steps are ones that `OtherRequests` allows.

### Listing and metrics

`ListingProofs`: `TypeCorrect`, `PagesShowEveryRow`, `FiguresStayNear`, and, for windows of
any size, `PercentileIsNear`. What is
inductive of `PagesComplete` is `PagesSoFar`. In an order without ties, the number of listed rows
before a row (`Ahead`) is that row's offset. While rows only arrive, that number only grows: a row that was
not shown yet still has an offset at or past the next page's, so none is missed. While they only
leave, it only shrinks: a row that was shown stays behind the next page's offset, so none is repeated. At the last
page the offset has reached the total, and no row is left to be shown. `FiguresSoFar` says that each commit
moves a count by at most one, and so the figures by no more than the commits since.

### IAM

`IamProofs`: `TypeCorrect`, `NothingIsOrphaned`, `LogIsFaithful`, `GrantsAreApart`, `AuthorityIsHandedDown`,
`NobodyIsStuck`, `AuthorityImplemented`. None of the first four properties is inductive, since a request reads, waits for locks and commits later.
`InsertsNew` ties a pending insertion to the absence of its row, and `InsertersApart` says that there is
one at most (the primary key); `HoldersApart` keeps whoever adds to a group apart from whoever
deletes it (the foreign key's lock), and `CascadeComplete` has a deletion remove all that is
committed of its group. `Tells` ties a request's audit row to what its commit will do, and `ActsByLog`
its permission to the log as it was when it was authorized, which later rows only extend.

`NobodyIsStuck`, `Spec => []NoWaitingCircle`, goes by the order in which locks are taken: a
request that has flushed needs only its commit; a cascade waits for requests that have flushed, because the
rows it deletes are the committed ones, so that an insertion which waits for the cascade's group is not
among what the cascade waits for; and an insertion waits for deletions alone. In a circle, nobody would have
flushed and there would be no cascade to wait for.

`AuthorityImplemented`, `Spec => AuthorityKept`, adds `PromiseInv`: a request's audit row is its own and
names what its statement does, a new group's name is free when it is flushed and is pending nowhere
else (`CreatorsApart`, the unique index of `groups.name`), and a deletion that has flushed either removes its
group or found it gone. `ActsByLog`, above, gives the actor's permission by the log at the commit.

### API tokens

`ApiTokensProofs`: `TypeCorrect`, `RevocationHolds`, `OnlyOwnersRevoke`. All steps but a commit are
local to a request (`Local`); a commit never un-revokes a row, nor changes its owner
(`RowsOnlyGrow`).

### The dashboard

`DashboardProofs`: `TypeCorrect`, `ListStaysCurrent`, `GhostsComeFromRaces`, `EverySpinnerEnds`, `FormsSubmitOnce`,
from `PageInv`, for any number of handlers in flight. `TaskShape` says what a handler
awaits and which rows its answer can hold; `FlagsKept` that a mounted handler of a form keeps that
form's flag set, without which nothing would stop a second submit; `OneSignIn` that probe and link
exclude each other, since both clear the same spinner; `LastLoadCurrent` that while the last request
for the list is not raced it is the only one, and of the view that is shown; `GhostsKnown` that an
answer under way that still holds a deleted row is on record before it can bring the row back.

### Only model-checked

* `EveryRequestEnds` (of `Applications`, `ApiTokens` and `Sessions`), `EveryoneEnds` and `DeadLinksSwept`: liveness under
  fairness is beyond the prover.
* Of `SomeoneProceeds`, that `Unblocked` is the condition under which a request can go on, which is about
  ENABLED. Its other half, `NoWaitingCircle`, is proved.
* The two findings, which are violations.

## What is not modelled

* Of the listing, the sort columns besides `applied_date` and the filters besides source and
  `include_deleted`, which select rows in the same way; the history of generations
  (`list_recent` and its figures) and of statuses, which are read in one statement or decide nothing.
* Of the metrics, the counters, and the latencies themselves with those of queries (`record_db_query`):
  a counter is right by the shape of the one function that increments it.
* Of the dashboard, what its section above leaves out.
* Of the guardrails, those on `APP_BASE_URL` and `REQUIRE_AUTH`: the models are of a service that
  passed them. `REQUIRE_AUTH` off, the single-owner mode, only removes checks.
* Signatures and hashes, which are model values, and the text of e-mails, prompts and documents.
* Columns no decision reads (notes, salary, links, ...), log lines, correlation ids.
* More than one process of the rate limiter: each has its own table, as
  the code's comment says.
* Isolation levels other than PostgreSQL's default, and the order of lock queues.

## Plan

Done: the models of all components that keep state and can be reached by several requests at once, the
compositions `Sessions` and `Tailoring`, the abstract specifications `SingleUse`, `Ledger` and
`Authority`, and the proofs of the safety properties and of the three refinements. Left:

1. `Listing` over `Applications` itself, so that `Insert`, `Change` and `SoftDelete` are the commits of its
   requests and not writers of their own. `Ledger` is the specification to put between the two.
2. `Listing`'s filters and sort columns as parameters, and `ApiTokens` with the sessions of
   `Sessions`, so that one account has both kinds of credential.
