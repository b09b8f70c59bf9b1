# A verification development of the job scheduler

The repository is a small service-scheduling system. Managers of an organization turn
quotes into jobs of two hours by assigning them to technicians; technicians complete
them. A Go backend (`src/backend`) keeps everything in MySQL and tells connected
browsers over WebSockets which lists have changed; a Next.js frontend (`src/frontend`)
refetches those lists over HTTP.

What makes it hard is small but real: several HTTP handlers run transactions at the
same time, each reading rows, deciding, and writing several statements later; and an
in-process hub fans their events out to connections that come, stall and go; pages
refetch lists whose answers overtake one another; and sessions end while calls are at
work for them. This project models those transactions statement by statement, the hub
goroutine by goroutine, a page callback by callback, its booking form against what the
service decides, and the sessions, notifications and quotes with the calls that race for
them; it checks them with TLC and proves the main results with TLAPS.

Short names of sources used below: *service.go* is
`backend/internal/scheduling/service.go`, *router.go* is
`backend/internal/httpapi/router.go`, *hub.go* is `backend/internal/ws/hub.go`,
*api.ts* and *schedulingAvailability.ts* are in `frontend/lib`, *ManagerWorkspace.tsx* in
`frontend/app/manager`. The services of `backend/internal/auth`, `notifications` and
`quotes` are also in files named service.go and are named with their directory.

## 1. Inventory

| component | state | operations | talks to |
|---|---|---|---|
| scheduling service, service.go | jobs, quotes.status, audit log, notifications (MySQL); per call a transaction | AssignJob, RescheduleJob, CompleteJob | MySQL; returns events to the router |
| domain, `domain/domain.go` | none | CalculateWindow, Overlaps, Validate... | used by every service |
| HTTP API, router.go | none | one handler per route; publishes the events a service call returned | all services, hub |
| event hub, hub.go | subscribers by user and by role, a buffer of 16 per subscriber, a reader and a writer goroutine per connection | register, unregister, SendToUser, BroadcastToRole, Publish, ServeHTTP | router (Publish), browsers |
| notifications, `notifications/service.go` | notifications.read_at; per call a row lock | List and UnreadCount in one endpoint, MarkRead | MySQL |
| auth, `auth/service.go` | sessions (MySQL), the cookie of each browser | Login, ActorFromToken, RevokeToken | MySQL, every handler and `/ws` |
| quotes, `quotes/service.go`, and the form of ManagerWorkspace.tsx | quotes; the fields of the form, requests under way | ListQuotes, CreateQuote | MySQL; publishes quotes.changed |
| jobs query, technicians query | none | ListJobs, ListTechnicians | MySQL |
| connection pool, `db/db.go` | open connections, at most 20 | Open, migrations | MySQL |
| schema, `migrations/001_init.sql` | keys and checks | | |
| live pages, `ManagerWorkspace.tsx`, `technician/page.tsx`, `lib/api.ts` | lists shown, socket, retry timer | refetch on event, on focus, after a command | HTTP API, `/ws` |
| booking form and local time, `ManagerWorkspace.tsx`, `SchedulePicker.tsx`, `lib/schedulingAvailability.ts`, `windowInsideAvailability` | the fields of the form or dialog | select, type, pick, assign, move; Sydney wall-clock time to UTC and back, slot availability | scheduling service |

Behaviours that are hard, and the properties that answer them:

- *Check-then-act under concurrency.* AssignJob and RescheduleJob count overlapping
  jobs, then write. Only the order of the statements makes that safe: the
  technician's row is locked before the first plain read, because under REPEATABLE
  READ that read fixes what the whole transaction sees. `NoOverlap`,
  `DecisionsHold`, `ImplementsBook`.
- *Rows read, then used much later.* The job row read at service.go:183 and 281
  decides ownership, status, the audit line and who is notified. `AuditChain`,
  `OwnersChangeJobs`, `DecisionsHold`.
- *Lock order.* RescheduleJob locks the job, its quote, its technician and its
  manager, and then another technician. Deadlocks do happen; the code leaves them to
  MySQL. `DeadlockNeedsReschedule` says where they come from, `NoStandstill` that
  nobody waits for anything else that never comes, `RequestsAreAnswered` that nobody
  hangs.
- *Partial failure.* Any statement may fail; a commit may take effect and report an
  error; the process may die between commit and publication. `QuoteJobAgreement`,
  `AuditChain`, `RefusalsAreTrue`.
- *Who hears of a change.* A reassignment changes three people's lists.
  `AffectedUsersAreNotified`, `AffectedListsAreSignalled`.
- *Tenancy.* Ids are global, tables are shared. `TenantIsolation`, and on the side of
  the events `OnlyAddressees`.
- *Fan-out to slow and dying connections.* The hub copies the recipients under a lock
  and sends to them after it; buffers are bounded; each connection has two goroutines
  that end for different reasons. `OrderKept`, `EventsArrive`,
  `PublishersAreNotBlocked`, `TornDown`, `HandlersReturn`, and, as one abstract
  specification, `ImplementsStreams`.
- *Lists that are refetched.* Events, focus and commands start requests that overlap;
  each answer is shown when it comes; sockets break and events are lost.
  `StaleIsAccountedFor`, `OwnChangesAreShown`, `PageCatchesUp`, `SocketStops`.
- *Two judges of a window.* The page disables what it finds taken or outside the hours, in
  TypeScript and from its own list; the service decides in Go and SQL. Both convert
  to local time, which skips or repeats an hour twice a year. `FormAgreesWithService`,
  `BookedAsTyped`, `BookedInsideHours`.

- *Sessions that end while they are used.* A session is checked in three queries and a
  clock that goes on between them; logouts are repeated, fail, and overtake logins; a
  socket is checked once and may outlive its session. `AdmittedWereGood`,
  `RefusalsAreDue`, `LogoutRevokes`, `EndedSessionsFallSilent`.
- *Marking what is marked already.* Calls of MarkRead race for a row, commit without
  knowing it, are repeated, and the clock is finer than the column; the list and its
  count are read one after the other. `ImplementsInbox`, `CallsAreAnswered`,
  `CountFollowsList`.
- *Commands without a key.* A quote is created in a statement of its own, so that an
  error may be told of a quote that exists, and a button that stays enabled creates
  it twice. `DuplicatesAreDue`, `SilentRowsAreDue`.

The hazards, each at its line, are listed in PROJECT.json.

## 2. Modules

| module | what it is |
|---|---|
| `Domain` | constants for the rows that never change, row types, windows, requests, validation |
| `Scheduling` | the service: state, one action per statement, failures, restart, fairness |
| `ScheduleBook` | abstract specification: a book in which each change is one atomic step |
| `SchedulingProperties` | every property of the service, and the conjuncts of the inductive invariant |
| `MCScheduling`, `MCTenancy`, `MCDeadlocks` | instances for TLC |
| `SchedulingProofs` | types, the inductive invariant and what follows from it at once |
| `SchedulingTheorems` | the audit log, refusals, tenancy and notifications; that the service implements the book; where deadlocks come from and that nothing else stands still |
| `EventHub` | the hub, the handler and the writer goroutine of each connection, the publishers |
| `EventHubProperties`, `MCEventHub` | its properties and instances |
| `EventStreams` | abstract specification: the stream of events of each connection |
| `EventHubProofs` | the safety theorems about the hub, and that it implements the streams |
| `LivePage` | a page, its requests, commands and event socket, and the server as the page sees it |
| `LivePageProperties`, `MCLivePage` | its properties and instances |
| `LivePageProofs` | the safety theorems about the page |
| `LocalTime` | instants, wall times, the conversions and both availability checks |
| `BookingForm` | the assignment form and the reschedule dialog against the service's decision |
| `BookingFormProperties`, `MCBookingForm` | its properties and instances |
| `BookingFormProofs` | the theorems about local time and the form |
| `AuthSessions` | logins, logouts, the check of every other call, sockets, cookies, a clock |
| `AuthSessionsProperties` | its properties |
| `AuthSessionsProofs` | the safety theorems about sessions |
| `NotificationService` | the notifications table under MarkRead, and the two queries of the list |
| `Inbox` | abstract specification: an inbox in which a notification is marked once |
| `NotificationProperties` | that the service implements the inbox, and its other properties |
| `NotificationProofs` | that the service implements the inbox, and the safety theorems |
| `QuoteDesk` | the form for a quote, CreateQuote, and their properties |
| `QuoteDeskProofs` | the safety theorems about creating quotes |

`EventHub` takes its vocabulary (users, organizations, events) from `Domain`, as
`Scheduling` does. The two do not share a state: what `Scheduling` says of a commit's
events (`AffectedListsAreSignalled`) ends where `Publish` begins, and what `EventHub`
says begins there, for any lists of events. `LivePage` takes up the events where `EventHub`
leaves them: one socket, a bounded buffer, events dropped when it is full. That this
is all that happens to them is what `EventStreams` says and `EventHub` is proved to
implement; `EventsArrive` adds that they do come. `BookingForm` takes the service's decision
as one step, which `ImplementsBook` justifies, and ties the constant `AvailableStarts`, by
which `Scheduling` knows what is available, to the code's computation
(`AvailabilityAssumption`). `AuthSessions` is about the calls of all other modules
before they are let in, `NotificationService` about the rows Scheduling's commits insert,
`QuoteDesk` about the quotes they assign; each takes the others' steps as the one it needs
(a socket is a call that runs, a commit inserts a row).

### How Scheduling corresponds to the code

A handler `h` is a goroutine serving one request. `pc[h]` names the statement it is
about to run:

| `pc` | action | code |
|---|---|---|
| `idle` | `StartRequest` | router.go calls the service; role and input checks, service.go:79-84, 169-174, 268-273 |
| `begin` | `BeginTx` | 87, 177, 275; waits for a connection of the pool |
| `lockQuote` | `SelectQuoteForUpdate` | 93-99, 338-355 |
| `lockJob`, `lockJobQuote`, `lockJobTechnician`, `lockJobManager` | `SelectJobForUpdate`, `LockJobQuote`, `LockJobTechnician`, `LockJobManager` | the one joined SELECT ... FOR UPDATE of 375-422 takes its four row locks one after the other; then the checks 187-192, 285-290 |
| `lockTechnician` | `SelectTechnicianForUpdate` | 101, 193, 357-373 |
| `availability` | `EnsureTechnicianAvailable` | 424-474; opens the read view |
| `overlap` | `EnsureNoOverlap` | 476-498 |
| `insert` | `InsertJob` | 112-121; share lock for the foreign key, unique key |
| `commit` | `Commit` | the remaining writes and COMMIT |
| `publish` | `Publish` | `hub.Publish(events)` and the response |
| `refuse` | `Refuse` | the deferred Rollback and the error response |

`StatementFails` is an error at any statement (lock wait timeout, cancelled context,
lost connection), `DeadlockVictim` is MySQL's answer to a cycle of waits, `Crash` is a
restart of the API process.

Modelled from how the code uses it, and marked external in the map: InnoDB's exclusive
and shared row locks, its read view and its deadlock detection.

### How EventHub corresponds to the code

| action | code |
|---|---|
| `Register`, `Upgrade`, `UpgradeFails` | `register` and the upgrade in ServeHTTP, hub.go:101-120, 201-218 |
| `ReadEnds`, `FinishUnregister`, `Return` | the end of the read loop, `unregister` in its two halves (under the lock, and the closing of `done` after it), `<-writeDone` and the deferred second `unregister`, 122-142, 207-227 |
| `TakeEvent`, `WriteEvent`, `WriteFails`, `SeeDone` | the select loop of writeSocketEvents, 243-254 |
| `Publish`, `Route`, `Send` | `Publish` takes a list; for each event the recipients are copied under the read lock; `sendAll` sends to one after the other, dropping where a buffer is full, 51-99, 144-151 |
| `PeerChanges` | the browser stops reading, reads again, or is gone; external |

`phase[c]` is where the handler of connection `c` stands in ServeHTTP, `writer[c]` what
its writer goroutine does.

### How LivePage corresponds to the code

| action | code |
|---|---|
| `Init`, `Focus` | the effects of the mount and of focus, `refreshAll`, ManagerWorkspace.tsx:115-154, technician/page.tsx:50-86 |
| `Reads`, `Answers`, `Fails` | a request is served list by list, its answers come together (`Promise.all`) and set the state; or it fails, and that of the mount sends the user to /login |
| `Post`, `Refuse`, `CallCommits`, `CallUnacknowledged` | a command, and what becomes of it on the server: router.go:181-352 |
| `Respond`, `RespondFails`, `Refetch` | handleAssign and its like after `await`, ManagerWorkspace.tsx:156-209: the refetches of its own lists, or a toast |
| `Commit`, `Publish` | what others change, with or without an event; `sendAll` |
| `OnEvent`, `Breaks`, `OnClose`, `Retry`, `Register` | openEventSocket, api.ts:159-185, and the registration of hub.go |
| `Leave` | the clean-ups of the effects, or the browser going elsewhere |

`Changes` and `Signals` are what a command changes of its caller's lists and what is
published of it to the caller; `Refetches` is what the page asks for again.

### How BookingForm corresponds to the code

`form` is what the fields hold, `page` the last answer of ListJobs, `posted` the calls
under way. `mode` is the property of that name of `ManagerWorkspace`: on the page "assign"
there is the form, whose calendar, slots and button are disabled by `isSlotAvailable`; on
"jobs" the dialog, which disables nothing. `SelectTechnician`, `TypeTime`, `PickDate`,
`PickTime`, `OpenDialog` and `Cancel` fill in, `Send(p)` is the button, which stays enabled
while a call is under way, so that there may be several (as many as `Posts`), `Answered(p)`
and `Refused(p)` are the two outcomes, `OthersPlace` is anybody else's call. `SlotTimes` are
the times that are offered, in the code 08:00, 10:00, ..., 18:00. Instants are minutes
since 1970 in UTC and wall times are minutes on a clock of the zone, so that
`ZonedDateTimeToUTC` is zonedDateTimeToUTC with its two passes, and dates, weekdays and
times of day are divisions and remainders.

### How AuthSessions corresponds to the code

| action | code |
|---|---|
| `StartLogin`, `CreateSession`, `Welcome` | Login once the password is right: the session's end is computed from the clock, the row is inserted, the answer sets the cookie |
| `StartCall`, `CheckToken`, `ValidateSession`, `Touch`, `Finish` | `actor` and ActorFromToken: the token's expiry in whole seconds, the row's own and its revocation, last_seen_at; then the call runs, a socket until its reads end (hub.go:196-226) |
| `StartLogout`, `Revoke`, `Goodbye` | the logout handler: the UPDATE with COALESCE, which keeps an earlier time, and the answer that clears the cookie, whichever it holds by then |
| `Lost` | a statement fails, an answer is lost, the process dies |
| `Forget`, `Tick` | the cookie's age, the clock; external |

`call[c].good` records at a call's arrival whether its session was good; `asked` and
`answered` record logouts. No action reads the three.

### How NotificationService corresponds to the code

| action | code |
|---|---|
| `SelectForUpdate`, `Update`, `Commit`, `Answer`, `Refuse` | MarkRead, notifications/service.go:62-122, statement by statement; the deferred Rollback is in `Refuse` |
| `ListNotifications`, `UnreadCount`, `EndList` | the endpoint, router.go:319-335, whose two queries each see what is committed when they run |
| `Insert` | a commit of the scheduling service, as far as this table sees it |
| `Fail`, `Tick` | a statement fails or a commit's acknowledgement is lost (also in `Commit`); the clock |

`Stored` is what a DATETIME(6) keeps of a time of the server's clock. `Missing` and
`Forbidden` are the two reasons for which MarkRead turns a caller away. In `Inbox`, `asked`
says who has a call under way to mark which notification; a notification can only be read
while its recipient has, and it is his call that is answered. `Asked` is the same of the
service's handlers.

### How QuoteDesk corresponds to the code

`Type`, `Click`, `Created` and `Failed` are the form and handleCreateQuote with its three
outcomes, `Insert`, `Select` and `Publish` the statements of CreateQuote and the handler's
publication, `Fail` an error at any of them. The page may be told of an error, or that there
is no answer, at any point of the request (`Failed`, after which `told` holds); the server
goes on with it and ends it unheard (`Over`). `failed` records what the page has called
failed, which it does also when only its refetch failed, `doubled` what was sent twice at
once, `disowned` the quotes whose own request the page had called failed.

### Abstractions of the scheduling model

- A technician or manager and the user that goes with the row are one row, since no
  statement locks one of the two alone in a way that matters to the order of locks.
- A transaction's writes are applied at its COMMIT. Until then the rows it writes are
  locked by it, and plain reads of others do not see them under REPEATABLE READ.
- A window is known by its start; the schema and `CalculateWindow` fix its length.
- The id of a new job is any unused one: nothing depends on AUTO_INCREMENT's order.
- A request field that is not positive is `NoId`; it never reaches the database.
- Availability rules are a constant: the set of starts whose window lies inside a
  technician's rules. The service never writes rules.
- Not modelled: gap locks and locks of secondary indexes (the statements that lock
  find rows by primary key), lock queues (any waiter may get a free lock, which allows
  more behaviours), shared locks on organizations and users taken by foreign keys
  (no statement of the service locks these exclusively).

### Abstractions of the hub

- A connection is one WebSocket. A browser that reconnects is another connection of the
  same user.
- The maps by user and by role hold the same subscribers and change in one critical
  section; they are one set, and a message is addressed by looking at the user.
- A message carries the publication it belongs to and its place in it instead of the
  ids of rows; they serve the same end, telling one message from another.
- `received` is what the writer has handed to the socket. A write that finds the peer
  stalled waits, since nothing sets a write deadline; one whose peer is gone fails.
- Requests that ServeHTTP turns away (no cookie, no session) change nothing and are left
  out, and so is the end of the process, with which the hub's state simply ends.

### Abstractions of the page and the form

- A list is known by its version, the number of commits that have changed what this user
  sees of it. `Commit` may change any lists, with events for any of them; that not
  every commit is published is a restart or a lost acknowledgement.
- What is under way when the page is left changes nothing of it any more and is dropped.
- The user's name and the technicians (nothing changes them) are left out, and in
  `BookingForm` the selected quote and the status of jobs, which neither side's check of a
  window looks at.
- `lost`, `recovered`, `own` and `typed` are history: no action reads them.
- The zone has one summer: the clocks go forward and are set back once. Offsets are whole
  minutes, as Sydney's are.

### Abstractions of sessions, notifications and quotes

- A token is signed and is known by the session it was made for. Wrong passwords, forged
  tokens and calls without a cookie change nothing and are left out, and so is
  last_seen_at, which nothing reads.
- Users never change, so that comparing a token with its user's row can fail only with
  the query. Times are ticks; `TicksPerSecond` is what the token's expiry is cut to. That
  the session's end is kept in a DATETIME(6) is left out there: it moves it by half a
  microsecond.
- A notification is its recipient and the time it was read. Locks of ids that have no row
  are left out: no call waits for them. A row of another organization is one of another
  user, since users never change organization.
- A quote is the draft it was made of. A draft typed a second time counts as another.

## 3. Runs

| run | instance | what it shows |
|---|---|---|
| `races` | 2 handlers, 3 managers of which one is of another organization, 2 technicians who are off at the last of 4 starts, 2 quotes; 0-1 and 1-2 overlap and 0-2 touch; 3 requests, also ones of the wrong role, malformed or naming foreign rows | `NoOverlap`, `QuoteJobAgreement`, `DuplicateKeyNeverHit`, `RefusalsAreTrue`, `OwnersChangeJobs`, `TenantIsolation` |
| `reassignments` | 1 manager, 2 technicians, 2 starts, 4 requests: assign, move, move back, complete | `AuditChain`, `LockDiscipline`, `DecisionsHold`, `AffectedUsersAreNotified`, `AffectedListsAreSignalled`, `ImplementsBook` |
| `deadlocks` | 2 handlers, 2 managers, 4 requests: each technician can have a job while two calls, reschedules or others, lock them | `DeadlockNeedsReschedule` |
| `answers` | 3 handlers that contend for the locks of a few rows, a pool of 2 connections, weak fairness | `NoStandstill`, `RequestsAreAnswered` |
| `hubsafety` | connections of two managers of different organizations, 2 publishers with 2 publications of two events each, buffers of 2 | `TypeOK`, `OrderKept`, `OnlyAddressees`, `TornDown` |
| `hubdelivery` | one organization, 1 publisher with 2 publications, buffers of 1, fair goroutines | `ImplementsStreams`, `EventsArrive`, `PublishersAreNotBlocked`, `HandlersReturn` |
| `pagenews` | a technician's list of notifications, 2 requests and a command at a time, 3 versions, fair server, browser and timers | `StaleIsAccountedFor`, `OwnChangesAreShown`, `PageCatchesUp`, `SocketStops` |
| `pagefocus` | one list, 3 versions; a violation | `FocusRecovers` |
| `form` | form and dialog, 2 calls of the page at a time, a job, two managers, the Sundays 2026-10-04 and 2027-04-04 | `BookedAsTyped`, `BookedInsideHours`, `FormAgreesWithService` |
| `sessions` | 1 browser, 2 logins, 2 calls at a time, a clock of 4 ticks, 2 in a second and in a session's life | `AdmittedWereGood`, `RefusalsAreDue`, `LogoutRevokes`, `EndedSessionsFallSilent` |
| `notifications` | 2 users, 2 notifications, 2 calls at a time, two ticks of the clock, half a DATETIME(6) step each | `ImplementsInbox`, `CountFollowsList`, `CallsAreAnswered` |
| `quotes` | 2 drafts, 3 requests at a time, 3 quotes | `DuplicatesAreDue`, `SilentRowsAreDue` |

The type invariants are theorems and not checked again in these runs, but for that of the
hub, which also says that no channel is closed twice.

Two handlers suffice for the races: every hazard listed is between a transaction and one
other that commits in its gaps, and the theorems below hold for any number, the one about
deadlocks for cycles of any length. Three requests are an assignment that sets the stage
and two that race; four are needed to move a job and complete it. Two handlers can
deadlock and the third waits for a connection of the pool of two meanwhile, which is what
`answers` is about. `MaxRequests` bounds a behaviour; `Quiescent` is the stuttering of a
system that has answered all of them, so that TLC's deadlock check finds any handler stuck
for another reason.

For the hub, two connections are one that suffers and one that must not, two publishers
one that comes between the events of the other. A buffer of 2 can be full, half full
and empty while a third event is on its way; the code's 16 differs only in how long it
takes to fill, and the theorems hold for any capacity. With a buffer of 1 and
publications of one event each, the second event already finds the first one's buffer
full, which is what `EventsArrive` is about. `MaxPublications` bounds a behaviour.

For a page, two requests are one that is overtaken and one that overtakes it, and a buffer
of one can be full. Three versions are two commits, so that the page can fall behind what
it has shown. One list is enough for TLC: lists share the socket and a call and nothing
else, and the safety theorems hold for any number. The command of the run is one
without an event of its own, whose refetch is all the page hears of it; that the event and
the refetch of a command like createQuote may come in either order is covered by
`PageShowsItsChanges`, which holds for all commands. `Requests`, `Calls` and `MaxVersion`
bound a behaviour. A page that is left has nothing more to do, and a desk whose drafts have all
been sent neither, hence CHECK_DEADLOCK FALSE in the runs of both. For the form, the typed
times are those at which the clocks matter, 01:30 and 02:30, which is skipped on one of the
Sundays, where it is booked an hour later, and comes twice on the other, and 23:00 for the
end of the day. The rule goes from 01:00 to 12:00, and the two slots, 08:00 and 10:00,
touch. One job is enough, since what is judged is a window against a job; it can be the
page's manager's or another's, and moved while the page shows where it was. Two calls of the
page at a time are two clicks, or a click and one that was sent with what was filled in
before; they are alike, hence the symmetry.

For sessions, a browser's tabs are its calls, and a second browser would share nothing but
the clock with the first. Two sessions are one that is logged out of and one that a logout
must leave alone, or whose cookie it clears. A session that starts at tick 1 ends in the
middle of a second, where the two checks of expiry differ. The clock stops at `MaxNow`; a
session that starts late is then never over, one that starts at once is. For
notifications, two calls are two that race for a row, or one that marks between the two
queries of another; the second tick lies half-way between two values of the column, so
that the first answer and the row differ. For quotes, the third request is one that is
sent after the other two were told different things.

### The finding

`pagefocus` fails. README.md:124 of the repository says that the page refreshes on
window focus to recover stale UI state. Requests are not numbered and not aborted: an
older one, served before a commit, may be answered after that of the focus, and sets the
list back to what it was. Nothing is under way then, and the page stays stale until the
next event or focus. `StaleIsAccountedFor` names this as one of the three ways of
losing news ("overtaken").

Every property of a passing run has a mutant in PROJECT.json: a slip defined next to the
code's definition (a missing FOR UPDATE, a row read before it is locked, a completed job
that no longer blocks its slot, a Rollback forgotten, ...), under which TLC refutes it.

### Fairness

`Scheduling!FairSpec` has weak fairness of `Serve(h)` (a goroutine whose statement can run
runs it; Go schedules runnable goroutines, InnoDB grants free locks, `database/sql` hands
a freed connection to a waiter) and of `DeadlockVictim(h)` (InnoDB detects deadlocks at
once). Requests need not be sent, statements need not fail, and no progress rests on
either. With finitely many requests no handler is overtaken for ever; a queue at a lock is
not modelled, so nothing is said of an unbounded stream of requests.

`EventHub!FairSpec` has weak fairness of the handlers' own steps, of the publishers and of
`SeeDone`, and strong fairness of the writer's `Write`: the Go runtime runs runnable
goroutines, its select picks among ready cases at random, so that neither `done` nor the
buffer is passed over for ever, and a write that is blocked goes on when a peer that
stalls again and again reads in between. Browsers owe nothing: `PeerChanges`, `Register`,
`ReadEnds` and `Publish` are not fair. `HandlersReturn` speaks of connections whose reads
come to an end, and says so as a hypothesis, WF of `ReadEnds`: hub.go:211 and 233-237
justify it for every connection, since the read deadline is put off by pongs only and the
server never sends a ping, so that every read ends after 60 seconds.

`LivePage!FairSpec` has weak fairness of `Serve` (a request is answered or fails), `Finish`
(a handler that has committed answers or its answer is lost), `Publish` and `Reconnect`
(timers and callbacks run), and strong fairness of `OnEvent` and `Refetch`: the browser
runs every callback it has queued, but in the model the bounded requests can be taken by
others again and again. Nobody owes a commit, a command, a focus or a break.
`BookingForm` and `QuoteDesk` have no liveness: a form is in no hurry.

`AuthSessions!FairSpec` has weak fairness of `Finish` alone: a call that was let in or
refused ends, a socket at its read deadline at the latest (see above). Nobody needs to log
in, call or log out, and the clock may stop. `NotificationService!FairSpec` has weak
fairness of the steps of MarkRead after its SELECT and of the list's, and strong fairness
of the SELECT ... FOR UPDATE, since the row lock may be taken by others in between and
InnoDB grants locks in order. No statement needs to fail.

## 4. Theorems

All are proved for every number of handlers, rows, requests and organizations, from the
named assumptions `RowsAssumption`, `TimeAssumption` (rows of different tables are
different, instants are integers, windows have a positive length) and
`ServiceAssumption`.

| theorem | says |
|---|---|
| `TypeCorrect` | `Spec => []TypeOK` |
| `NoDoubleBooking` | `Spec => []NoOverlap` |
| `QuotesAgree` | `Spec => []QuoteJobAgreement` |
| `QuoteIsFreeAtInsert` | `Spec => []DuplicateKeyNeverHit` |
| `LocksAreDisciplined` | `Spec => []LockDiscipline` |
| `DecisionsStay` | `Spec => []DecisionsHold` |
| `ServiceImplementsBook` | `Spec => ImplementsBook` |
| `OwnersDecide` | `Spec => OwnersChangeJobs` |
| `AuditIsAChain` | `Spec => []AuditChain` |
| `RefusalsTellTheTruth` | `Spec => []RefusalsAreTrue` |
| `TenantsAreIsolated` | `Spec => []TenantIsolation` |
| `AffectedAreNotified` | `Spec => AffectedUsersAreNotified` |
| `ChangedListsAreSignalled` | `Spec => AffectedListsAreSignalled` |
| `DeadlocksNeedReschedule` | `Spec => []DeadlockNeedsReschedule` |
| `ServiceGoesOn` | `Spec => []NoStandstill` |
| `OverlapIsASharedInstant` | `Overlaps(a, b)` is that the windows from `a` and `b` share an instant |
| `HubTypeCorrect` | `Spec => []TypeOK`, of the hub |
| `HubTearsDown` | `Spec => []TornDown` |
| `HubKeepsAddresses` | `Spec => []OnlyAddressees` |
| `HubKeepsOrder` | `Spec => []OrderKept` |
| `HubImplementsStreams` | `Spec => ImplementsStreams` |
| `PageTypeCorrect` | `Spec => []TypeOK`, of a page |
| `PageIsNotStaleUnawares` | `Spec => []StaleIsAccountedFor` |
| `PageShowsItsChanges` | `Spec => []OwnChangesAreShown` |
| `FormTypeCorrect` | `Spec => []TypeOK`, of the form |
| `JobsAreAsTyped` | `Spec => []BookedAsTyped` |
| `JobsAreInsideHours` | `Spec => []BookedInsideHours` |
| `PageAndServiceAgree` | `Spec => []FormAgreesWithService` |
| `SessionsTypeCorrect` | `Spec => []TypeOK`, of sessions |
| `AdmittedCallsWereGood` | `Spec => []AdmittedWereGood` |
| `RefusalsAreJustified` | `Spec => []RefusalsAreDue` |
| `LogoutsRevoke` | `Spec => []LogoutRevokes` |
| `NotificationsTypeCorrect` | `Spec => []TypeOK`, of notifications |
| `CountsFollowLists` | `Spec => []CountFollowsList` |
| `ServiceImplementsInbox` | `Spec => ImplementsInbox` |
| `DeskTypeCorrect` | `Spec => []TypeOK`, of the form for quotes |
| `DuplicatesHaveACause` | `Spec => []DuplicatesAreDue` |
| `SilentRowsHaveACause` | `Spec => []SilentRowsAreDue` |

The argument. `NoOverlap` alone is not inductive: a state in which a handler stands at
`commit` with a window that has meanwhile been taken satisfies it, and its next step
breaks it. The inductive invariant `IInv` adds (1) `LockDiscipline`: two transactions never
have the same row locked, and at each statement a handler holds the rows it relies on;
(2) `DecisionsHold`: what it has read and decided is true of the *committed* tables. The
heart is the step in which another handler commits: it can only change jobs of
technicians it has locked (the job's technician from the join, the target technician
from its own SELECT), hence none of those another transaction has decided about, so
its read view is still current and its free window still free. With `IInv`, a commit is
a step of the book.

`OwnersDecide` is the same invariant used once more: a commit is decided on the row as
it is. So are the theorems about what a commit leaves behind, which all start from
`Writes`, the whole effect of one commit on the tables, the log and the notifications.
`AuditIsAChain`: the new line begins where the row is, because the row was read under the
lock that is still held, and `ChainGrows` says that such a line makes a longer chain.
`AffectedAreNotified` and `ChangedListsAreSignalled` compare the lists before and after
with the addressees of the commit's notices and events, one operation at a time.

`RefusalsTellTheTruth` and `TenantsAreIsolated` are about states between commits and need
an invariant of their own, `Messages`. It says what the tables show of each error
(`Answered`) and why they go on showing it until the Rollback: a window stays taken while
the refused transaction has the technician locked, a job stays with another technician
while it has the job locked, and the rest (a scheduled quote, a completed job, the manager
of a job, organizations) nobody can undo. `Addressed` and `NoticesStay` say the same of
events under way and of notifications, which are never taken back.

`DeadlocksNeedReschedule` needs an order. Without reschedules, locks are taken in the
order quote or job, job's quote, technician, manager; the invariant `LocksInOrder` says
that a handler which is not rescheduling waits only for rows that rank above all it
holds, so that along a chain of waits the rank of the row waited for climbs
(`WaitingClimbs`) and the chain cannot close. RescheduleJob holds a manager when it goes
back for the target technician, which is the one exception. `ServiceGoesOn` is its
complement, for a service without deadlocks stands still if somebody waits for what is
never given back. The invariants are that whoever has a row locked or a connection is in
the middle of a transaction or about to roll back (`KeepsOrder`, `AllConnected`), so that
those who are waited for either go on or wait themselves; if all of them wait, there is a
cycle, and if nobody waits for a row, the pool is full of handlers that go on.

`OrderKept` speaks of what has been sent; it is not inductive, for the next message could
be anything. The invariant `InLine` adds that a publisher sends one message at a time,
that what is still to be sent comes after what has been sent to each of its recipients,
and that publications are numbered apart, so that other publishers cannot disturb the
order. That the recipients of a message are fixed before the next one is routed is
essential: the slip `RouteAhead` shows it. `HubImplementsStreams` maps what waits for a
connection to its writer's hand followed by its channel, and what is owed to all outboxes
together; it needs `InLine` once more, since a delivery that two publishers owed would be
taken from both, and `Streams`: the hand holds one event exactly while it is being
written. `OnlyAddressees` holds of the messages under way (`Addresses`), and `TornDown`
follows from the life of a connection (`Lives`).

The two theorems about a page rest on `Current`: nothing of a list, in a request, a
signal, a command or on the page, is newer than the list, and a call that has committed
has versions only of the lists its command changes. With it, a request served with the
committed version stays good news until the next commit of that list, whose own signal
takes its place.

Of the form, `JobsAreAsTyped` is arithmetic (`RoundTrip`: after two passes the offset is
the one that holds at the result, unless the clocks skip the wall time) on top of the
invariant `Placed`, that each job is at the instant its typed value stands for and the
service has found it available. `JobsAreInsideHours` needs that the clocks only go forward
within a window (`ClocksGoForward`) and that between two times of one day there are only
times of that day (`Between`). Its exception is real: of a window that begins before the
clocks are set back, both sides compare the two ends only, so that a job from 01:00 to
03:00 summer time passes a rule that ends at 02:30.

Of sessions, the invariant has four parts: a session is revoked only when a logout was
asked for, and at a time that has passed (`RowOK`); what a logout has been answered is in
the row (`AnsweredOK`); if a session is good while a call is being checked, it was good
when the call arrived, and a call that has been refused is refused for a reason that stays
(`CallOK`); and cookies are of sessions that exist (`JarOK`). `Aging` says what no step
takes back (rows and their ends, revocations, requests to log out, the clock), so that
each part is kept by the steps of others. `CutIsShort` bounds what the token's whole
seconds cut off, for any resolution of the clock.

Of notifications, the invariant is that of a lock (`MarkOK`): a call that is past its
SELECT has its row locked, and while it has, the row is as it was found, so that the time
a call is about to write or to answer with is the one the row keeps. The first answer
gives the time of the clock and the row keeps that time rounded; that rounding twice is
rounding once ties the two together. For `CountFollowsList`, `ListOK` adds up what each
step of others does to the number of unread rows; that these are finitely many is assumed
(`NotificationAssumption`: a table has finitely many rows).

Of quotes, the invariant says for each request which row it has made, and for each two
requests with one draft that the draft was sent twice at once (`Alone`). Each row is
settled (`Settled`): it has a cause already, its request is under way, or its draft is
neither in the form nor in a request, so that no other row will be made of it.

The assumptions are `RowsAssumption`, `TimeAssumption`, `ServiceAssumption`,
`HubAssumption`, `PageAssumption`, `SessionAssumption`, `NotificationAssumption`,
`QuoteAssumption`, `ZoneAssumption` (the zone lies east of Greenwich, summer lasts longer
than its offset), `FormAssumption` and `AvailabilityAssumption`; TLC evaluates them in the
runs.

Only model-checked: the liveness properties `RequestsAreAnswered`, `EventsArrive`,
`PublishersAreNotBlocked`, `HandlersReturn`, `PageCatchesUp`, `SocketStops`,
`CallsAreAnswered` and `EndedSessionsFallSilent`. They hold under fairness, whose proof
needs ENABLED and induction over the steps still to take, and neither is in the prover's
reach; `ServiceGoesOn` is what can be said of `RequestsAreAnswered` without either. The
invariants and action properties of all passing runs are theorems, and so are the three
refinements.

## 5. What is not modelled, and the plan

Not modelled: the wiring of the services and the migration and seed commands, which run
before there is anything to interleave with; seed rows; the page shell and the login form,
whose only state is text; popups, which show for four seconds what a list contains anyway;
tests and their helpers. ListTechnicians and ListQuotes read rows that never change or are
in `LivePage` as versions. A page whose cookie changes under it, because another tab logs
in, is neither in `LivePage`, which is the page of one user, nor more than a cookie in
`AuthSessions`; the code has no step that would notice it.

Part of the domain is left as data: the values of statuses and roles, error texts, the
formatting of addresses and times. Of the schema, indexes and column widths.

To come: for the hub and for notifications what `ServiceGoesOn` says of the service, that
whoever waits waits for someone who goes on.
