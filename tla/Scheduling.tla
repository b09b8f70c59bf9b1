----------------------------- MODULE Scheduling -----------------------------
(***************************************************************************)
(* The scheduling service: AssignJob, RescheduleJob and CompleteJob of     *)
(* backend/internal/scheduling/service.go, called concurrently by the HTTP *)
(* handlers of backend/internal/httpapi/router.go, each in one InnoDB      *)
(* transaction at the server's default isolation (REPEATABLE READ).        *)
(*                                                                         *)
(* A handler goes from one statement to the next:                          *)
(*                                                                         *)
(*   assign      begin, lockQuote, ----------------.                       *)
(*   reschedule  begin, lockJob, lockJobQuote,     |                       *)
(*               lockJobTechnician, lockJobManager,|                       *)
(*                                     lockTechnician, availability,       *)
(*                                     overlap, (assign: insert,) commit   *)
(*   complete    begin, lockJob, ..., lockJobManager, commit               *)
(*                                                                         *)
(* and ends in publish (the transaction committed, the events go to the    *)
(* hub) or in refuse (the service returned an error, the deferred Rollback *)
(* and the error response are due).                                        *)
(*                                                                         *)
(* A transaction's own writes are applied at commit: until then no other   *)
(* transaction sees them, and the rows they touch are locked.              *)
(*                                                                         *)
(* Some definitions are preceded by a variant of theirs that no action     *)
(* uses: what a plausible slip would make of the code. They show that the  *)
(* properties can fail.                                                    *)
(***************************************************************************)
EXTENDS Domain, FiniteSets

CONSTANTS
  Handlers,      \* the goroutines that serve requests
  PoolSize,      \* SetMaxOpenConns
  Requests,      \* the requests clients send
  MaxRequests    \* bound: how many requests are sent in a behaviour

ASSUME ServiceAssumption ==
  /\ PoolSize \in Nat \ {0}
  /\ Requests \subseteq AllRequests
  /\ MaxRequests \in Nat

VARIABLES
  jobs,            \* the jobs table, as committed
  quotes,          \* quotes.status, as committed
  audit,           \* schedule_audit_logs by job, in insertion order
  notifications,   \* notifications by job, in insertion order
  pc,              \* the statement each handler is about to run
  request,         \* the call it serves
  current,         \* the row selectJobForUpdate returned
  view,            \* the transaction's read view of jobs
  held,            \* rows it has locked FOR UPDATE
  shared,          \* managers rows it has share-locked for a foreign key
  reply,           \* the error the service returned
  events,          \* the events the service returned
  open,            \* handlers that hold a connection of the pool
  started          \* requests sent so far

tables == <<jobs, quotes, audit, notifications>>
locks == <<held, shared>>
vars == <<tables, pc, request, current, view, locks, reply, events, open,
          started>>

NoRequest == [op |-> "none"]
NoView == NoId

Locking == {"lockQuote", "lockJob", "lockJobQuote", "lockJobTechnician",
            "lockJobManager", "lockTechnician", "insert"}

InTransaction == Locking \cup {"availability", "overlap", "commit"}

Control == InTransaction \cup {"idle", "begin", "publish", "refuse"}

TypeOK ==
  /\ jobs \in [Jobs -> JobRow \cup {NoJob}]
  /\ quotes \in [Quotes -> QuoteStatus]
  /\ audit \in [Jobs -> Seq(AuditRow)]
  /\ notifications \in [Jobs -> Seq(NotificationRow)]
  /\ pc \in [Handlers -> Control]
  /\ request \in [Handlers -> AllRequests \cup {NoRequest}]
  /\ current \in [Handlers -> JobRow \cup {NoJob}]
  /\ view \in [Handlers -> [Jobs -> JobRow \cup {NoJob}] \cup {NoView}]
  /\ held \in [Handlers -> SUBSET Rows]
  /\ shared \in [Handlers -> SUBSET Managers]
  /\ reply \in [Handlers -> ErrorCode \cup {"none"}]
  /\ events \in [Handlers -> Seq(Event)]
  /\ open \subseteq Handlers
  /\ started \in 0..MaxRequests

Init ==
  /\ jobs = [j \in Jobs |-> NoJob]
  /\ quotes = [q \in Quotes |-> "unscheduled"]
  /\ audit = [j \in Jobs |-> <<>>]
  /\ notifications = [j \in Jobs |-> <<>>]
  /\ pc = [h \in Handlers |-> "idle"]
  /\ request = [h \in Handlers |-> NoRequest]
  /\ current = [h \in Handlers |-> NoJob]
  /\ view = [h \in Handlers |-> NoView]
  /\ held = [h \in Handlers |-> {}]
  /\ shared = [h \in Handlers |-> {}]
  /\ reply = [h \in Handlers |-> "none"]
  /\ events = [h \in Handlers |-> <<>>]
  /\ open = {}
  /\ started = 0

-----------------------------------------------------------------------------
(* Control and row locks.                                                  *)

Goto(h, label) ==
  /\ pc' = [pc EXCEPT ![h] = label]
  /\ UNCHANGED reply

Fail(h, code) ==
  /\ pc' = [pc EXCEPT ![h] = "refuse"]
  /\ reply' = [reply EXCEPT ![h] = code]

(* Returns the error verdict, or goes on at label when there is none.      *)
Decide(h, verdict, label) ==
  IF verdict = "none" THEN Goto(h, label) ELSE Fail(h, verdict)

(* FOR UPDATE waits until no other transaction has the row in either mode. *)
Acquire(h, row) ==
  /\ \A o \in Handlers \ {h} : row \notin held[o] \cup shared[o]
  /\ held' = [held EXCEPT ![h] = @ \cup {row}]
  /\ UNCHANGED shared

(* The row the SELECT over jobs JOIN quotes JOIN technicians JOIN managers *)
(* locks next. Slip: the managers row before the technicians row.          *)
JoinedRowManagerFirst(h) ==
  CASE pc[h] = "lockJobQuote" -> current[h].quote
    [] pc[h] = "lockJobTechnician" -> current[h].manager
    [] pc[h] = "lockJobManager" -> current[h].technician

JoinedRow(h) ==
  CASE pc[h] = "lockJobQuote" -> current[h].quote
    [] pc[h] = "lockJobTechnician" -> current[h].technician
    [] pc[h] = "lockJobManager" -> current[h].manager

(* The row a handler's next statement has to lock.                         *)
WantedRow(h) ==
  CASE pc[h] = "lockQuote" -> request[h].quote
    [] pc[h] = "lockJob" -> request[h].job
    [] pc[h] = "lockTechnician" -> request[h].technician
    [] pc[h] = "insert" -> request[h].actor
    [] OTHER -> JoinedRow(h)

Blockers(h) ==
  IF pc[h] \notin Locking THEN {}
  ELSE {o \in Handlers \ {h} :
          \/ WantedRow(h) \in held[o]
          \/ pc[h] # "insert" /\ WantedRow(h) \in shared[o]}

(* h waits in a set of transactions each waiting for another of the set.   *)
OnWaitCycle(h) ==
  \E D \in SUBSET Handlers :
    /\ h \in D
    /\ \A d \in D : Blockers(d) \cap D # {}
    /\ \E d \in D : h \in Blockers(d)

(* The first plain SELECT of a transaction fixes what all of them see.     *)
ReadView(h) == IF view[h] = NoView THEN jobs ELSE view[h]

InOrgUnchecked(h, row) == TRUE      \* slip: no organization_id = ? filter

InOrg(h, row) == OrgOf[row] = OrgOf[request[h].actor]

-----------------------------------------------------------------------------
(* A request arrives; the service checks role and input before it asks the *)
(* pool for a connection.                                                  *)

StartRequest(h) ==
  /\ pc[h] = "idle"
  /\ started < MaxRequests
  /\ started' = started + 1
  /\ \E r \in Requests :
       /\ request' = [request EXCEPT ![h] = r]
       /\ \/ ~RoleAllows(r) /\ Fail(h, "forbidden")
          \/ RoleAllows(r) /\ ~ValidInput(r) /\ Fail(h, "invalid_input")
          \/ RoleAllows(r) /\ ValidInput(r) /\ Goto(h, "begin")
  /\ UNCHANGED <<tables, current, view, locks, events, open>>

BeginTx(h) ==
  /\ pc[h] = "begin"
  /\ Cardinality(open) < PoolSize
  /\ open' = open \cup {h}
  /\ Goto(h, IF request[h].op = "assign" THEN "lockQuote" ELSE "lockJob")
  /\ UNCHANGED <<tables, request, current, view, locks, events, started>>

-----------------------------------------------------------------------------
(* The locking reads.                                                      *)

QuoteVerdict(h) ==
  IF ~InOrg(h, request[h].quote) THEN "not_found"
  ELSE IF quotes[request[h].quote] # "unscheduled"
       THEN "quote_already_scheduled" ELSE "none"

SelectQuoteForUpdate(h) ==
  /\ pc[h] = "lockQuote"
  /\ Acquire(h, request[h].quote)
  /\ Decide(h, QuoteVerdict(h), "lockTechnician")
  /\ UNCHANGED <<tables, request, current, view, events, open, started>>

(* Slip: the row is read first and locked by the UPDATE only.              *)
SelectJobBeforeLocking(h) ==
  /\ pc[h] = "lockJob"
  /\ IF jobs[request[h].job] = NoJob
     THEN Fail(h, "not_found") /\ UNCHANGED current
     ELSE /\ Goto(h, "lockJobQuote")
          /\ current' = [current EXCEPT ![h] = jobs[request[h].job]]
  /\ UNCHANGED <<tables, request, view, locks, events, open, started>>

(* selectJobForUpdate reads and locks the jobs row, then the rows it joins.*)
SelectJobForUpdate(h) ==
  /\ pc[h] = "lockJob"
  /\ LET row == jobs[request[h].job] IN
       \/ /\ row = NoJob
          /\ Fail(h, "not_found")
          /\ UNCHANGED <<locks, current>>
       \/ /\ row # NoJob
          /\ Acquire(h, request[h].job)
          /\ \/ /\ ~InOrg(h, row.manager)
                /\ Fail(h, "not_found")
                /\ UNCHANGED current
             \/ /\ InOrg(h, row.manager)
                /\ Goto(h, "lockJobQuote")
                /\ current' = [current EXCEPT ![h] = row]
  /\ UNCHANGED <<tables, request, view, events, open, started>>

LockJobQuote(h) ==
  /\ pc[h] = "lockJobQuote"
  /\ Acquire(h, JoinedRow(h))
  /\ Goto(h, "lockJobTechnician")
  /\ UNCHANGED <<tables, request, current, view, events, open, started>>

LockJobTechnician(h) ==
  /\ pc[h] = "lockJobTechnician"
  /\ Acquire(h, JoinedRow(h))
  /\ Goto(h, "lockJobManager")
  /\ UNCHANGED <<tables, request, current, view, events, open, started>>

(* RescheduleJob is for the manager of the job, CompleteJob for its        *)
(* technician. Slip: CompleteJob does not compare.                         *)
OwnsUnlessCompleting(h) ==
  request[h].op = "complete" \/ current[h].manager = request[h].actor

Owns(h) ==
  IF request[h].op = "reschedule"
  THEN current[h].manager = request[h].actor
  ELSE current[h].technician = request[h].actor

(* Slip: only CompleteJob looks at the status.                             *)
FrozenToTechnician(h) ==
  request[h].op = "complete" /\ current[h].status = "completed"

Frozen(h) == current[h].status = "completed"

(* What RescheduleJob and CompleteJob make of the row they locked.         *)
JobVerdict(h) ==
  IF ~Owns(h) THEN "forbidden"
  ELSE IF ~Frozen(h) THEN "none"
  ELSE IF request[h].op = "reschedule" THEN "completed_job_immutable"
  ELSE "job_already_completed"

LockJobManager(h) ==
  /\ pc[h] = "lockJobManager"
  /\ Acquire(h, JoinedRow(h))
  /\ Decide(h, JobVerdict(h), IF request[h].op = "reschedule"
                              THEN "lockTechnician" ELSE "commit")
  /\ UNCHANGED <<tables, request, current, view, events, open, started>>

(* Slip: FOR UPDATE left out, so the SELECT locks nothing and opens the    *)
(* read view.                                                              *)
SelectTechnicianPlainly(h) ==
  /\ pc[h] = "lockTechnician"
  /\ Decide(h, IF InOrg(h, request[h].technician) THEN "none" ELSE "not_found",
            "availability")
  /\ view' = [view EXCEPT ![h] = ReadView(h)]
  /\ UNCHANGED <<tables, request, current, locks, events, open, started>>

SelectTechnicianForUpdate(h) ==
  /\ pc[h] = "lockTechnician"
  /\ Acquire(h, request[h].technician)
  /\ Decide(h, IF InOrg(h, request[h].technician) THEN "none" ELSE "not_found",
            "availability")
  /\ UNCHANGED <<tables, request, current, view, events, open, started>>

-----------------------------------------------------------------------------
(* The plain reads.                                                        *)

EnsureTechnicianAvailable(h) ==
  /\ pc[h] = "availability"
  /\ view' = [view EXCEPT ![h] = ReadView(h)]
  /\ Decide(h, IF request[h].startsAt \in AvailableStarts[request[h].technician]
               THEN "none" ELSE "technician_unavailable", "overlap")
  /\ UNCHANGED <<tables, request, current, locks, events, open, started>>

(* Slip: a completed job does not count.                                   *)
BlocksUntilDone(row, r) ==
  /\ row.technician = r.technician
  /\ row.status = "scheduled"
  /\ Overlaps(row.startsAt, r.startsAt)

(* A jobs row ensureNoOverlap counts against a request.                    *)
Blocks(row, r) ==
  /\ row.technician = r.technician
  /\ Overlaps(row.startsAt, r.startsAt)

(* The COUNT over the read view; a reschedule leaves its own job out.      *)
Conflicts(h) ==
  \E j \in Jobs :
    /\ ReadView(h)[j] # NoJob
    /\ InOrg(h, ReadView(h)[j].manager)
    /\ Blocks(ReadView(h)[j], request[h])
    /\ request[h].op = "reschedule" => j # request[h].job

(* No later statement reads the view, so it is dropped here.               *)
EnsureNoOverlap(h) ==
  /\ pc[h] = "overlap"
  /\ Decide(h, IF Conflicts(h) THEN "schedule_conflict" ELSE "none",
            IF request[h].op = "assign" THEN "insert" ELSE "commit")
  /\ view' = [view EXCEPT ![h] = NoView]
  /\ UNCHANGED <<tables, request, current, locks, events, open, started>>

-----------------------------------------------------------------------------
(* The writes.                                                             *)

QuoteHasJob(q) == \E j \in Jobs : jobs[j] # NoJob /\ jobs[j].quote = q

(* INSERT INTO jobs takes a share lock on the managers row it refers to    *)
(* (the other rows it refers to are locked already) and fails on the       *)
(* unique key of quote_id.                                                 *)
InsertJob(h) ==
  /\ pc[h] = "insert"
  /\ \A o \in Handlers \ {h} : request[h].actor \notin held[o]
  /\ shared' = [shared EXCEPT ![h] = @ \cup {request[h].actor}]
  /\ Decide(h, IF QuoteHasJob(request[h].quote)
               THEN "quote_already_scheduled" ELSE "none", "commit")
  /\ UNCHANGED <<tables, held, request, current, view, events, open, started>>

AssignedRow(r) ==
  [quote |-> r.quote, technician |-> r.technician, manager |-> r.actor,
   startsAt |-> r.startsAt, status |-> "scheduled"]

(* The row a transaction leaves behind, given the row it found.            *)
NewRow(r, old) ==
  CASE r.op = "assign" -> AssignedRow(r)
    [] r.op = "reschedule" -> [old EXCEPT !.technician = r.technician,
                                          !.startsAt = r.startsAt]
    [] r.op = "complete" -> [old EXCEPT !.status = "completed"]

AuditAction(r) ==
  CASE r.op = "assign" -> "job_assigned"
    [] r.op = "reschedule" -> "job_rescheduled"
    [] r.op = "complete" -> "job_completed"

AuditLine(r, old) ==
  [action |-> AuditAction(r), actor |-> r.actor,
   previous |-> IF r.op = "assign" THEN NoPlace ELSE PlaceOf(old),
   new |-> PlaceOf(NewRow(r, old))]

Notice(user, type) == [to |-> user, type |-> type]

(* The job goes from one technician to another. Slip: the start is         *)
(* compared instead.                                                       *)
MovesInTime(r, old) == old.startsAt # r.startsAt

Moves(r, old) == old.technician # r.technician

Notices(r, old) ==
  CASE r.op = "assign" -> <<Notice(r.technician, "job_assigned")>>
    [] r.op = "reschedule" ->
         <<Notice(r.technician, "job_updated")>> \o
           (IF Moves(r, old) THEN <<Notice(old.technician, "job_updated")>>
            ELSE <<>>)
    [] r.op = "complete" -> <<Notice(old.manager, "job_completed")>>

Signal(type, to) == [type |-> type, to |-> to]

Told(user) ==
  <<Signal("notification.created", user), Signal("jobs.changed", user)>>

Events(r, old) ==
  CASE r.op = "assign" -> Told(r.technician) \o
         <<Signal("quotes.changed", OrgOf[r.actor]),
           Signal("jobs.changed", r.actor)>>
    [] r.op = "reschedule" ->
         Told(r.technician) \o
           (IF Moves(r, old) THEN Told(old.technician) ELSE <<>>) \o
           <<Signal("jobs.changed", r.actor)>>
    [] r.op = "complete" ->
         Told(old.manager) \o <<Signal("jobs.changed", r.actor)>>

QuotesKept(r) == quotes            \* slip: no UPDATE quotes

QuotesAfter(r) ==
  IF r.op = "assign" THEN [quotes EXCEPT ![r.quote] = "scheduled"] ELSE quotes

(* The rows of the transaction become visible, for job j.                  *)
Write(r, old, j) ==
  /\ jobs' = [jobs EXCEPT ![j] = NewRow(r, old)]
  /\ quotes' = QuotesAfter(r)
  /\ audit' = [audit EXCEPT ![j] = Append(@, AuditLine(r, old))]
  /\ notifications' = [notifications EXCEPT ![j] = @ \o Notices(r, old)]

(* The job a commit writes: an id not used yet, or the one requested.      *)
WrittenJob(h, j) ==
  IF request[h].op = "assign" THEN jobs[j] = NoJob ELSE j = request[h].job

Unlock(h) ==
  /\ held' = [held EXCEPT ![h] = {}]
  /\ shared' = [shared EXCEPT ![h] = {}]

EndTransaction(h) == Unlock(h) /\ open' = open \ {h}

(* COMMIT takes effect. Its acknowledgement can be lost, and then the      *)
(* service returns an error and no events.                                 *)
Commit(h) ==
  /\ pc[h] = "commit"
  /\ \E j \in Jobs : WrittenJob(h, j) /\ Write(request[h], current[h], j)
  /\ EndTransaction(h)
  /\ \/ /\ Goto(h, "publish")
        /\ events' = [events EXCEPT ![h] = Events(request[h], current[h])]
     \/ /\ Fail(h, "internal_error")
        /\ UNCHANGED events
  /\ UNCHANGED <<request, current, view, started>>

-----------------------------------------------------------------------------
(* Ends of a request, and what goes wrong on the way.                      *)

Forget(h) ==
  /\ pc' = [pc EXCEPT ![h] = "idle"]
  /\ request' = [request EXCEPT ![h] = NoRequest]
  /\ current' = [current EXCEPT ![h] = NoJob]
  /\ view' = [view EXCEPT ![h] = NoView]
  /\ reply' = [reply EXCEPT ![h] = "none"]
  /\ events' = [events EXCEPT ![h] = <<>>]

(* hub.Publish(events), then the success response.                         *)
Publish(h) ==
  /\ pc[h] = "publish"
  /\ Forget(h)
  /\ UNCHANGED <<tables, locks, open, started>>

(* Slip: no deferred Rollback, so the connection stays with the            *)
(* transaction.                                                            *)
RefuseWithoutRollback(h) ==
  /\ pc[h] = "refuse"
  /\ Forget(h)
  /\ UNCHANGED <<tables, locks, open, started>>

(* The deferred Rollback (nothing is left to do after a commit or before   *)
(* the transaction), then the error response.                              *)
Refuse(h) ==
  /\ pc[h] = "refuse"
  /\ EndTransaction(h)
  /\ Forget(h)
  /\ UNCHANGED <<tables, started>>

(* A statement returns an error: a lock wait timeout, a cancelled request, *)
(* a lost connection, a pool that does not answer.                         *)
StatementFails(h) ==
  /\ pc[h] \in InTransaction \cup {"begin"}
  /\ Fail(h, "internal_error")
  /\ UNCHANGED <<tables, request, current, view, locks, events, open, started>>

(* InnoDB breaks a cycle of waits by rolling back one of the transactions, *)
(* whose statement fails; the service does not try again.                  *)
DeadlockVictim(h) ==
  /\ OnWaitCycle(h)
  /\ Fail(h, "internal_error")
  /\ Unlock(h)
  /\ UNCHANGED <<tables, request, current, view, events, open, started>>

(* The API process dies and is started again; the database rolls back what *)
(* was open and events not yet published are lost.                         *)
Crash ==
  /\ \E h \in Handlers : pc[h] # "idle"
  /\ pc' = [h \in Handlers |-> "idle"]
  /\ request' = [h \in Handlers |-> NoRequest]
  /\ current' = [h \in Handlers |-> NoJob]
  /\ view' = [h \in Handlers |-> NoView]
  /\ held' = [h \in Handlers |-> {}]
  /\ shared' = [h \in Handlers |-> {}]
  /\ reply' = [h \in Handlers |-> "none"]
  /\ events' = [h \in Handlers |-> <<>>]
  /\ open' = {}
  /\ UNCHANGED <<tables, started>>

(* Every request has been sent and answered.                               *)
Quiescent ==
  /\ started = MaxRequests
  /\ \A h \in Handlers : pc[h] = "idle"
  /\ UNCHANGED vars

Serve(h) ==
  \/ BeginTx(h)
  \/ SelectQuoteForUpdate(h)
  \/ SelectJobForUpdate(h)
  \/ LockJobQuote(h)
  \/ LockJobTechnician(h)
  \/ LockJobManager(h)
  \/ SelectTechnicianForUpdate(h)
  \/ EnsureTechnicianAvailable(h)
  \/ EnsureNoOverlap(h)
  \/ InsertJob(h)
  \/ Commit(h)
  \/ Publish(h)
  \/ Refuse(h)

Next ==
  \/ \E h \in Handlers :
       \/ StartRequest(h)
       \/ Serve(h)
       \/ StatementFails(h)
       \/ DeadlockVictim(h)
  \/ Crash
  \/ Quiescent

Spec == Init /\ [][Next]_vars

(* A handler keeps going as long as its statement can run: the database    *)
(* grants free locks, detects deadlocks, and the pool hands out free       *)
(* connections. Clients need not send requests, nothing needs to fail.     *)
FairSpec ==
  /\ Spec
  /\ \A h \in Handlers : WF_vars(Serve(h)) /\ WF_vars(DeadlockVictim(h))
=============================================================================
