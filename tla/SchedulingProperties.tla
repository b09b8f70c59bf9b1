----------------------- MODULE SchedulingProperties ------------------------
(***************************************************************************)
(* What must be true of the scheduling service, and the invariant that     *)
(* explains why: which rows a handler has locked at each statement, and    *)
(* which of its decisions the locks keep true until it commits.            *)
(***************************************************************************)
EXTENDS Scheduling

-----------------------------------------------------------------------------
(* What clients read.                                                      *)

(* ListJobs: a manager's own jobs, a technician's jobs.                    *)
JobsOf(user) ==
  {<<j, jobs[j]>> : j \in {k \in Jobs :
     jobs[k] # NoJob /\ user \in {jobs[k].manager, jobs[k].technician}}}

(* ListQuotes of an organization, and ListNotifications of a user.         *)
QuotesOf(org) == {<<q, quotes[q]>> : q \in {p \in Quotes : OrgOf[p] = org}}

Inbox(user) ==
  [j \in Jobs |-> {i \in DOMAIN notifications[j] :
                    notifications[j][i].to = user}]

-----------------------------------------------------------------------------
(* Properties.                                                             *)

Disjoint(a, b) == a + WindowLength <= b \/ b + WindowLength <= a

(* No technician is ever booked for two windows that share an instant,     *)
(* however assignments and reschedules of several managers interleave      *)
(* (service.go:101-110, 193-202: the technician row is locked before the   *)
(* overlap count, whose read view is opened after the lock is granted).    *)
NoOverlap ==
  \A i, j \in Jobs :
    i # j /\ jobs[i] # NoJob /\ jobs[j] # NoJob
      /\ jobs[i].technician = jobs[j].technician
    => Disjoint(jobs[i].startsAt, jobs[j].startsAt)

(* A quote has at most one job, and its status tells whether it has one    *)
(* (service.go:93-128; the status and the jobs row are written by the same *)
(* transaction, under the quote's lock).                                   *)
QuoteJobAgreement ==
  /\ \A i, j \in Jobs :
       jobs[i] # NoJob /\ jobs[j] # NoJob /\ jobs[i].quote = jobs[j].quote
       => i = j
  /\ \A q \in Quotes : (quotes[q] = "scheduled") <=> QuoteHasJob(q)

(* The unique key of jobs.quote_id is a second line of defence that        *)
(* AssignJob never needs: when the INSERT runs, the quote has no job       *)
(* (service.go:97 has already refused under the lock, :117 is not taken).  *)
DuplicateKeyNeverHit ==
  \A h \in Handlers : pc[h] = "insert" => ~QuoteHasJob(request[h].quote)

(* The audit log of a job is a faithful chain: it begins with the          *)
(* assignment, every later line starts where the one before ended, only    *)
(* the last can be the completion, the last says where the job is now, and *)
(* each names who had a right to it: the technician who had the job when   *)
(* it was completed, the job's manager otherwise. A stale row used after   *)
(* the lock (service.go:183, 281) breaks a link or names the wrong one.    *)
AuditChain ==
  \A j \in Jobs :
    LET log == audit[j]
        last == log[Len(log)] IN
    /\ log = <<>> <=> jobs[j] = NoJob
    /\ log # <<>> =>
         /\ log[1].previous = NoPlace
         /\ last.new = PlaceOf(jobs[j])
         /\ last.action = "job_completed" <=> jobs[j].status = "completed"
    /\ \A i \in 2..Len(log) :
         /\ log[i].previous = log[i - 1].new
         /\ log[i].action # "job_assigned"
         /\ log[i - 1].action # "job_completed"
    /\ \A i \in DOMAIN log :
         log[i].actor = IF log[i].action = "job_completed"
                        THEN log[i].new.technician ELSE jobs[j].manager

(* A refusal is the truth at the moment it is given: while the locks of    *)
(* the refused transaction are still held, the committed rows show the     *)
(* reason the caller is told (service.go:93-110, 183-202, 281-290).        *)
RefusalsAreTrue ==
  \A h \in Handlers : pc[h] = "refuse" =>
    LET r == request[h] IN
    /\ reply[h] = "schedule_conflict" =>
         \E j \in Jobs :
           /\ jobs[j] # NoJob
           /\ jobs[j].technician = r.technician
           /\ ~Disjoint(jobs[j].startsAt, r.startsAt)
           /\ r.op = "reschedule" => j # r.job
    /\ reply[h] = "quote_already_scheduled" => QuoteHasJob(r.quote)
    /\ reply[h] \in {"completed_job_immutable", "job_already_completed"} =>
         jobs[r.job].status = "completed"
    /\ reply[h] = "forbidden" /\ RoleAllows(r) =>
         /\ r.op = "reschedule" => jobs[r.job].manager # r.actor
         /\ r.op = "complete" => jobs[r.job].technician # r.actor

OrgsAgree ==
  \A j \in Jobs : jobs[j] # NoJob =>
    /\ OrgOf[jobs[j].quote] = OrgOf[jobs[j].manager]
    /\ OrgOf[jobs[j].technician] = OrgOf[jobs[j].manager]

(* The organizations of the rows a job ties together are one, no user is   *)
(* notified or signalled about another organization's job, and a refused   *)
(* caller learns of a foreign row only that it is not there                *)
(* (service.go:344, 363, 391: every locking read filters by organization). *)
TenantIsolation ==
  /\ OrgsAgree
  /\ \A j \in Jobs : \A i \in DOMAIN notifications[j] :
       OrgOf[notifications[j][i].to] = OrgOf[jobs[j].manager]
  /\ \A h \in Handlers : pc[h] = "publish" =>
       \A i \in DOMAIN events[h] :
         LET e == events[h][i] IN
         OrgOf[request[h].actor] =
           IF e.type = "quotes.changed" THEN e.to ELSE OrgOf[e.to]
  /\ \A h \in Handlers :
       reply[h] \in {"forbidden", "completed_job_immutable",
                     "job_already_completed"} /\ RoleAllows(request[h])
       => OrgOf[jobs[request[h].job].manager] = OrgOf[request[h].actor]

OnlyOwnersChange ==
  \A j \in Jobs : jobs[j] # NoJob /\ jobs'[j] # jobs[j] =>
    /\ jobs[j].status = "scheduled"
    /\ jobs'[j].quote = jobs[j].quote /\ jobs'[j].manager = jobs[j].manager
    /\ \E h \in Handlers :
         /\ pc[h] = "commit" /\ pc'[h] # "commit"
         /\ request[h].actor = IF jobs'[j].status = "completed"
                               THEN jobs[j].technician ELSE jobs[j].manager

(* A job changes hands or time only at the request of the manager who      *)
(* created it, is completed only by the technician who has it at that      *)
(* moment, and nothing about a completed job changes (service.go:187-192,  *)
(* 285-290, decided on the row as locked, however long the wait was).      *)
OwnersChangeJobs == [][OnlyOwnersChange]_vars

AffectedNotified ==
  \A user \in Users : JobsOf(user)' # JobsOf(user) =>
    \/ Inbox(user)' # Inbox(user)
    \/ \E h \in Handlers : /\ pc[h] = "commit" /\ pc'[h] # "commit"
                           /\ request[h].actor = user

(* Whoever sees a job appear, move or disappear in his list without having *)
(* asked for it gets a notification in the same transaction: also the      *)
(* technician a job is taken away from (service.go:141, 227-238, 311).     *)
AffectedUsersAreNotified == [][AffectedNotified]_vars

CommitsSignalled ==
  \A h \in Handlers : pc[h] = "commit" /\ pc'[h] = "publish" =>
    LET told(type, to) ==
          \E i \in DOMAIN events'[h] : events'[h][i] = Signal(type, to) IN
    /\ \A user \in Users :
         /\ JobsOf(user)' # JobsOf(user) => told("jobs.changed", user)
         /\ Inbox(user)' # Inbox(user) => told("notification.created", user)
    /\ \A org \in Orgs :
         QuotesOf(org)' # QuotesOf(org) => told("quotes.changed", org)

(* A commit that is acknowledged returns an event for every list it has    *)
(* changed: jobs and notifications to each user whose list changed, quotes *)
(* to the managers of the organization (service.go:159-164, 253-263,       *)
(* 330-334).                                                               *)
AffectedListsAreSignalled == [][CommitsSignalled]_vars

(* Only a reschedule can be part of a deadlock: assignments and            *)
(* completions lock jobs, quotes, technicians, managers in this order,     *)
(* RescheduleJob goes back to a technician after the manager               *)
(* (service.go:183-193).                                                   *)
DeadlockNeedsReschedule ==
  \A h \in Handlers : OnWaitCycle(h) =>
    \E o \in Handlers : OnWaitCycle(o) /\ request[o].op = "reschedule"

(* h serves a request and its next statement need not wait.                *)
CanGoOn(h) ==
  /\ pc[h] # "idle"
  /\ Blockers(h) = {}
  /\ pc[h] = "begin" => Cardinality(open) < PoolSize

(* While a request is being served, some handler's next statement can run, *)
(* or there is a cycle of waits for InnoDB to break: nobody waits for a    *)
(* row or a connection of the pool that was never given back, nor do all   *)
(* connections belong to handlers that wait for another one (service.go:   *)
(* 87-91, 177-181, 275-279: one connection for a call, and a deferred      *)
(* Rollback on every path).                                                *)
NoStandstill ==
  (\E h \in Handlers : pc[h] # "idle")
    => \E h \in Handlers : CanGoOn(h) \/ OnWaitCycle(h)

-----------------------------------------------------------------------------
(* Why they hold.                                                          *)

JobLocking == {"lockJobQuote", "lockJobTechnician", "lockJobManager"}

Deciding == {"lockTechnician", "availability", "overlap", "insert", "commit"}

LocksExclude ==
  \A h, o \in Handlers :
    h # o => held[h] \cap (held[o] \cup shared[o]) = {}

Covered(h) ==
  LET r == request[h] IN
  /\ pc[h] \in Deciding /\ r.op = "assign" => r.quote \in held[h]
  /\ pc[h] \in JobLocking \cup Deciding /\ r.op # "assign"
     => r.job \in held[h]
  /\ pc[h] \in {"lockJobManager"} \cup Deciding /\ r.op # "assign"
     => current[h].technician \in held[h]
  /\ pc[h] \in Deciding \ {"lockTechnician"} /\ r.op # "complete"
     => r.technician \in held[h]

(* Rows are locked by one transaction at a time, and each statement runs   *)
(* with the locks the ones before it took: the quote or the job from its   *)
(* first SELECT on, the job's technician once joined, the target           *)
(* technician from its own SELECT on, all until the transaction ends       *)
(* (service.go:93, 101, 183, 193, 281).                                    *)
LockDiscipline == LocksExclude /\ \A h \in Handlers : Covered(h)

(* The window of h is free of other jobs of the technician, in the         *)
(* committed table.                                                        *)
WindowFree(h) ==
  \A j \in Jobs :
    /\ jobs[j] # NoJob
    /\ jobs[j].technician = request[h].technician
    /\ request[h].op = "reschedule" => j # request[h].job
    => Disjoint(jobs[j].startsAt, request[h].startsAt)

WorksFor(row, technician) == row # NoJob /\ row.technician = technician

(* The read view shows h every job its technician has, as committed.       *)
ViewCurrent(h) ==
  \A j \in Jobs :
    \/ WorksFor(jobs[j], request[h].technician)
    \/ WorksFor(ReadView(h)[j], request[h].technician)
    => ReadView(h)[j] = jobs[j]

Informed(h) ==
  LET r == request[h] IN
  /\ pc[h] \in Deciding /\ r.op = "assign"
     => quotes[r.quote] = "unscheduled" /\ InOrg(h, r.quote)
  /\ pc[h] \in JobLocking \cup Deciding /\ r.op # "assign"
     => /\ current[h] # NoJob
        /\ current[h] = jobs[r.job]
        /\ InOrg(h, current[h].manager)
  /\ pc[h] \in Deciding /\ r.op # "assign" => Owns(h) /\ ~Frozen(h)
  /\ pc[h] \in Deciding \ {"lockTechnician"} /\ r.op # "complete"
     => InOrg(h, r.technician)
  /\ pc[h] \in {"overlap", "insert", "commit"} /\ r.op # "complete"
     => r.startsAt \in AvailableStarts[r.technician]
  /\ pc[h] \notin {"overlap", "refuse"} => view[h] = NoView
  /\ pc[h] = "overlap" => ViewCurrent(h)
  /\ pc[h] \in {"insert", "commit"} /\ r.op # "complete" => WindowFree(h)

(* What a transaction has read and decided stays true of the committed     *)
(* tables until it commits, whatever the others commit meanwhile: the      *)
(* quote is still unscheduled, the job row is the one it read, the view    *)
(* opened under the technician's lock has missed nothing about him, and    *)
(* the window found free is free (service.go:93-110, 183-202, 281-290).    *)
DecisionsHold == \A h \in Handlers : Informed(h)

-----------------------------------------------------------------------------
(* Every request is answered: no handler waits for ever for a connection   *)
(* or a row, also when others are refused, fail or deadlock while holding  *)
(* them (the deferred Rollback of service.go:91, 181, 279).                *)
RequestsAreAnswered ==
  \A h \in Handlers : pc[h] # "idle" ~> pc[h] = "idle"

-----------------------------------------------------------------------------
Book == INSTANCE ScheduleBook WITH jobs <- jobs, quotes <- quotes

(* The service implements the book: every commit is a change the book      *)
(* allows in the state it is applied to, though its transaction decided on *)
(* it in several earlier states; everything else leaves the book as it is  *)
(* (service.go:78-336).                                                    *)
ImplementsBook == Book!Spec
=============================================================================
