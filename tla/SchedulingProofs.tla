-------------------------- MODULE SchedulingProofs --------------------------
(***************************************************************************)
(* Proofs about Scheduling, for any number of handlers, people, quotes,    *)
(* jobs, instants and requests: the types, the invariant behind the safety *)
(* properties, and these properties.                                       *)
(***************************************************************************)
EXTENDS SchedulingProperties, TLAPS

-----------------------------------------------------------------------------
(* A request that passed the checks of the service has the fields its      *)
(* operation needs.                                                        *)
LEMMA RequestFields ==
  ASSUME NEW r \in AllRequests, RoleAllows(r), ValidInput(r)
  PROVE  /\ r.op \in {"assign", "reschedule", "complete"}
         /\ r.actor \in Users
         /\ r.op = "assign" => r.actor \in Managers /\ r.quote \in Quotes
         /\ r.op # "assign" => r.job \in Jobs
         /\ r.op # "complete" => r.technician \in Technicians /\ r.startsAt \in Instants
         /\ r.op # "complete" => r.startsAt \in MinuteAligned
         /\ r.op = "reschedule" => r.actor \in Managers
         /\ r.op = "complete" => r.actor \in Technicians
  <1>1. CASE r \in AssignJobInput
    BY <1>1 DEF AssignJobInput, RoleAllows, ValidInput, ValidateStartsAt
  <1>2. CASE r \in RescheduleJobInput
    BY <1>2 DEF RescheduleJobInput, RoleAllows, ValidInput, ValidateStartsAt
  <1>3. CASE r \in CompleteJobInput
    BY <1>3 DEF CompleteJobInput, RoleAllows, ValidInput
  <1>4. QED
    BY <1>1, <1>2, <1>3 DEF AllRequests

(* The row a transaction writes is a row of the table.                     *)
LEMMA NewRowType ==
  ASSUME NEW r \in AllRequests, RoleAllows(r), ValidInput(r),
         NEW old \in JobRow \cup {NoJob}, r.op # "assign" => old # NoJob
  PROVE  NewRow(r, old) \in JobRow
  <1>1. CASE r.op = "assign"
    BY <1>1, RequestFields DEF NewRow, AssignedRow, JobRow
  <1>2. CASE r.op = "reschedule"
    BY <1>2, RequestFields DEF NewRow, JobRow
  <1>3. CASE r.op = "complete"
    BY <1>3, RequestFields DEF NewRow, JobRow
  <1>4. QED
    BY <1>1, <1>2, <1>3, RequestFields

LEMMA PlaceType ==
  ASSUME NEW row \in JobRow
  PROVE  PlaceOf(row) \in Place
  BY DEF PlaceOf, Place, JobRow

LEMMA AuditLineType ==
  ASSUME NEW r \in AllRequests, RoleAllows(r), ValidInput(r),
         NEW old \in JobRow \cup {NoJob}, r.op # "assign" => old # NoJob
  PROVE  AuditLine(r, old) \in AuditRow
  <1>1. PlaceOf(NewRow(r, old)) \in Place
    BY NewRowType, PlaceType
  <1>2. r.op # "assign" => PlaceOf(old) \in Place
    BY PlaceType
  <1>3. AuditAction(r) \in {"job_assigned", "job_rescheduled", "job_completed"}
    BY RequestFields DEF AuditAction
  <1>4. QED
    BY <1>1, <1>2, <1>3, RequestFields DEF AuditLine, AuditRow

LEMMA NoticesType ==
  ASSUME NEW r \in AllRequests, RoleAllows(r), ValidInput(r),
         NEW old \in JobRow \cup {NoJob}, r.op # "assign" => old # NoJob
  PROVE  Notices(r, old) \in Seq(NotificationRow)
  <1>1. r.op # "assign" => old.manager \in Users /\ old.technician \in Users
    BY DEF JobRow, Users
  <1>2. r.op # "complete" => r.technician \in Users
    BY RequestFields DEF Users
  <1>3. CASE r.op = "assign"
    BY <1>2, <1>3 DEF Notices, Notice, NotificationRow
  <1>4. CASE r.op = "reschedule"
    <2>1. /\ <<Notice(r.technician, "job_updated")>> \in Seq(NotificationRow)
          /\ <<Notice(old.technician, "job_updated")>> \in Seq(NotificationRow)
          /\ <<>> \in Seq(NotificationRow)
      BY <1>1, <1>2, <1>4 DEF Notice, NotificationRow
    <2>2. QED
      BY <2>1, <1>4 DEF Notices
  <1>5. CASE r.op = "complete"
    BY <1>1, <1>5 DEF Notices, Notice, NotificationRow
  <1>6. QED
    BY <1>3, <1>4, <1>5, RequestFields

LEMMA EventsType ==
  ASSUME NEW r \in AllRequests, RoleAllows(r), ValidInput(r),
         NEW old \in JobRow \cup {NoJob}, r.op # "assign" => old # NoJob
  PROVE  Events(r, old) \in Seq(Event)
  <1>1. \A user \in Users : /\ Told(user) \in Seq(Event)
                            /\ Signal("jobs.changed", user) \in Event
    BY DEF Told, Signal, Event
  <1>2. Signal("quotes.changed", OrgOf[r.actor]) \in Event
    BY RequestFields DEF Signal, Event, Orgs
  <1>3. r.op # "assign" => old.manager \in Users /\ old.technician \in Users
    BY DEF JobRow, Users
  <1>4. r.op # "complete" => r.technician \in Users
    BY RequestFields DEF Users
  <1>5. r.actor \in Users
    BY RequestFields
  <1>6. <<>> \in Seq(Event)
    OBVIOUS
  <1>7. CASE r.op = "assign"
    BY <1>1, <1>2, <1>4, <1>5, <1>7 DEF Events
  <1>8. CASE r.op = "reschedule"
    <2>1. (IF Moves(r, old) THEN Told(old.technician) ELSE <<>>) \in Seq(Event)
      BY <1>1, <1>3, <1>6, <1>8
    <2>2. QED
      BY <1>1, <1>4, <1>5, <1>8, <2>1 DEF Events
  <1>9. CASE r.op = "complete"
    BY <1>1, <1>3, <1>5, <1>9 DEF Events
  <1>10. QED
    BY <1>7, <1>8, <1>9, RequestFields

-----------------------------------------------------------------------------
(* Types. TypeOK is not inductive alone: that a commit writes a row of the *)
(* table rests on the request having been checked before the transaction,  *)
(* on the operation each statement belongs to, and on a job row having     *)
(* been read.                                                              *)
RequestFits ==
  \A h \in Handlers :
    /\ pc[h] \notin {"idle", "refuse"}
       => /\ request[h] \in AllRequests
          /\ RoleAllows(request[h])
          /\ ValidInput(request[h])
    /\ pc[h] \in {"lockQuote", "insert"} => request[h].op = "assign"
    /\ pc[h] \in {"lockJob"} \cup JobLocking => request[h].op # "assign"
    /\ pc[h] \in {"lockTechnician", "availability", "overlap"}
       => request[h].op # "complete"
    /\ pc[h] \in JobLocking \cup Deciding /\ request[h].op # "assign"
       => current[h] # NoJob

Typed == TypeOK /\ RequestFits

(* What the control and lock operators do to the variables they change.    *)
LEMMA DecideEffect ==
  ASSUME pc \in [Handlers -> Control],
         reply \in [Handlers -> ErrorCode \cup {"none"}],
         NEW h \in Handlers, NEW verdict \in ErrorCode \cup {"none"},
         NEW label \in Control, Decide(h, verdict, label)
  PROVE  /\ pc' \in [Handlers -> Control]
         /\ reply' \in [Handlers -> ErrorCode \cup {"none"}]
         /\ pc'[h] = IF verdict = "none" THEN label ELSE "refuse"
         /\ \A o \in Handlers : o # h => pc'[o] = pc[o]
  <1>1. "refuse" \in Control
    BY DEF Control
  <1>2. CASE verdict = "none"
    BY <1>2 DEF Decide, Goto
  <1>3. CASE verdict # "none"
    BY <1>1, <1>3 DEF Decide, Fail
  <1>4. QED
    BY <1>2, <1>3

LEMMA AcquireEffect ==
  ASSUME held \in [Handlers -> SUBSET Rows], NEW h \in Handlers,
         NEW row \in Rows, Acquire(h, row)
  PROVE  /\ held' \in [Handlers -> SUBSET Rows]
         /\ held'[h] = held[h] \cup {row}
         /\ \A o \in Handlers : o # h => held'[o] = held[o]
         /\ shared' = shared
         /\ \A o \in Handlers : o # h => row \notin held[o] \cup shared[o]
  BY DEF Acquire

LEMMA TypedInit == Init => Typed
  BY ServiceAssumption
  DEF Init, Typed, TypeOK, RequestFits, Control, InTransaction, Locking,
      JobLocking, Deciding, QuoteStatus

(* Statements that leave the tables alone.                                 *)
LEMMA TypedStart ==
  ASSUME Typed, NEW h \in Handlers, StartRequest(h)
  PROVE  Typed'
  <1> USE DEF Control, InTransaction, Locking, JobLocking, Deciding
  <1>1. PICK r \in Requests :
          /\ request' = [request EXCEPT ![h] = r]
          /\ \/ ~RoleAllows(r) /\ Fail(h, "forbidden")
             \/ RoleAllows(r) /\ ~ValidInput(r) /\ Fail(h, "invalid_input")
             \/ RoleAllows(r) /\ ValidInput(r) /\ Goto(h, "begin")
    BY DEF StartRequest
  <1>2. r \in AllRequests
    BY ServiceAssumption
  <1>3. pc' \in [Handlers -> Control] /\ reply' \in [Handlers -> ErrorCode \cup {"none"}]
    BY <1>1 DEF Typed, TypeOK, Fail, Goto, ErrorCode
  <1>4. request' \in [Handlers -> AllRequests \cup {NoRequest}]
    BY <1>1, <1>2 DEF Typed, TypeOK
  <1>5. started' \in 0..MaxRequests
    BY ServiceAssumption DEF Typed, TypeOK, StartRequest
  <1>6. TypeOK'
    BY <1>3, <1>4, <1>5 DEF Typed, TypeOK, StartRequest, tables, locks
  <1>7. RequestFits'
    BY <1>1, <1>2 DEF Typed, TypeOK, RequestFits, StartRequest, Fail, Goto
  <1>8. QED
    BY <1>6, <1>7 DEF Typed

LEMMA TypedBegin ==
  ASSUME Typed, NEW h \in Handlers, BeginTx(h)
  PROVE  Typed'
  BY DEF Typed, TypeOK, RequestFits, BeginTx, Goto, tables, locks,
         Control, InTransaction, Locking, JobLocking, Deciding

LEMMA TypedQuote ==
  ASSUME Typed, NEW h \in Handlers, SelectQuoteForUpdate(h)
  PROVE  Typed'
  <1> USE DEF Control, InTransaction, Locking, JobLocking, Deciding
  <1>1. request[h].quote \in Rows
    BY RequestFields DEF Typed, TypeOK, RequestFits, SelectQuoteForUpdate, Rows
  <1>2. /\ held' \in [Handlers -> SUBSET Rows]
        /\ shared' = shared
    BY <1>1, AcquireEffect DEF Typed, TypeOK, SelectQuoteForUpdate
  <1>3. QuoteVerdict(h) \in ErrorCode \cup {"none"}
    BY DEF ErrorCode, QuoteVerdict
  <1>4. "lockTechnician" \in Control
    OBVIOUS
  <1>5. /\ pc' \in [Handlers -> Control]
        /\ reply' \in [Handlers -> ErrorCode \cup {"none"}]
        /\ pc'[h] \in {"lockTechnician", "refuse"}
        /\ \A o \in Handlers : o # h => pc'[o] = pc[o]
    BY <1>3, <1>4, DecideEffect DEF Typed, TypeOK, SelectQuoteForUpdate
  <1>6. TypeOK'
    BY <1>2, <1>5 DEF Typed, TypeOK, SelectQuoteForUpdate, tables, locks
  <1>7. RequestFits'
    BY <1>5 DEF Typed, RequestFits, SelectQuoteForUpdate
  <1>8. QED
    BY <1>6, <1>7 DEF Typed

LEMMA TypedJob ==
  ASSUME Typed, NEW h \in Handlers, SelectJobForUpdate(h)
  PROVE  Typed'
  <1> USE DEF Control, InTransaction, Locking, JobLocking, Deciding
  <1> DEFINE row == jobs[request[h].job]
  <1>1. request[h].job \in Jobs /\ request[h].job \in Rows
    BY RequestFields DEF Typed, RequestFits, SelectJobForUpdate, Rows
  <1>2. /\ current' \in [Handlers -> JobRow \cup {NoJob}]
        /\ held' \in [Handlers -> SUBSET Rows]
        /\ shared' = shared
    <2>1. CASE UNCHANGED <<locks, current>>
      BY <2>1 DEF Typed, TypeOK, locks
    <2>2. CASE Acquire(h, request[h].job)
               /\ current' \in {current, [current EXCEPT ![h] = row]}
      <3>1. held \in [Handlers -> SUBSET Rows]
        BY DEF Typed, TypeOK
      <3>2. held' \in [Handlers -> SUBSET Rows] /\ shared' = shared
        BY <1>1, <2>2, <3>1, AcquireEffect
      <3>3. QED
        BY <1>1, <2>2, <3>2 DEF Typed, TypeOK
    <2>3. QED
      BY <2>1, <2>2 DEF SelectJobForUpdate
  <1>3. \/ /\ Fail(h, "not_found")
           /\ UNCHANGED current
        \/ /\ Goto(h, "lockJobQuote")
           /\ row # NoJob
           /\ current' = [current EXCEPT ![h] = row]
    BY DEF SelectJobForUpdate
  <1>4. /\ pc' \in [Handlers -> Control]
        /\ reply' \in [Handlers -> ErrorCode \cup {"none"}]
    BY <1>3 DEF Typed, TypeOK, Goto, Fail, ErrorCode
  <1>5. TypeOK'
    BY <1>2, <1>4 DEF Typed, TypeOK, SelectJobForUpdate, tables
  <1>6. RequestFits'
    BY <1>3 DEF Typed, TypeOK, RequestFits, SelectJobForUpdate, Goto, Fail
  <1>7. QED
    BY <1>5, <1>6 DEF Typed

LEMMA TypedJobQuote ==
  ASSUME Typed, NEW h \in Handlers, LockJobQuote(h)
  PROVE  Typed'
  BY RequestFields
  DEF Typed, TypeOK, RequestFits, LockJobQuote, Acquire, JoinedRow, Goto, Rows, JobRow, tables, locks,
      Control, InTransaction, Locking, JobLocking, Deciding

LEMMA TypedJobTechnician ==
  ASSUME Typed, NEW h \in Handlers, LockJobTechnician(h)
  PROVE  Typed'
  BY RequestFields
  DEF Typed, TypeOK, RequestFits, LockJobTechnician, Acquire, JoinedRow, Goto, Rows, JobRow, tables, locks,
      Control, InTransaction, Locking, JobLocking, Deciding

LEMMA TypedJobManager ==
  ASSUME Typed, NEW h \in Handlers, LockJobManager(h)
  PROVE  Typed'
  <1> USE DEF Control, InTransaction, Locking, JobLocking, Deciding
  <1>1. JoinedRow(h) \in Rows
    BY RequestFields DEF Typed, TypeOK, RequestFits, LockJobManager, Rows, JoinedRow, JobRow
  <1>2. /\ held' \in [Handlers -> SUBSET Rows]
        /\ shared' = shared
    BY <1>1, AcquireEffect DEF Typed, TypeOK, LockJobManager
  <1>3. JobVerdict(h) \in ErrorCode \cup {"none"}
    BY DEF ErrorCode, JobVerdict
  <1>4. (IF request[h].op = "reschedule" THEN "lockTechnician" ELSE "commit") \in Control
    OBVIOUS
  <1>5. /\ pc' \in [Handlers -> Control]
        /\ reply' \in [Handlers -> ErrorCode \cup {"none"}]
        /\ pc'[h] \in {(IF request[h].op = "reschedule" THEN "lockTechnician" ELSE "commit"), "refuse"}
        /\ \A o \in Handlers : o # h => pc'[o] = pc[o]
    BY <1>3, <1>4, DecideEffect DEF Typed, TypeOK, LockJobManager
  <1>6. TypeOK'
    BY <1>2, <1>5 DEF Typed, TypeOK, LockJobManager, tables, locks
  <1>7. RequestFits'
    BY <1>5 DEF Typed, RequestFits, LockJobManager
  <1>8. QED
    BY <1>6, <1>7 DEF Typed

LEMMA TypedTechnician ==
  ASSUME Typed, NEW h \in Handlers, SelectTechnicianForUpdate(h)
  PROVE  Typed'
  <1> USE DEF Control, InTransaction, Locking, JobLocking, Deciding
  <1>1. request[h].technician \in Rows
    BY RequestFields DEF Typed, TypeOK, RequestFits, SelectTechnicianForUpdate, Rows
  <1>2. /\ held' \in [Handlers -> SUBSET Rows]
        /\ shared' = shared
    BY <1>1, AcquireEffect DEF Typed, TypeOK, SelectTechnicianForUpdate
  <1>3. (IF InOrg(h, request[h].technician) THEN "none" ELSE "not_found") \in ErrorCode \cup {"none"}
    BY DEF ErrorCode
  <1>4. "availability" \in Control
    OBVIOUS
  <1>5. /\ pc' \in [Handlers -> Control]
        /\ reply' \in [Handlers -> ErrorCode \cup {"none"}]
        /\ pc'[h] \in {"availability", "refuse"}
        /\ \A o \in Handlers : o # h => pc'[o] = pc[o]
    BY <1>3, <1>4, DecideEffect DEF Typed, TypeOK, SelectTechnicianForUpdate
  <1>6. TypeOK'
    BY <1>2, <1>5 DEF Typed, TypeOK, SelectTechnicianForUpdate, tables, locks
  <1>7. RequestFits'
    BY <1>5 DEF Typed, RequestFits, SelectTechnicianForUpdate
  <1>8. QED
    BY <1>6, <1>7 DEF Typed

LEMMA TypedAvailable ==
  ASSUME Typed, NEW h \in Handlers, EnsureTechnicianAvailable(h)
  PROVE  Typed'
  <1> USE DEF Control, InTransaction, Locking, JobLocking, Deciding
  <1>1. (IF request[h].startsAt \in AvailableStarts[request[h].technician] THEN "none" ELSE "technician_unavailable") \in ErrorCode \cup {"none"}
    BY DEF ErrorCode
  <1>2. "overlap" \in Control
    OBVIOUS
  <1>3. /\ pc' \in [Handlers -> Control]
        /\ reply' \in [Handlers -> ErrorCode \cup {"none"}]
        /\ pc'[h] \in {"overlap", "refuse"}
        /\ \A o \in Handlers : o # h => pc'[o] = pc[o]
    BY <1>1, <1>2, DecideEffect DEF Typed, TypeOK, EnsureTechnicianAvailable
  <1>4. TypeOK'
    BY <1>3 DEF Typed, TypeOK, EnsureTechnicianAvailable, tables, locks, ReadView
  <1>5. RequestFits'
    BY <1>3 DEF Typed, RequestFits, EnsureTechnicianAvailable
  <1>6. QED
    BY <1>4, <1>5 DEF Typed

LEMMA TypedOverlap ==
  ASSUME Typed, NEW h \in Handlers, EnsureNoOverlap(h)
  PROVE  Typed'
  <1> USE DEF Control, InTransaction, Locking, JobLocking, Deciding
  <1>1. (IF Conflicts(h) THEN "schedule_conflict" ELSE "none") \in ErrorCode \cup {"none"}
    BY DEF ErrorCode
  <1>2. (IF request[h].op = "assign" THEN "insert" ELSE "commit") \in Control
    OBVIOUS
  <1>3. /\ pc' \in [Handlers -> Control]
        /\ reply' \in [Handlers -> ErrorCode \cup {"none"}]
        /\ pc'[h] \in {(IF request[h].op = "assign" THEN "insert" ELSE "commit"), "refuse"}
        /\ \A o \in Handlers : o # h => pc'[o] = pc[o]
    BY <1>1, <1>2, DecideEffect DEF Typed, TypeOK, EnsureNoOverlap
  <1>4. TypeOK'
    BY <1>3 DEF Typed, TypeOK, EnsureNoOverlap, tables, locks
  <1>5. RequestFits'
    BY <1>3 DEF Typed, RequestFits, EnsureNoOverlap
  <1>6. QED
    BY <1>4, <1>5 DEF Typed

LEMMA TypedInsert ==
  ASSUME Typed, NEW h \in Handlers, InsertJob(h)
  PROVE  Typed'
  <1> USE DEF Control, InTransaction, Locking, JobLocking, Deciding
  <1>1. (IF QuoteHasJob(request[h].quote) THEN "quote_already_scheduled" ELSE "none") \in ErrorCode \cup {"none"}
    BY DEF ErrorCode
  <1>2. "commit" \in Control
    OBVIOUS
  <1>3. /\ pc' \in [Handlers -> Control]
        /\ reply' \in [Handlers -> ErrorCode \cup {"none"}]
        /\ pc'[h] \in {"commit", "refuse"}
        /\ \A o \in Handlers : o # h => pc'[o] = pc[o]
    BY <1>1, <1>2, DecideEffect DEF Typed, TypeOK, InsertJob
  <1>4. request[h].actor \in Managers
    BY RequestFields DEF Typed, RequestFits, InsertJob
  <1>5. TypeOK'
    BY <1>3, <1>4 DEF Typed, TypeOK, InsertJob, tables
  <1>6. RequestFits'
    BY <1>3 DEF Typed, RequestFits, InsertJob
  <1>7. QED
    BY <1>5, <1>6 DEF Typed

LEMMA TypedPublish ==
  ASSUME Typed, NEW h \in Handlers, Publish(h)
  PROVE  Typed'
  BY RequestFields
  DEF Typed, TypeOK, RequestFits, Publish, Forget, tables, locks,
      Control, InTransaction, Locking, JobLocking, Deciding

LEMMA TypedRefuse ==
  ASSUME Typed, NEW h \in Handlers, Refuse(h)
  PROVE  Typed'
  BY RequestFields
  DEF Typed, TypeOK, RequestFits, Refuse, Forget, EndTransaction, Unlock, tables, locks,
      Control, InTransaction, Locking, JobLocking, Deciding

LEMMA TypedFails ==
  ASSUME Typed, NEW h \in Handlers, StatementFails(h)
  PROVE  Typed'
  BY RequestFields
  DEF Typed, TypeOK, RequestFits, StatementFails, Fail, ErrorCode, tables, locks,
      Control, InTransaction, Locking, JobLocking, Deciding

LEMMA TypedVictim ==
  ASSUME Typed, NEW h \in Handlers, DeadlockVictim(h)
  PROVE  Typed'
  BY RequestFields
  DEF Typed, TypeOK, RequestFits, DeadlockVictim, Fail, Unlock, ErrorCode, tables, locks,
      Control, InTransaction, Locking, JobLocking, Deciding

LEMMA TypedCommit ==
  ASSUME Typed, NEW h \in Handlers, Commit(h)
  PROVE  Typed'
  <1> USE DEF Control, InTransaction, Locking, JobLocking, Deciding
  <1> DEFINE r == request[h]
             old == current[h]
  <1>1. /\ r \in AllRequests /\ RoleAllows(r) /\ ValidInput(r)
        /\ old \in JobRow \cup {NoJob}
        /\ r.op # "assign" => old # NoJob
    BY DEF Typed, TypeOK, RequestFits, Commit
  <1>2. PICK j \in Jobs : Write(r, old, j)
    BY DEF Commit
  <1>3. jobs' \in [Jobs -> JobRow \cup {NoJob}]
    BY <1>1, <1>2, NewRowType DEF Typed, TypeOK, Write
  <1>4. quotes' \in [Quotes -> QuoteStatus]
    BY <1>2 DEF Typed, TypeOK, Write, QuotesAfter, QuoteStatus
  <1>5. audit' \in [Jobs -> Seq(AuditRow)]
    BY <1>1, <1>2, AuditLineType DEF Typed, TypeOK, Write
  <1>6. notifications' \in [Jobs -> Seq(NotificationRow)]
    BY <1>1, <1>2, NoticesType DEF Typed, TypeOK, Write
  <1>7. events' \in [Handlers -> Seq(Event)]
    <2>1. Events(r, old) \in Seq(Event)
      BY <1>1, EventsType
    <2>2. \/ events' = [events EXCEPT ![h] = Events(r, old)]
          \/ events' = events
      BY DEF Commit
    <2>3. QED
      BY <2>1, <2>2 DEF Typed, TypeOK
  <1>8. /\ pc' \in [Handlers -> Control]
        /\ reply' \in [Handlers -> ErrorCode \cup {"none"}]
        /\ pc'[h] \in {"publish", "refuse"}
        /\ \A o \in Handlers : o # h => pc'[o] = pc[o]
    BY DEF Typed, TypeOK, Commit, Goto, Fail, ErrorCode
  <1>9. /\ held' \in [Handlers -> SUBSET Rows]
        /\ shared' \in [Handlers -> SUBSET Managers]
        /\ open' \subseteq Handlers
    BY DEF Typed, TypeOK, Commit, EndTransaction, Unlock
  <1>10. TypeOK'
    BY <1>3, <1>4, <1>5, <1>6, <1>7, <1>8, <1>9 DEF Typed, TypeOK, Commit
  <1>11. RequestFits'
    BY <1>8 DEF Typed, RequestFits, Commit
  <1>12. QED
    BY <1>10, <1>11 DEF Typed

LEMMA TypedCrash ==
  ASSUME Typed, Crash
  PROVE  Typed'
  BY DEF Typed, TypeOK, RequestFits, Crash, tables, Control, InTransaction,
         Locking, JobLocking, Deciding

LEMMA TypedStep == Typed /\ [Next]_vars => Typed'
  <1> SUFFICES ASSUME Typed, [Next]_vars PROVE Typed'
    OBVIOUS
  <1>1. CASE \E h \in Handlers : Serve(h)
    BY <1>1, TypedBegin, TypedQuote, TypedJob, TypedJobQuote,
       TypedJobTechnician, TypedJobManager, TypedTechnician, TypedAvailable,
       TypedOverlap, TypedInsert, TypedCommit, TypedPublish, TypedRefuse
    DEF Serve
  <1>2. CASE \E h \in Handlers :
               StartRequest(h) \/ StatementFails(h) \/ DeadlockVictim(h)
    BY <1>2, TypedStart, TypedFails, TypedVictim
  <1>3. CASE Crash
    BY <1>3, TypedCrash
  <1>4. CASE UNCHANGED vars
    BY <1>4 DEF vars, tables, locks, Typed, TypeOK, RequestFits
  <1>5. QED
    BY <1>1, <1>2, <1>3, <1>4 DEF Next, Quiescent

(* Every variable keeps its type: the rows written are rows the tables can *)
(* hold, whatever requests arrive and wherever they fail.                  *)
THEOREM TypeCorrect == Spec => []TypeOK
  <1>1. Spec => []Typed
    BY TypedInit, TypedStep, PTL DEF Spec
  <1>2. Typed => TypeOK
    BY DEF Typed
  <1>3. QED
    BY <1>1, <1>2, PTL

-----------------------------------------------------------------------------
(* Safety: no technician is double-booked, quotes and jobs agree, and no   *)
(* job ties rows of two organizations together. None of these is           *)
(* inductive. What makes them so is LockDiscipline (who has which row) and *)
(* DecisionsHold (what a transaction knows stays true while it has those   *)
(* rows): a commit then acts on the table it looked at.                    *)

Booked == NoOverlap /\ QuoteJobAgreement /\ OrgsAgree

IInv == Typed /\ LockDiscipline /\ DecisionsHold /\ Booked

-----------------------------------------------------------------------------
(* Frames. Every action but Commit and Crash changes only what belongs to  *)
(* one handler, and for the other handlers nothing they rely on.           *)
Aside(h) ==
  \A o \in Handlers \ {h} :
    /\ pc'[o] = pc[o]
    /\ request'[o] = request[o]
    /\ current'[o] = current[o]
    /\ view'[o] = view[o]
    /\ held'[o] = held[o]
    /\ shared'[o] = shared[o]

LEMMA CoveredFrame ==
  ASSUME NEW h \in Handlers, NEW o \in Handlers, o # h, Aside(h), Covered(o)
  PROVE  Covered(o)'
  BY DEF Aside, Covered

LEMMA InformedFrame ==
  ASSUME NEW h \in Handlers, NEW o \in Handlers, o # h, Aside(h),
         UNCHANGED tables, Informed(o)
  PROVE  Informed(o)'
  <1>1. /\ pc'[o] = pc[o] /\ request'[o] = request[o]
        /\ current'[o] = current[o] /\ view'[o] = view[o]
        /\ jobs' = jobs /\ quotes' = quotes
    BY DEF Aside, tables
  <1>2. ViewCurrent(o) => ViewCurrent(o)'
    BY <1>1 DEF ViewCurrent, WorksFor, ReadView
  <1>3. WindowFree(o) => WindowFree(o)'
    BY <1>1 DEF WindowFree
  <1>4. QED
    BY <1>1, <1>2, <1>3 DEF Informed, InOrg, Owns, Frozen

LEMMA BookedFrame == Booked /\ UNCHANGED tables => Booked'
  BY DEF Booked, NoOverlap, QuoteJobAgreement, QuoteHasJob, OrgsAgree, tables

(* Locks only grow under Acquire, and end with the transaction.            *)
LEMMA ExcludeAcquire ==
  ASSUME Typed, NEW h \in Handlers, NEW row \in Rows, Acquire(h, row),
         LocksExclude
  PROVE  LocksExclude'
  <1>1. /\ held'[h] = held[h] \cup {row}
        /\ \A o \in Handlers : o # h => held'[o] = held[o]
        /\ shared' = shared
        /\ \A o \in Handlers : o # h => row \notin held[o] \cup shared[o]
    BY AcquireEffect DEF Typed, TypeOK
  <1>2. QED
    BY <1>1 DEF LocksExclude

LEMMA ExcludeUnlock ==
  ASSUME Typed, NEW h \in Handlers, Unlock(h), LocksExclude
  PROVE  LocksExclude'
  BY DEF Typed, TypeOK, Unlock, LocksExclude

LEMMA ExcludeFrame == LocksExclude /\ UNCHANGED locks => LocksExclude'
  BY DEF LocksExclude, locks

(* So a step of h that is not a commit preserves the invariant if it       *)
(* leaves the locks exclusive and h itself covered and informed.           *)
LEMMA LocalStep ==
  ASSUME IInv, NEW h \in Handlers, Aside(h), UNCHANGED tables, Typed',
         LocksExclude', Covered(h)', Informed(h)'
  PROVE  IInv'
  <1>1. \A o \in Handlers : Covered(o)'
    BY CoveredFrame DEF IInv, LockDiscipline
  <1>2. \A o \in Handlers : Informed(o)'
    BY InformedFrame DEF IInv, DecisionsHold
  <1>3. QED
    BY <1>1, <1>2, BookedFrame DEF IInv, LockDiscipline, DecisionsHold

(* A handler that runs no statement needs neither.                         *)
LEMMA Outside ==
  ASSUME NEW h \in Handlers, pc'[h] \in {"idle", "begin", "lockQuote",
                                         "lockJob", "publish", "refuse"},
         pc'[h] # "refuse" => view'[h] = NoView
  PROVE  Covered(h)' /\ Informed(h)'
  BY DEF Covered, Informed, JobLocking, Deciding

-----------------------------------------------------------------------------
(* One lemma per action.                                                   *)

LEMMA StartStep ==
  ASSUME IInv, NEW h \in Handlers, StartRequest(h), Typed'
  PROVE  IInv'
  <1>1. Aside(h) /\ UNCHANGED tables /\ UNCHANGED locks
    BY DEF IInv, Typed, TypeOK, StartRequest, Fail, Goto, Aside, locks
  <1>2. pc'[h] \in {"refuse", "begin"} /\ view'[h] = view[h]
    BY DEF IInv, Typed, TypeOK, StartRequest, Fail, Goto
  <1>3. view[h] = NoView
    BY DEF IInv, DecisionsHold, Informed, StartRequest
  <1>4. QED
    BY <1>1, <1>2, <1>3, ExcludeFrame, Outside, LocalStep
    DEF IInv, LockDiscipline

LEMMA BeginStep ==
  ASSUME IInv, NEW h \in Handlers, BeginTx(h), Typed'
  PROVE  IInv'
  <1>1. Aside(h) /\ UNCHANGED tables /\ UNCHANGED locks
    BY DEF IInv, Typed, TypeOK, BeginTx, Goto, Aside, locks
  <1>2. pc'[h] \in {"lockQuote", "lockJob"} /\ view'[h] = NoView
    BY DEF IInv, Typed, TypeOK, DecisionsHold, Informed, BeginTx, Goto
  <1>3. QED
    BY <1>1, <1>2, ExcludeFrame, Outside, LocalStep DEF IInv, LockDiscipline

LEMMA QuoteStep ==
  ASSUME IInv, NEW h \in Handlers, SelectQuoteForUpdate(h), Typed'
  PROVE  IInv'
  <1> DEFINE r == request[h]
  <1>1. r.op = "assign" /\ r.quote \in Rows
    BY RequestFields
    DEF IInv, Typed, RequestFits, SelectQuoteForUpdate, Rows
  <1>2. /\ held'[h] = held[h] \cup {r.quote}
        /\ \A o \in Handlers : o # h => held'[o] = held[o]
        /\ shared' = shared
    BY <1>1, AcquireEffect DEF IInv, Typed, TypeOK, SelectQuoteForUpdate
  <1>3. /\ pc'[h] = IF QuoteVerdict(h) = "none" THEN "lockTechnician"
                    ELSE "refuse"
        /\ \A o \in Handlers : o # h => pc'[o] = pc[o]
    BY DEF IInv, Typed, TypeOK, SelectQuoteForUpdate, Decide, Goto, Fail
  <1>4. Aside(h) /\ UNCHANGED tables
    BY <1>2, <1>3 DEF SelectQuoteForUpdate, Aside
  <1>5. LocksExclude'
    BY <1>1, ExcludeAcquire DEF IInv, LockDiscipline, SelectQuoteForUpdate
  <1>6. Covered(h)' /\ Informed(h)'
    <2>1. CASE QuoteVerdict(h) = "none"
      <3>1. quotes'[r.quote] = "unscheduled" /\ InOrg(h, r.quote)
        BY <2>1 DEF QuoteVerdict, SelectQuoteForUpdate, tables
      <3>2. request' = request /\ view'[h] = NoView
        BY DEF IInv, DecisionsHold, Informed, SelectQuoteForUpdate
      <3>3. QED
        BY <1>1, <1>2, <1>3, <2>1, <3>1, <3>2
        DEF Covered, Informed, JobLocking, Deciding, InOrg
    <2>2. CASE QuoteVerdict(h) # "none"
      BY <1>3, <2>2, Outside
    <2>3. QED
      BY <2>1, <2>2
  <1>7. QED
    BY <1>4, <1>5, <1>6, LocalStep

LEMMA JobStep ==
  ASSUME IInv, NEW h \in Handlers, SelectJobForUpdate(h), Typed'
  PROVE  IInv'
  <1> DEFINE r == request[h]
             row == jobs[r.job]
  <1>1. r.op # "assign" /\ r.job \in Rows /\ r.job \in Jobs
    BY RequestFields
    DEF IInv, Typed, RequestFits, SelectJobForUpdate, Rows
  <1>2. CASE Fail(h, "not_found") /\ UNCHANGED current
    <2>1. Aside(h) /\ UNCHANGED tables
      <3>1. \A o \in Handlers : o # h => held'[o] = held[o] /\ shared'[o] = shared[o]
        BY <1>1, AcquireEffect
        DEF IInv, Typed, TypeOK, SelectJobForUpdate, locks
      <3>2. QED
        BY <1>2, <3>1
        DEF IInv, Typed, TypeOK, SelectJobForUpdate, Fail, Aside
    <2>2. LocksExclude'
      BY <1>1, ExcludeAcquire, ExcludeFrame
      DEF IInv, LockDiscipline, SelectJobForUpdate, locks
    <2>3. pc'[h] = "refuse"
      BY <1>2 DEF Fail, IInv, Typed, TypeOK
    <2>4. QED
      BY <2>1, <2>2, <2>3, Outside, LocalStep
  <1>3. CASE /\ row # NoJob
             /\ Acquire(h, r.job)
             /\ InOrg(h, row.manager)
             /\ Goto(h, "lockJobQuote")
             /\ current' = [current EXCEPT ![h] = row]
    <2>1. /\ held'[h] = held[h] \cup {r.job}
          /\ \A o \in Handlers : o # h => held'[o] = held[o]
          /\ shared' = shared
      BY <1>1, <1>3, AcquireEffect DEF IInv, Typed, TypeOK
    <2>2. /\ pc'[h] = "lockJobQuote"
          /\ \A o \in Handlers : o # h => pc'[o] = pc[o]
          /\ current'[h] = row
          /\ \A o \in Handlers : o # h => current'[o] = current[o]
      BY <1>3 DEF IInv, Typed, TypeOK, Goto
    <2>3. Aside(h) /\ UNCHANGED tables
      BY <2>1, <2>2 DEF SelectJobForUpdate, Aside
    <2>4. LocksExclude'
      BY <1>1, <1>3, ExcludeAcquire DEF IInv, LockDiscipline
    <2>5. jobs' = jobs /\ request' = request /\ view'[h] = NoView
      BY DEF IInv, DecisionsHold, Informed, SelectJobForUpdate, tables
    <2>6. Covered(h)' /\ Informed(h)'
      BY <1>1, <1>3, <2>1, <2>2, <2>5
      DEF Covered, Informed, JobLocking, Deciding, InOrg
    <2>7. QED
      BY <2>3, <2>4, <2>6, LocalStep
  <1>4. QED
    BY <1>2, <1>3 DEF SelectJobForUpdate

(* The rows that selectJobForUpdate joins exist.                           *)
LEMMA JoinedRows ==
  ASSUME Typed, NEW h \in Handlers, pc[h] \in JobLocking
  PROVE  /\ current[h] \in JobRow
         /\ JoinedRow(h) \in Rows
         /\ pc[h] = "lockJobTechnician" => JoinedRow(h) = current[h].technician
  <1>1. current[h] \in JobRow
    BY DEF Typed, TypeOK, RequestFits, JobLocking
  <1>2. CASE pc[h] = "lockJobQuote"
    BY <1>1, <1>2 DEF JoinedRow, JobRow, Rows
  <1>3. CASE pc[h] = "lockJobTechnician"
    BY <1>1, <1>3 DEF JoinedRow, JobRow, Rows
  <1>4. CASE pc[h] = "lockJobManager"
    BY <1>1, <1>4 DEF JoinedRow, JobRow, Rows
  <1>5. QED
    BY <1>1, <1>2, <1>3, <1>4 DEF JobLocking

LEMMA JobQuoteStep ==
  ASSUME IInv, NEW h \in Handlers, LockJobQuote(h), Typed'
  PROVE  IInv'
  <1>1. JoinedRow(h) \in Rows
    BY JoinedRows DEF IInv, LockJobQuote, JobLocking
  <1>2. /\ held[h] \subseteq held'[h]
        /\ \A o \in Handlers : o # h => held'[o] = held[o]
        /\ shared' = shared
    BY <1>1, AcquireEffect DEF IInv, Typed, TypeOK, LockJobQuote
  <1>3. /\ pc'[h] = "lockJobTechnician"
        /\ \A o \in Handlers : o # h => pc'[o] = pc[o]
    BY DEF IInv, Typed, TypeOK, LockJobQuote, Goto
  <1>4. Aside(h) /\ UNCHANGED tables
    BY <1>2, <1>3 DEF LockJobQuote, Aside
  <1>5. LocksExclude'
    BY <1>1, ExcludeAcquire DEF IInv, LockDiscipline, LockJobQuote
  <1>6. UNCHANGED <<jobs, request, current, view>> /\ pc[h] = "lockJobQuote"
    BY DEF LockJobQuote, tables
  <1>7. Covered(h)' /\ Informed(h)'
    BY <1>2, <1>3, <1>6
    DEF IInv, LockDiscipline, DecisionsHold, Covered, Informed, JobLocking,
        Deciding, InOrg
  <1>8. QED
    BY <1>4, <1>5, <1>7, LocalStep

LEMMA JobTechnicianStep ==
  ASSUME IInv, NEW h \in Handlers, LockJobTechnician(h), Typed'
  PROVE  IInv'
  <1>1. JoinedRow(h) \in Rows /\ JoinedRow(h) = current[h].technician
    BY JoinedRows DEF IInv, LockJobTechnician, JobLocking
  <1>2. /\ held'[h] = held[h] \cup {current[h].technician}
        /\ \A o \in Handlers : o # h => held'[o] = held[o]
        /\ shared' = shared
    BY <1>1, AcquireEffect DEF IInv, Typed, TypeOK, LockJobTechnician
  <1>3. /\ pc'[h] = "lockJobManager"
        /\ \A o \in Handlers : o # h => pc'[o] = pc[o]
    BY DEF IInv, Typed, TypeOK, LockJobTechnician, Goto
  <1>4. Aside(h) /\ UNCHANGED tables
    BY <1>2, <1>3 DEF LockJobTechnician, Aside
  <1>5. LocksExclude'
    BY <1>1, ExcludeAcquire DEF IInv, LockDiscipline, LockJobTechnician
  <1>6. /\ UNCHANGED <<jobs, request, current, view>>
        /\ pc[h] = "lockJobTechnician"
    BY DEF LockJobTechnician, tables
  <1>7. Covered(h)' /\ Informed(h)'
    BY <1>2, <1>3, <1>6
    DEF IInv, LockDiscipline, DecisionsHold, Covered, Informed, JobLocking,
        Deciding, InOrg
  <1>8. QED
    BY <1>4, <1>5, <1>7, LocalStep

LEMMA JobManagerStep ==
  ASSUME IInv, NEW h \in Handlers, LockJobManager(h), Typed'
  PROVE  IInv'
  <1> DEFINE next == IF request[h].op = "reschedule" THEN "lockTechnician"
                     ELSE "commit"
  <1>1. JoinedRow(h) \in Rows /\ request[h].op \in {"reschedule", "complete"}
    BY JoinedRows, RequestFields
    DEF IInv, Typed, RequestFits, LockJobManager, JobLocking
  <1>2. /\ held[h] \subseteq held'[h]
        /\ \A o \in Handlers : o # h => held'[o] = held[o]
        /\ shared' = shared
    BY <1>1, AcquireEffect DEF IInv, Typed, TypeOK, LockJobManager
  <1>3. /\ pc'[h] = IF JobVerdict(h) = "none" THEN next ELSE "refuse"
        /\ \A o \in Handlers : o # h => pc'[o] = pc[o]
    BY DEF IInv, Typed, TypeOK, LockJobManager, Decide, Goto, Fail
  <1>4. Aside(h) /\ UNCHANGED tables
    BY <1>2, <1>3 DEF LockJobManager, Aside
  <1>5. LocksExclude'
    BY <1>1, ExcludeAcquire DEF IInv, LockDiscipline, LockJobManager
  <1>6. /\ UNCHANGED <<jobs, request, current, view>>
        /\ pc[h] = "lockJobManager"
    BY DEF LockJobManager, tables
  <1>7. Covered(h)' /\ Informed(h)'
    <2>1. CASE JobVerdict(h) = "none"
      <3>1. Owns(h) /\ ~Frozen(h)
        BY <2>1 DEF JobVerdict
      <3>2. Owns(h)' /\ ~Frozen(h)'
        BY <1>6, <3>1 DEF Owns, Frozen
      <3>3. pc'[h] \in {"lockTechnician", "commit"} /\ pc'[h] = next
        BY <1>3, <2>1
      <3>4. Covered(h)'
        BY <1>1, <1>2, <1>6, <3>3
        DEF IInv, LockDiscipline, Covered, JobLocking, Deciding
      <3>5. Informed(h)'
        BY <1>1, <1>6, <3>2, <3>3
        DEF IInv, DecisionsHold, Informed, JobLocking, Deciding, InOrg
      <3>6. QED
        BY <3>4, <3>5
    <2>2. CASE JobVerdict(h) # "none"
      BY <1>3, <2>2, Outside
    <2>3. QED
      BY <2>1, <2>2
  <1>8. QED
    BY <1>4, <1>5, <1>7, LocalStep

LEMMA TechnicianStep ==
  ASSUME IInv, NEW h \in Handlers, SelectTechnicianForUpdate(h), Typed'
  PROVE  IInv'
  <1> DEFINE r == request[h]
  <1>1. r.op # "complete" /\ r.technician \in Rows
    BY RequestFields
    DEF IInv, Typed, RequestFits, SelectTechnicianForUpdate, Rows
  <1>2. /\ held'[h] = held[h] \cup {r.technician}
        /\ \A o \in Handlers : o # h => held'[o] = held[o]
        /\ shared' = shared
    BY <1>1, AcquireEffect DEF IInv, Typed, TypeOK, SelectTechnicianForUpdate
  <1>3. /\ pc'[h] = IF InOrg(h, r.technician) THEN "availability"
                    ELSE "refuse"
        /\ \A o \in Handlers : o # h => pc'[o] = pc[o]
    BY DEF IInv, Typed, TypeOK, SelectTechnicianForUpdate, Decide, Goto, Fail
  <1>4. Aside(h) /\ UNCHANGED tables
    BY <1>2, <1>3 DEF SelectTechnicianForUpdate, Aside
  <1>5. LocksExclude'
    BY <1>1, ExcludeAcquire
    DEF IInv, LockDiscipline, SelectTechnicianForUpdate
  <1>6. /\ UNCHANGED <<jobs, quotes, request, current, view>>
        /\ pc[h] = "lockTechnician"
    BY DEF SelectTechnicianForUpdate, tables
  <1>7. Covered(h)' /\ Informed(h)'
    <2>1. CASE InOrg(h, r.technician)
      <3>1. Covered(h)'
        BY <1>1, <1>2, <1>3, <1>6, <2>1
        DEF IInv, LockDiscipline, Covered, JobLocking, Deciding
      <3>2. Informed(h)'
        BY <1>1, <1>3, <1>6, <2>1
        DEF IInv, DecisionsHold, Informed, JobLocking, Deciding, InOrg, Owns,
            Frozen
      <3>3. QED
        BY <3>1, <3>2
    <2>2. CASE ~InOrg(h, r.technician)
      BY <1>3, <2>2, Outside
    <2>3. QED
      BY <2>1, <2>2
  <1>8. QED
    BY <1>4, <1>5, <1>7, LocalStep

(* The first plain SELECT opens the view, on the table as it is.           *)
LEMMA AvailableStep ==
  ASSUME IInv, NEW h \in Handlers, EnsureTechnicianAvailable(h), Typed'
  PROVE  IInv'
  <1> DEFINE r == request[h]
             free == r.startsAt \in AvailableStarts[r.technician]
  <1>1. /\ pc'[h] = IF free THEN "overlap" ELSE "refuse"
        /\ \A o \in Handlers : o # h => pc'[o] = pc[o]
    BY DEF IInv, Typed, TypeOK, EnsureTechnicianAvailable, Decide, Goto, Fail
  <1>2. view'[h] = jobs /\ \A o \in Handlers : o # h => view'[o] = view[o]
    BY DEF IInv, Typed, TypeOK, DecisionsHold, Informed,
           EnsureTechnicianAvailable, ReadView
  <1>3. Aside(h) /\ UNCHANGED tables /\ UNCHANGED locks
    BY <1>1, <1>2 DEF EnsureTechnicianAvailable, Aside, locks
  <1>4. /\ UNCHANGED <<jobs, quotes, request, current, held>>
        /\ pc[h] = "availability"
    BY DEF EnsureTechnicianAvailable, tables, locks
  <1>5. Covered(h)' /\ Informed(h)'
    <2>1. CASE free
      <3>1. Covered(h)'
        BY <1>1, <1>4, <2>1
        DEF IInv, LockDiscipline, Covered, JobLocking, Deciding
      <3>2. ReadView(h)' = jobs'
        BY <1>2, <1>4 DEF ReadView
      <3>3. ViewCurrent(h)'
        BY <3>2 DEF ViewCurrent
      <3>4. Informed(h)'
        BY <1>1, <1>4, <2>1, <3>3
        DEF IInv, DecisionsHold, Informed, JobLocking, Deciding, InOrg, Owns,
            Frozen
      <3>5. QED
        BY <3>1, <3>4
    <2>2. CASE ~free
      BY <1>1, <2>2, Outside
    <2>3. QED
      BY <2>1, <2>2
  <1>6. QED
    BY <1>3, <1>5, ExcludeFrame, LocalStep DEF IInv, LockDiscipline

(* What the COUNT over a current view finds free is free in the table:     *)
(* the organization filter hides no job of a technician of the             *)
(* organization.                                                           *)
LEMMA NoConflictIsFree ==
  ASSUME IInv, NEW h \in Handlers, pc[h] = "overlap", ~Conflicts(h)
  PROVE  WindowFree(h)
  <1> DEFINE r == request[h]
  <1>1. r.op # "complete" /\ r.startsAt \in Int
    BY RequestFields, TimeAssumption DEF IInv, Typed, RequestFits
  <1>2. ViewCurrent(h) /\ InOrg(h, r.technician)
    BY <1>1 DEF IInv, DecisionsHold, Informed, Deciding
  <1>3. SUFFICES ASSUME NEW j \in Jobs, jobs[j] # NoJob,
                        jobs[j].technician = r.technician,
                        r.op = "reschedule" => j # r.job
                 PROVE  Disjoint(jobs[j].startsAt, r.startsAt)
    BY DEF WindowFree
  <1>4. ReadView(h)[j] = jobs[j]
    BY <1>2, <1>3 DEF ViewCurrent, WorksFor
  <1>5. InOrg(h, jobs[j].manager)
    BY <1>2, <1>3 DEF IInv, Booked, OrgsAgree, InOrg
  <1>6. ~Overlaps(jobs[j].startsAt, r.startsAt)
    BY <1>3, <1>4, <1>5 DEF Conflicts, Blocks
  <1>7. jobs[j].startsAt \in Int
    BY <1>3, TimeAssumption DEF IInv, Typed, TypeOK, JobRow
  <1>8. QED
    BY <1>1, <1>6, <1>7, TimeAssumption DEF Overlaps, EndsAt, Disjoint

LEMMA OverlapStep ==
  ASSUME IInv, NEW h \in Handlers, EnsureNoOverlap(h), Typed'
  PROVE  IInv'
  <1> DEFINE r == request[h]
             next == IF r.op = "assign" THEN "insert" ELSE "commit"
  <1>1. /\ pc'[h] = IF Conflicts(h) THEN "refuse" ELSE next
        /\ \A o \in Handlers : o # h => pc'[o] = pc[o]
    BY DEF IInv, Typed, TypeOK, EnsureNoOverlap, Decide, Goto, Fail
  <1>2. view'[h] = NoView /\ \A o \in Handlers : o # h => view'[o] = view[o]
    BY DEF IInv, Typed, TypeOK, EnsureNoOverlap
  <1>3. Aside(h) /\ UNCHANGED tables /\ UNCHANGED locks
    BY <1>1, <1>2 DEF EnsureNoOverlap, Aside, locks
  <1>4. /\ UNCHANGED <<jobs, quotes, request, current, held>>
        /\ pc[h] = "overlap"
    BY DEF EnsureNoOverlap, tables, locks
  <1>5. Covered(h)' /\ Informed(h)'
    <2>1. CASE ~Conflicts(h)
      <3>1. pc'[h] \in {"insert", "commit"}
        BY <1>1, <2>1
      <3>2. Covered(h)'
        BY <1>4, <3>1
        DEF IInv, LockDiscipline, Covered, JobLocking, Deciding
      <3>3. WindowFree(h)'
        BY <1>4, <2>1, NoConflictIsFree DEF WindowFree
      <3>4. Informed(h)'
        BY <1>2, <1>4, <3>1, <3>3
        DEF IInv, DecisionsHold, Informed, JobLocking, Deciding, InOrg, Owns,
            Frozen
      <3>5. QED
        BY <3>2, <3>4
    <2>2. CASE Conflicts(h)
      BY <1>1, <2>2, Outside
    <2>3. QED
      BY <2>1, <2>2
  <1>6. QED
    BY <1>3, <1>5, ExcludeFrame, LocalStep DEF IInv, LockDiscipline

LEMMA InsertStep ==
  ASSUME IInv, NEW h \in Handlers, InsertJob(h), Typed'
  PROVE  IInv'
  <1> DEFINE r == request[h]
  <1>1. /\ pc'[h] = IF QuoteHasJob(r.quote) THEN "refuse" ELSE "commit"
        /\ \A o \in Handlers : o # h => pc'[o] = pc[o]
    BY DEF IInv, Typed, TypeOK, InsertJob, Decide, Goto, Fail
  <1>2. /\ shared'[h] = shared[h] \cup {r.actor}
        /\ \A o \in Handlers : o # h => shared'[o] = shared[o]
        /\ \A o \in Handlers : o # h => r.actor \notin held[o]
    BY DEF IInv, Typed, TypeOK, InsertJob
  <1>3. Aside(h) /\ UNCHANGED tables
    BY <1>1, <1>2 DEF InsertJob, Aside
  <1>4. LocksExclude'
    BY <1>2 DEF IInv, LockDiscipline, LocksExclude, InsertJob
  <1>5. /\ UNCHANGED <<jobs, quotes, request, current, held, view>>
        /\ pc[h] = "insert"
    BY DEF InsertJob, tables
  <1>6. Covered(h)' /\ Informed(h)'
    <2>1. CASE pc'[h] = "commit"
      <3>1. Covered(h)'
        BY <1>5, <2>1
        DEF IInv, LockDiscipline, Covered, JobLocking, Deciding
      <3>2. r.op = "assign" /\ WindowFree(h)
        BY <1>5 DEF IInv, Typed, RequestFits, DecisionsHold, Informed
      <3>3. WindowFree(h)'
        BY <1>5, <3>2 DEF WindowFree
      <3>4. Informed(h)'
        BY <1>5, <2>1, <3>2, <3>3
        DEF IInv, DecisionsHold, Informed, JobLocking, Deciding, InOrg
      <3>5. QED
        BY <3>1, <3>4
    <2>2. CASE pc'[h] # "commit"
      BY <1>1, <2>2, Outside
    <2>3. QED
      BY <2>1, <2>2
  <1>7. QED
    BY <1>3, <1>4, <1>6, LocalStep

-----------------------------------------------------------------------------
(* Ends of a request, and failures.                                        *)

LEMMA PublishStep ==
  ASSUME IInv, NEW h \in Handlers, Publish(h), Typed'
  PROVE  IInv'
  <1>1. Aside(h) /\ UNCHANGED tables /\ UNCHANGED locks
    BY DEF IInv, Typed, TypeOK, Publish, Forget, Aside, locks
  <1>2. pc'[h] = "idle" /\ view'[h] = NoView
    BY DEF IInv, Typed, TypeOK, Publish, Forget
  <1>3. QED
    BY <1>1, <1>2, ExcludeFrame, Outside, LocalStep DEF IInv, LockDiscipline

LEMMA RefuseStep ==
  ASSUME IInv, NEW h \in Handlers, Refuse(h), Typed'
  PROVE  IInv'
  <1>1. Aside(h) /\ UNCHANGED tables /\ Unlock(h)
    BY DEF IInv, Typed, TypeOK, Refuse, Forget, EndTransaction, Unlock, Aside
  <1>2. pc'[h] = "idle" /\ view'[h] = NoView
    BY DEF IInv, Typed, TypeOK, Refuse, Forget
  <1>3. QED
    BY <1>1, <1>2, ExcludeUnlock, Outside, LocalStep DEF IInv, LockDiscipline

LEMMA FailsStep ==
  ASSUME IInv, NEW h \in Handlers, StatementFails(h), Typed'
  PROVE  IInv'
  <1>1. Aside(h) /\ UNCHANGED tables /\ UNCHANGED locks
    BY DEF IInv, Typed, TypeOK, StatementFails, Fail, Aside, locks
  <1>2. pc'[h] = "refuse"
    BY DEF IInv, Typed, TypeOK, StatementFails, Fail
  <1>3. QED
    BY <1>1, <1>2, ExcludeFrame, Outside, LocalStep DEF IInv, LockDiscipline

LEMMA VictimStep ==
  ASSUME IInv, NEW h \in Handlers, DeadlockVictim(h), Typed'
  PROVE  IInv'
  <1>1. Aside(h) /\ UNCHANGED tables /\ Unlock(h)
    BY DEF IInv, Typed, TypeOK, DeadlockVictim, Fail, Unlock, Aside
  <1>2. pc'[h] = "refuse"
    BY DEF IInv, Typed, TypeOK, DeadlockVictim, Fail
  <1>3. QED
    BY <1>1, <1>2, ExcludeUnlock, Outside, LocalStep DEF IInv, LockDiscipline

LEMMA CrashStep ==
  ASSUME IInv, Crash, Typed'
  PROVE  IInv'
  <1>1. LocksExclude'
    BY DEF Crash, LocksExclude
  <1>2. \A h \in Handlers : Covered(h)' /\ Informed(h)'
    BY Outside DEF Crash
  <1>3. Booked'
    BY BookedFrame DEF Crash, IInv
  <1>4. QED
    BY <1>1, <1>2, <1>3 DEF IInv, LockDiscipline, DecisionsHold

-----------------------------------------------------------------------------
(* The commit. It writes one row, of a job and for a technician (and away  *)
(* from a technician) it has locked, on the table it looked at.            *)

LEMMA NoJobIsNoRow == NoJob \notin JobRow
  BY RowsAssumption DEF NoJob, JobRow, Rows

(* A commit of h leaves row in the place of j.                             *)
Leaves(h, j, row) ==
  /\ row \in JobRow
  /\ row # NoJob
  /\ jobs' = [jobs EXCEPT ![j] = row]
  /\ request[h].op = "complete" => row.technician = jobs[j].technician
                                   /\ row.startsAt = jobs[j].startsAt
  /\ request[h].op # "complete" => row.technician = request[h].technician
                                   /\ row.startsAt = request[h].startsAt
                                   /\ WindowFree(h)
  /\ row.technician \in held[h]
  /\ OrgOf[row.quote] = OrgOf[row.manager]
  /\ OrgOf[row.technician] = OrgOf[row.manager]
  /\ \/ /\ request[h].op = "assign"
        /\ jobs[j] = NoJob
        /\ row.quote = request[h].quote
        /\ row.quote \in Quotes
        /\ row.quote \in held[h]
        /\ quotes[row.quote] = "unscheduled"
        /\ quotes' = [quotes EXCEPT ![row.quote] = "scheduled"]
     \/ /\ request[h].op # "assign"
        /\ jobs[j] \in JobRow
        /\ jobs[j] # NoJob
        /\ j = request[h].job
        /\ j \in held[h]
        /\ jobs[j].technician \in held[h]
        /\ row.quote = jobs[j].quote
        /\ quotes' = quotes

LEMMA CommitLeaves ==
  ASSUME IInv, NEW h \in Handlers, Commit(h), NEW j \in Jobs,
         WrittenJob(h, j), Write(request[h], current[h], j)
  PROVE  Leaves(h, j, NewRow(request[h], current[h]))
  <1> DEFINE r == request[h]
             old == current[h]
  <1>1. WrittenJob(h, j) /\ Write(r, old, j)
    OBVIOUS
  <1>2. /\ r \in AllRequests /\ RoleAllows(r) /\ ValidInput(r)
        /\ old \in JobRow \cup {NoJob}
        /\ r.op # "assign" => old \in JobRow
        /\ pc[h] = "commit"
    BY DEF IInv, Typed, TypeOK, RequestFits, Commit, JobLocking, Deciding
  <1> DEFINE row == NewRow(r, old)
  <1>3. /\ row \in JobRow /\ row # NoJob
        /\ jobs' = [jobs EXCEPT ![j] = row]
        /\ quotes' = QuotesAfter(r)
    BY <1>1, <1>2, NewRowType, NoJobIsNoRow DEF Write
  <1>4. /\ r.op = "assign" => r.quote \in held[h]
        /\ r.op # "assign" => r.job \in held[h] /\ old.technician \in held[h]
        /\ r.op # "complete" => r.technician \in held[h]
    BY <1>2 DEF IInv, LockDiscipline, Covered, Deciding
  <1>5. /\ r.op = "assign"
           => quotes[r.quote] = "unscheduled" /\ InOrg(h, r.quote)
        /\ r.op # "assign" => old = jobs[r.job] /\ InOrg(h, old.manager)
        /\ r.op # "complete" => InOrg(h, r.technician) /\ WindowFree(h)
    BY <1>2 DEF IInv, DecisionsHold, Informed, Deciding
  <1>6. CASE r.op = "assign"
    <2>1. row = AssignedRow(r) /\ jobs[j] = NoJob
      BY <1>1, <1>6 DEF NewRow, WrittenJob
    <2>2. /\ row.quote = r.quote /\ row.technician = r.technician
          /\ row.startsAt = r.startsAt /\ row.manager = r.actor
      BY <2>1 DEF AssignedRow
    <2>3. r.quote \in Quotes
      BY <1>2, <1>6, RequestFields
    <2>4. Leaves(h, j, row)
      BY <1>3, <1>4, <1>5, <1>6, <2>1, <2>2, <2>3
      DEF Leaves, QuotesAfter, InOrg
    <2>5. QED
      BY <2>4
  <1>7. CASE r.op # "assign"
    <2>1. /\ j = r.job /\ old = jobs[j] /\ old \in JobRow /\ old # NoJob
          /\ OrgOf[old.quote] = OrgOf[old.manager]
          /\ OrgOf[old.technician] = OrgOf[old.manager]
          /\ quotes' = quotes
      BY <1>1, <1>2, <1>3, <1>5, <1>7, NoJobIsNoRow
      DEF WrittenJob, IInv, Booked, OrgsAgree, QuotesAfter
    <2>2. r.op \in {"reschedule", "complete"}
      BY <1>2, <1>7, RequestFields
    <2>3. CASE r.op = "reschedule"
      <3>1. row = [old EXCEPT !.technician = r.technician,
                              !.startsAt = r.startsAt]
        BY <2>3 DEF NewRow
      <3>2. /\ row.quote = old.quote /\ row.technician = r.technician
            /\ row.startsAt = r.startsAt /\ row.manager = old.manager
        BY <2>1, <3>1 DEF JobRow
      <3>3. Leaves(h, j, row)
        BY <1>3, <1>4, <1>5, <2>1, <2>3, <3>2 DEF Leaves, InOrg
      <3>4. QED
        BY <3>3
    <2>4. CASE r.op = "complete"
      <3>1. row = [old EXCEPT !.status = "completed"]
        BY <2>4 DEF NewRow
      <3>2. /\ row.quote = old.quote /\ row.technician = old.technician
            /\ row.startsAt = old.startsAt /\ row.manager = old.manager
        BY <2>1, <3>1 DEF JobRow
      <3>3. Leaves(h, j, row)
        BY <1>3, <1>4, <1>5, <2>1, <2>4, <3>2 DEF Leaves
      <3>4. QED
        BY <3>3
    <2>5. QED
      BY <2>2, <2>3, <2>4
  <1>8. QED
    BY <1>6, <1>7

(* The commit is none of the business of a handler with other locks: the   *)
(* quote and the job it decided on, and all jobs of the technician it      *)
(* looked at, stay as they are.                                            *)
LEMMA CommitInforms ==
  ASSUME IInv, NEW h \in Handlers, NEW o \in Handlers, o # h, Aside(h),
         NEW j \in Jobs, NEW row \in JobRow, Leaves(h, j, row)
  PROVE  Informed(o)'
  <1> DEFINE r == request[o]
             t == r.technician
  <1>1. /\ pc'[o] = pc[o] /\ request'[o] = request[o]
        /\ current'[o] = current[o] /\ view'[o] = view[o]
    BY DEF Aside
  <1>2. held[o] \cap held[h] = {}
    BY DEF IInv, LockDiscipline, LocksExclude
  <1>3. Covered(o) /\ Informed(o)
    BY DEF IInv, LockDiscipline, DecisionsHold
  <1>4. /\ jobs'[j] = row
        /\ \A i \in Jobs : i # j => jobs'[i] = jobs[i]
    BY DEF Leaves, IInv, Typed, TypeOK
  <1>5. pc[o] \in Deciding /\ r.op = "assign" => quotes'[r.quote] = quotes[r.quote]
    <2>1. CASE request[h].op = "assign"
      <3>1. pc[o] \in Deciding /\ r.op = "assign" => r.quote \in Quotes
        BY RequestFields DEF IInv, Typed, RequestFits, Deciding
      <3>2. pc[o] \in Deciding /\ r.op = "assign" => r.quote \in held[o]
        BY <1>3 DEF Covered
      <3>3. \A q \in Quotes : q # request[h].quote => quotes'[q] = quotes[q]
        BY <2>1 DEF Leaves, IInv, Typed, TypeOK
      <3>4. request[h].quote \in held[h]
        BY <2>1 DEF Leaves
      <3>5. QED
        BY <1>2, <3>1, <3>2, <3>3, <3>4
    <2>2. CASE request[h].op # "assign"
      BY <2>2 DEF Leaves
    <2>3. QED
      BY <2>1, <2>2
  <1>6. pc[o] \in JobLocking \cup Deciding /\ r.op # "assign"
        => jobs'[r.job] = jobs[r.job]
    <2> SUFFICES ASSUME pc[o] \in JobLocking \cup Deciding, r.op # "assign"
                 PROVE  jobs'[r.job] = jobs[r.job]
      OBVIOUS
    <2>1. r.job \in Jobs
      BY RequestFields
      DEF IInv, Typed, RequestFits, JobLocking, Deciding
    <2>2. r.job \in held[o] /\ jobs[r.job] # NoJob
      BY <1>3 DEF Covered, Informed
    <2>3. r.job # j
      BY <1>2, <2>2 DEF Leaves
    <2>4. QED
      BY <1>4, <2>1, <2>3
  <1>7. t \in held[o]
        => /\ row.technician # t
           /\ jobs[j] # NoJob => jobs[j].technician # t
    BY <1>2 DEF Leaves
  <1>8. pc[o] \in Deciding \ {"lockTechnician"} /\ r.op # "complete"
        => t \in held[o]
    BY <1>3 DEF Covered
  <1>9. pc[o] = "overlap" => ViewCurrent(o)'
    <2> SUFFICES ASSUME pc[o] = "overlap", NEW i \in Jobs,
                        \/ WorksFor(jobs[i], t)'
                        \/ WorksFor(ReadView(o)[i], t)'
                 PROVE  ReadView(o)'[i] = jobs'[i]
      BY DEF ViewCurrent
    <2>1. r.op # "complete" /\ t \in held[o] /\ ViewCurrent(o)
      BY <1>3, <1>8 DEF IInv, Typed, RequestFits, Informed, Deciding
    <2>2. CASE view[o] = NoView
      BY <1>1, <2>2 DEF ReadView
    <2>3. CASE view[o] # NoView
      <3>1. ReadView(o) = view[o] /\ ReadView(o)' = view[o]
        BY <1>1, <2>3 DEF ReadView
      <3>2. i # j
        BY <1>1, <1>4, <1>7, <2>1, <3>1 DEF ViewCurrent, WorksFor
      <3>3. QED
        BY <1>1, <1>4, <2>1, <3>1, <3>2 DEF ViewCurrent, WorksFor
    <2>4. QED
      BY <2>2, <2>3
  <1>10. pc[o] \in {"insert", "commit"} /\ r.op # "complete"
         => WindowFree(o)'
    <2> SUFFICES ASSUME pc[o] \in {"insert", "commit"}, r.op # "complete"
                 PROVE  WindowFree(o)'
      OBVIOUS
    <2>1. t \in held[o] /\ WindowFree(o)
      BY <1>3, <1>8 DEF Informed, Deciding
    <2>2. QED
      BY <1>1, <1>4, <1>7, <2>1 DEF WindowFree
  <1>11. QED
    BY <1>1, <1>3, <1>5, <1>6, <1>9, <1>10
    DEF Informed, InOrg, Owns, Frozen

(* And it keeps the books.                                                 *)
LEMMA CommitBooks ==
  ASSUME IInv, NEW h \in Handlers, NEW j \in Jobs, NEW row \in JobRow,
         Leaves(h, j, row)
  PROVE  Booked'
  <1>1. /\ jobs'[j] = row
        /\ \A i \in Jobs : i # j => jobs'[i] = jobs[i]
        /\ row # NoJob
    BY DEF Leaves, IInv, Typed, TypeOK
  <1>2. \A i \in Jobs : jobs[i] # NoJob => jobs[i].startsAt \in Int
    BY TimeAssumption DEF IInv, Typed, TypeOK, JobRow
  <1>3. row.startsAt \in Int
    BY TimeAssumption DEF JobRow
  <1>4. ASSUME NEW i \in Jobs, i # j, jobs[i] # NoJob,
               jobs[i].technician = row.technician
        PROVE  Disjoint(jobs[i].startsAt, row.startsAt)
    <2>1. CASE request[h].op = "complete"
      BY <1>4, <2>1 DEF Leaves, IInv, Booked, NoOverlap
    <2>2. CASE request[h].op # "complete"
      BY <1>4, <2>2 DEF Leaves, WindowFree
    <2>3. QED
      BY <2>1, <2>2
  <1>5. NoOverlap'
    <2> SUFFICES ASSUME NEW i \in Jobs, NEW k \in Jobs, i # k,
                        jobs'[i] # NoJob, jobs'[k] # NoJob,
                        jobs'[i].technician = jobs'[k].technician
                 PROVE  Disjoint(jobs'[i].startsAt, jobs'[k].startsAt)
      BY DEF NoOverlap, Disjoint
    <2>1. CASE i = j
      <3>1. Disjoint(jobs[k].startsAt, row.startsAt)
        BY <1>1, <1>4, <2>1
      <3>2. QED
        BY <1>1, <1>2, <1>3, <2>1, <3>1, TimeAssumption DEF Disjoint
    <2>2. CASE k = j
      BY <1>1, <1>4, <2>2
    <2>3. CASE i # j /\ k # j
      BY <1>1, <2>3 DEF IInv, Booked, NoOverlap
    <2>4. QED
      BY <2>1, <2>2, <2>3
  <1>6. QuoteJobAgreement'
    <2>1. CASE request[h].op = "assign"
      <3>1. /\ jobs[j] = NoJob
            /\ quotes'[row.quote] = "scheduled"
            /\ \A q \in Quotes : q # row.quote => quotes'[q] = quotes[q]
        BY <2>1 DEF Leaves, IInv, Typed, TypeOK
      <3>2. \A i \in Jobs : jobs[i] # NoJob => jobs[i].quote # row.quote
        BY <2>1
        DEF Leaves, IInv, Booked, QuoteJobAgreement, QuoteHasJob
      <3>3. \A i, k \in Jobs :
              jobs'[i] # NoJob /\ jobs'[k] # NoJob
                /\ jobs'[i].quote = jobs'[k].quote => i = k
        BY <1>1, <3>2 DEF IInv, Booked, QuoteJobAgreement
      <3>4. \A q \in Quotes : QuoteHasJob(q)' <=> q = row.quote \/ QuoteHasJob(q)
        BY <1>1, <3>1 DEF QuoteHasJob
      <3>5. QED
        BY <3>1, <3>3, <3>4 DEF IInv, Booked, QuoteJobAgreement
    <2>2. CASE request[h].op # "assign"
      <3>1. /\ jobs[j] # NoJob
            /\ row.quote = jobs[j].quote
            /\ quotes' = quotes
        BY <2>2 DEF Leaves
      <3>2. \A q \in Quotes : QuoteHasJob(q)' <=> QuoteHasJob(q)
        BY <1>1, <3>1 DEF QuoteHasJob
      <3>3. \A i, k \in Jobs :
              jobs'[i] # NoJob /\ jobs'[k] # NoJob
                /\ jobs'[i].quote = jobs'[k].quote => i = k
        BY <1>1, <3>1 DEF IInv, Booked, QuoteJobAgreement
      <3>4. QED
        BY <3>1, <3>2, <3>3 DEF IInv, Booked, QuoteJobAgreement
    <2>3. QED
      BY <2>1, <2>2
  <1>7. OrgsAgree'
    BY <1>1 DEF Leaves, IInv, Booked, OrgsAgree
  <1>8. QED
    BY <1>5, <1>6, <1>7 DEF Booked

LEMMA CommitStep ==
  ASSUME IInv, NEW h \in Handlers, Commit(h), Typed'
  PROVE  IInv'
  <1>1. PICK j \in Jobs :
          WrittenJob(h, j) /\ Write(request[h], current[h], j)
    BY DEF Commit
  <1>2. PICK row \in JobRow : Leaves(h, j, row)
    BY <1>1, CommitLeaves DEF Leaves
  <1>3. Aside(h) /\ Unlock(h)
    BY DEF IInv, Typed, TypeOK, Commit, Goto, Fail, EndTransaction, Unlock,
           Aside
  <1>4. LocksExclude'
    BY <1>3, ExcludeUnlock DEF IInv, LockDiscipline
  <1>5. pc'[h] \in {"publish", "refuse"} /\ view'[h] = NoView
    BY DEF IInv, Typed, TypeOK, DecisionsHold, Informed, Commit, Goto, Fail
  <1>6. Covered(h)' /\ Informed(h)'
    BY <1>5, Outside
  <1>7. \A o \in Handlers : Covered(o)'
    BY <1>3, <1>6, CoveredFrame DEF IInv, LockDiscipline
  <1>8. \A o \in Handlers : Informed(o)'
    BY <1>2, <1>3, <1>6, CommitInforms
  <1>9. Booked'
    BY <1>2, CommitBooks
  <1>10. QED
    BY <1>4, <1>7, <1>8, <1>9 DEF IInv, LockDiscipline, DecisionsHold

-----------------------------------------------------------------------------
(* The invariant.                                                          *)

LEMMA InvariantInit == Init => IInv
  <1> SUFFICES ASSUME Init PROVE IInv
    OBVIOUS
  <1>1. LockDiscipline /\ DecisionsHold
    BY DEF Init, LockDiscipline, LocksExclude, Covered, DecisionsHold,
           Informed, JobLocking, Deciding
  <1>2. Booked
    BY DEF Init, Booked, NoOverlap, QuoteJobAgreement, QuoteHasJob, OrgsAgree
  <1>3. QED
    BY <1>1, <1>2, TypedInit DEF IInv

LEMMA InvariantStep == IInv /\ [Next]_vars => IInv'
  <1> SUFFICES ASSUME IInv, [Next]_vars PROVE IInv'
    OBVIOUS
  <1>1. Typed'
    BY TypedStep DEF IInv
  <1>2. CASE \E h \in Handlers : Serve(h)
    BY <1>1, <1>2, BeginStep, QuoteStep, JobStep, JobQuoteStep,
       JobTechnicianStep, JobManagerStep, TechnicianStep, AvailableStep,
       OverlapStep, InsertStep, CommitStep, PublishStep, RefuseStep
    DEF Serve
  <1>3. CASE \E h \in Handlers :
               StartRequest(h) \/ StatementFails(h) \/ DeadlockVictim(h)
    BY <1>1, <1>3, StartStep, FailsStep, VictimStep
  <1>4. CASE Crash
    BY <1>1, <1>4, CrashStep
  <1>5. CASE UNCHANGED vars
    <2>1. UNCHANGED <<tables, locks, pc, request, current, view>>
      BY <1>5 DEF vars
    <2>2. LockDiscipline'
      BY <2>1 DEF IInv, LockDiscipline, LocksExclude, Covered, locks
    <2>3. DecisionsHold'
      <3> SUFFICES ASSUME NEW h \in Handlers PROVE Informed(h)'
        BY DEF DecisionsHold
      <3>1. jobs' = jobs /\ quotes' = quotes
        BY <2>1 DEF tables
      <3>2. /\ ViewCurrent(h) => ViewCurrent(h)'
            /\ WindowFree(h) => WindowFree(h)'
        BY <2>1, <3>1 DEF ViewCurrent, WorksFor, ReadView, WindowFree
      <3>3. QED
        BY <2>1, <3>1, <3>2
        DEF IInv, DecisionsHold, Informed, InOrg, Owns, Frozen
    <2>4. Booked'
      BY <2>1, BookedFrame DEF IInv
    <2>5. QED
      BY <1>1, <2>2, <2>3, <2>4 DEF IInv
  <1>6. QED
    BY <1>2, <1>3, <1>4, <1>5 DEF Next, Quiescent

LEMMA Invariant == Spec => []IInv
  BY InvariantInit, InvariantStep, PTL DEF Spec

(* No technician is ever double-booked, whatever requests run concurrently *)
(* and wherever they fail (service.go:101-110, 193-202).                   *)
THEOREM NoDoubleBooking == Spec => []NoOverlap
  <1>1. IInv => NoOverlap
    BY DEF IInv, Booked
  <1>2. QED
    BY <1>1, Invariant, PTL

(* A quote has at most one job, and its status says whether it has one     *)
(* (service.go:93-128).                                                    *)
THEOREM QuotesAgree == Spec => []QuoteJobAgreement
  <1>1. IInv => QuoteJobAgreement
    BY DEF IInv, Booked
  <1>2. QED
    BY <1>1, Invariant, PTL

(* Every statement runs under the locks the ones before it took, and no    *)
(* row is locked twice (service.go:93, 101, 183, 193, 281).                *)
THEOREM LocksAreDisciplined == Spec => []LockDiscipline
  <1>1. IInv => LockDiscipline
    BY DEF IInv
  <1>2. QED
    BY <1>1, Invariant, PTL

(* What a transaction has decided on stays true until it commits           *)
(* (service.go:93-110, 183-202, 281-290).                                  *)
THEOREM DecisionsStay == Spec => []DecisionsHold
  <1>1. IInv => DecisionsHold
    BY DEF IInv
  <1>2. QED
    BY <1>1, Invariant, PTL

(* The unique key of jobs.quote_id never refuses an INSERT                 *)
(* (service.go:117).                                                       *)
THEOREM QuoteIsFreeAtInsert == Spec => []DuplicateKeyNeverHit
  <1>1. IInv => DuplicateKeyNeverHit
    <2> SUFFICES ASSUME IInv, NEW h \in Handlers, pc[h] = "insert"
                 PROVE  ~QuoteHasJob(request[h].quote)
      BY DEF DuplicateKeyNeverHit
    <2>1. request[h].op = "assign" /\ request[h].quote \in Quotes
      BY RequestFields DEF IInv, Typed, RequestFits
    <2>2. quotes[request[h].quote] = "unscheduled"
      BY <2>1 DEF IInv, DecisionsHold, Informed, Deciding
    <2>3. QED
      BY <2>1, <2>2 DEF IInv, Booked, QuoteJobAgreement
  <1>2. QED
    BY <1>1, Invariant, PTL

(* Only a commit changes the tables.                                       *)
LEMMA OnlyCommitWrites ==
  ASSUME [Next]_vars, \A h \in Handlers : ~Commit(h)
  PROVE  UNCHANGED tables
  <1>1. CASE \E h \in Handlers : Serve(h)
    BY <1>1
    DEF Serve, BeginTx, SelectQuoteForUpdate, SelectJobForUpdate,
        LockJobQuote, LockJobTechnician, LockJobManager,
        SelectTechnicianForUpdate, EnsureTechnicianAvailable,
        EnsureNoOverlap, InsertJob, Publish, Refuse
  <1>2. CASE \E h \in Handlers :
               StartRequest(h) \/ StatementFails(h) \/ DeadlockVictim(h)
    BY <1>2 DEF StartRequest, StatementFails, DeadlockVictim
  <1>3. CASE Crash \/ UNCHANGED vars
    BY <1>3 DEF Crash, vars
  <1>4. QED
    BY <1>1, <1>2, <1>3 DEF Next, Quiescent

(* A commit changes an existing job only at its owner's request.           *)
LEMMA CommitByOwner ==
  ASSUME IInv, NEW h \in Handlers, Commit(h)
  PROVE  OnlyOwnersChange
  <1> DEFINE r == request[h]
  <1>1. PICK j \in Jobs : WrittenJob(h, j) /\ Write(r, current[h], j)
    BY DEF Commit
  <1>2. jobs' = [jobs EXCEPT ![j] = NewRow(r, current[h])]
    BY <1>1 DEF Write
  <1>3. \A i \in Jobs : i # j => jobs'[i] = jobs[i]
    BY <1>2 DEF IInv, Typed, TypeOK
  <1>4. jobs'[j] = NewRow(r, current[h])
    BY <1>2 DEF IInv, Typed, TypeOK
  <1>5. CASE r.op = "assign"
    <2>1. jobs[j] = NoJob
      BY <1>1, <1>5 DEF WrittenJob
    <2>2. QED
      BY <1>3, <2>1 DEF OnlyOwnersChange
  <1>6. CASE r.op # "assign"
    <2>1. /\ j = r.job /\ pc[h] = "commit"
          /\ current[h] = jobs[j] /\ current[h] # NoJob
          /\ Owns(h) /\ ~Frozen(h)
      BY <1>1, <1>6
      DEF WrittenJob, Commit, IInv, DecisionsHold, Informed, JobLocking, Deciding
    <2>2. jobs[j] \in JobRow
      BY <2>1 DEF IInv, Typed, TypeOK
    <2>3. jobs[j].status = "scheduled"
      BY <2>1, <2>2 DEF Frozen, JobRow
    <2>4. pc'[h] # "commit"
      BY DEF Commit, Goto, Fail, IInv, Typed, TypeOK
    <2>5. CASE r.op = "reschedule"
      <3>1. jobs'[j] = [jobs[j] EXCEPT !.technician = r.technician,
                                       !.startsAt = r.startsAt]
        BY <1>4, <2>1, <2>5 DEF NewRow
      <3>2. /\ jobs'[j].quote = jobs[j].quote /\ jobs'[j].manager = jobs[j].manager
            /\ jobs'[j].status # "completed"
        BY <2>2, <2>3, <3>1 DEF JobRow
      <3>3. r.actor = jobs[j].manager
        BY <2>1, <2>5 DEF Owns
      <3>4. QED
        BY <1>3, <2>1, <2>3, <2>4, <3>2, <3>3 DEF OnlyOwnersChange
    <2>6. CASE r.op = "complete"
      <3>1. jobs'[j] = [jobs[j] EXCEPT !.status = "completed"]
        BY <1>4, <2>1, <2>6 DEF NewRow
      <3>2. /\ jobs'[j].quote = jobs[j].quote /\ jobs'[j].manager = jobs[j].manager
            /\ jobs'[j].status = "completed"
        BY <2>2, <3>1 DEF JobRow
      <3>3. r.actor = jobs[j].technician
        BY <2>1, <2>6 DEF Owns
      <3>4. QED
        BY <1>3, <2>1, <2>3, <2>4, <3>2, <3>3 DEF OnlyOwnersChange
    <2>7. r.op \in {"assign", "reschedule", "complete"}
      BY RequestFields DEF IInv, Typed, RequestFits, Commit
    <2>8. QED
      BY <1>6, <2>5, <2>6, <2>7
  <1>7. QED
    BY <1>5, <1>6

(* A job changes only at its owner's request, and a completed one never,   *)
(* whatever happened between the check and the commit (service.go:187-192, *)
(* 285-290).                                                               *)
THEOREM OwnersDecide == Spec => OwnersChangeJobs
  <1>1. IInv /\ [Next]_vars => [OnlyOwnersChange]_vars
    <2> SUFFICES ASSUME IInv, [Next]_vars PROVE [OnlyOwnersChange]_vars
      OBVIOUS
    <2>1. CASE \E h \in Handlers : Commit(h)
      BY <2>1, CommitByOwner
    <2>2. CASE \A h \in Handlers : ~Commit(h)
      <3>1. jobs' = jobs
        BY <2>2, OnlyCommitWrites DEF tables
      <3>2. QED
        BY <3>1 DEF OnlyOwnersChange
    <2>3. QED
      BY <2>1, <2>2
  <1>2. QED
    BY <1>1, Invariant, PTL DEF OwnersChangeJobs, Spec
=============================================================================
