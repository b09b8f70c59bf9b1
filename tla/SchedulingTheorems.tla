------------------------- MODULE SchedulingTheorems -------------------------
(***************************************************************************)
(* What follows from the invariant of SchedulingProofs, again for every    *)
(* value of the constants: the audit log is an unbroken account, refusals  *)
(* are true, organizations are isolated, whoever is affected is told, the  *)
(* service implements the book, and every deadlock has a reschedule in it. *)
(***************************************************************************)
EXTENDS SchedulingProofs, FiniteSetTheorems

-----------------------------------------------------------------------------
(* What a commit writes, and on what.                                      *)

(* Handler h writes job j: the old row is the one it locked, not completed *)
(* yet and its actor's to change.                                          *)
Writes(h, j) ==
  LET r == request[h]
      old == current[h]
      row == NewRow(r, old) IN
  /\ pc[h] = "commit" /\ pc'[h] \in {"publish", "refuse"}
  /\ r \in AllRequests /\ RoleAllows(r) /\ ValidInput(r)
  /\ row \in JobRow /\ row # NoJob
  /\ OrgOf[row.technician] = OrgOf[row.manager]
  /\ jobs'[j] = row
  /\ \A i \in Jobs : i # j => jobs'[i] = jobs[i]
  /\ audit' = [audit EXCEPT ![j] = Append(@, AuditLine(r, old))]
  /\ notifications' = [notifications EXCEPT ![j] = @ \o Notices(r, old)]
  /\ r.op = "assign" =>
       /\ jobs[j] = NoJob
       /\ row = AssignedRow(r)
       /\ OrgOf[r.quote] = OrgOf[r.actor]
  /\ r.op # "assign" =>
       /\ j = r.job /\ j \in held[h]
       /\ old = jobs[j] /\ old \in JobRow /\ old # NoJob
       /\ old.technician \in held[h]
       /\ OrgOf[old.technician] = OrgOf[old.manager]
       /\ old.status = "scheduled"
       /\ row.manager = old.manager /\ row.quote = old.quote
       /\ quotes' = quotes
  /\ r.op = "reschedule" => old.manager = r.actor /\ row.status = "scheduled"
                            /\ row.technician = r.technician
  /\ r.op = "complete" => old.technician = r.actor /\ row.status = "completed"
                          /\ row.technician = old.technician
  /\ r.op # "complete" => r.technician \in held[h]

LEMMA CommitWrites ==
  ASSUME IInv, NEW h \in Handlers, Commit(h)
  PROVE  \E j \in Jobs : Writes(h, j)
  <1> DEFINE r == request[h]
             old == current[h]
             row == NewRow(r, old)
  <1>1. PICK j \in Jobs : WrittenJob(h, j) /\ Write(r, old, j)
    BY DEF Commit
  <1>2. Leaves(h, j, row)
    BY <1>1, CommitLeaves
  <1>3. /\ pc[h] = "commit" /\ pc'[h] \in {"publish", "refuse"}
        /\ r \in AllRequests /\ RoleAllows(r) /\ ValidInput(r)
        /\ r.op # "assign" => old \in JobRow
    BY DEF IInv, Typed, TypeOK, RequestFits, Commit, Goto, Fail, JobLocking,
           Deciding
  <1>4. /\ audit' = [audit EXCEPT ![j] = Append(@, AuditLine(r, old))]
        /\ notifications' = [notifications EXCEPT ![j] = @ \o Notices(r, old)]
    BY <1>1 DEF Write
  <1>5. /\ row \in JobRow /\ row # NoJob
        /\ OrgOf[row.technician] = OrgOf[row.manager]
        /\ jobs'[j] = row
        /\ \A i \in Jobs : i # j => jobs'[i] = jobs[i]
    BY <1>2 DEF Leaves, IInv, Typed, TypeOK
  <1>6. r.op # "complete" => r.technician \in held[h]
    BY <1>3 DEF IInv, LockDiscipline, Covered, Deciding
  <1>7. CASE r.op = "assign"
    <2>1. jobs[j] = NoJob /\ row = AssignedRow(r)
      BY <1>1, <1>7 DEF WrittenJob, NewRow
    <2>2. OrgOf[r.quote] = OrgOf[r.actor]
      BY <1>3, <1>7 DEF IInv, DecisionsHold, Informed, Deciding, InOrg
    <2>3. QED
      BY <1>3, <1>4, <1>5, <1>6, <1>7, <2>1, <2>2 DEF Writes
  <1>8. CASE r.op # "assign"
    <2>1. /\ j = r.job /\ old = jobs[j] /\ old # NoJob
          /\ Owns(h) /\ ~Frozen(h)
      BY <1>1, <1>3, <1>8
      DEF WrittenJob, IInv, DecisionsHold, Informed, Deciding
    <2>2. j \in held[h] /\ old.technician \in held[h] /\ quotes' = quotes
      BY <1>2, <1>8, <2>1 DEF Leaves
    <2>3. /\ OrgOf[old.technician] = OrgOf[old.manager]
          /\ old.status = "scheduled"
      BY <1>3, <1>8, <2>1 DEF IInv, Booked, OrgsAgree, Frozen, JobRow
    <2>4. r.op = "reschedule" \/ r.op = "complete"
      BY <1>3, <1>8, RequestFields
    <2>5. CASE r.op = "reschedule"
      <3>1. row = [old EXCEPT !.technician = r.technician,
                              !.startsAt = r.startsAt]
        BY <2>5 DEF NewRow
      <3>2. /\ row.manager = old.manager /\ row.quote = old.quote
            /\ row.status = "scheduled" /\ row.technician = r.technician
            /\ old.manager = r.actor
        BY <1>3, <1>8, <2>1, <2>3, <2>5, <3>1 DEF JobRow, Owns
      <3>3. QED
        BY <1>3, <1>4, <1>5, <1>6, <1>8, <2>1, <2>2, <2>3, <2>5, <3>2
        DEF Writes
    <2>6. CASE r.op = "complete"
      <3>1. row = [old EXCEPT !.status = "completed"]
        BY <2>6 DEF NewRow
      <3>2. /\ row.manager = old.manager /\ row.quote = old.quote
            /\ row.status = "completed" /\ row.technician = old.technician
            /\ old.technician = r.actor
        BY <1>3, <1>8, <2>1, <2>6, <3>1 DEF JobRow, Owns
      <3>3. QED
        BY <1>3, <1>4, <1>5, <1>6, <1>8, <2>1, <2>2, <2>3, <2>6, <3>2
        DEF Writes
    <2>7. QED
      BY <2>4, <2>5, <2>6
  <1>9. QED
    BY <1>7, <1>8

-----------------------------------------------------------------------------
(* The audit log.                                                          *)

(* A log that begins with the assignment of a job, each line where the one *)
(* before ended and by someone entitled to it, and tells how the job's row *)
(* is now.                                                                 *)
Entitled(line, row) ==
  line.actor = IF line.action = "job_completed"
               THEN line.new.technician ELSE row.manager

Chain(log, row) ==
  /\ log = <<>> <=> row = NoJob
  /\ log # <<>> =>
       /\ log[1].previous = NoPlace
       /\ log[Len(log)].new = PlaceOf(row)
       /\ log[Len(log)].action = "job_completed" <=> row.status = "completed"
  /\ \A i \in 2..Len(log) :
       /\ log[i].previous = log[i - 1].new
       /\ log[i].action # "job_assigned"
       /\ log[i - 1].action # "job_completed"
  /\ \A i \in DOMAIN log : Entitled(log[i], row)

(* A line that starts where the row is now makes a longer chain.           *)
LEMMA ChainGrows ==
  ASSUME NEW log \in Seq(AuditRow), NEW row, NEW next, NEW line \in AuditRow,
         Chain(log, row), next # NoJob,
         line.new = PlaceOf(next),
         line.action = "job_completed" <=> next.status = "completed",
         row = NoJob => line.previous = NoPlace,
         row # NoJob => /\ row.status # "completed"
                        /\ line.previous = PlaceOf(row)
                        /\ line.action # "job_assigned"
                        /\ next.manager = row.manager,
         Entitled(line, next)
  PROVE  Chain(Append(log, line), next)
  <1> DEFINE n == Len(log)
             longer == Append(log, line)
  <1>1. /\ n \in Nat
        /\ Len(longer) = n + 1
        /\ longer[n + 1] = line
        /\ \A i \in 1..n : longer[i] = log[i]
        /\ longer # <<>>
        /\ log = <<>> <=> n = 0
    OBVIOUS
  <1> HIDE DEF longer
  <1>2. longer[1].previous = NoPlace
    <2>1. CASE n = 0
      BY <1>1, <2>1 DEF Chain
    <2>2. CASE n # 0
      <3>1. longer[1] = log[1]
        BY <1>1, <2>2
      <3>2. QED
        BY <1>1, <2>2, <3>1 DEF Chain
    <2>3. QED
      BY <2>1, <2>2
  <1>3. ASSUME NEW i \in 2..(n + 1)
        PROVE  /\ longer[i].previous = longer[i - 1].new
               /\ longer[i].action # "job_assigned"
               /\ longer[i - 1].action # "job_completed"
    <2>1. CASE i = n + 1
      <3>1. n # 0 /\ i - 1 = n /\ longer[i - 1] = log[n] /\ longer[i] = line
        BY <1>1, <2>1
      <3>2. row # NoJob /\ log # <<>>
        BY <1>1, <3>1 DEF Chain
      <3>3. /\ log[n].new = PlaceOf(row)
            /\ log[n].action # "job_completed"
        BY <3>2 DEF Chain
      <3>4. QED
        BY <3>1, <3>2, <3>3
    <2>2. CASE i # n + 1
      <3>1. /\ i \in 2..n /\ i - 1 \in 1..n /\ i \in 1..n
            /\ longer[i] = log[i] /\ longer[i - 1] = log[i - 1]
        BY <1>1, <2>2
      <3>2. QED
        BY <3>1 DEF Chain
    <2>3. QED
      BY <2>1, <2>2
  <1>4. ASSUME NEW i \in DOMAIN longer PROVE Entitled(longer[i], next)
    <2>1. i \in 1..(n + 1)
      BY <1>1, <1>4 DEF longer
    <2>2. CASE i = n + 1
      BY <1>1, <2>2
    <2>3. CASE i # n + 1
      <3>1. i \in 1..n /\ i \in DOMAIN log /\ longer[i] = log[i] /\ n # 0
        BY <1>1, <2>1, <2>3
      <3>2. row # NoJob /\ Entitled(log[i], row)
        BY <1>1, <3>1 DEF Chain
      <3>3. QED
        BY <3>1, <3>2 DEF Entitled
    <2>4. QED
      BY <2>2, <2>3
  <1>5. QED
    BY <1>1, <1>2, <1>3, <1>4 DEF Chain, longer

LEMMA ChainsAreAuditChain == AuditChain <=> \A j \in Jobs : Chain(audit[j], jobs[j])
  BY DEF AuditChain, Chain, Entitled

LEMMA CommitChains ==
  ASSUME IInv, AuditChain, NEW h \in Handlers, Commit(h)
  PROVE  AuditChain'
  <1> DEFINE r == request[h]
             old == current[h]
             row == NewRow(r, old)
             line == AuditLine(r, old)
  <1>1. PICK j \in Jobs : Writes(h, j)
    BY CommitWrites
  <1>2. /\ line \in AuditRow
        /\ r.op \in {"assign", "reschedule", "complete"}
    <2>1. /\ old \in JobRow \cup {NoJob}
          /\ r \in AllRequests /\ RoleAllows(r) /\ ValidInput(r)
          /\ r.op # "assign" => old # NoJob
      BY <1>1 DEF IInv, Typed, TypeOK, Writes
    <2>2. QED
      BY <2>1, AuditLineType, RequestFields
  <1>3. /\ line.new = PlaceOf(row)
        /\ line.action = AuditAction(r)
        /\ line.previous = IF r.op = "assign" THEN NoPlace ELSE PlaceOf(old)
    BY DEF AuditLine
  <1>4. line.action = "job_completed" <=> row.status = "completed"
    BY <1>1, <1>2, <1>3 DEF AuditAction, Writes, AssignedRow
  <1>5. /\ jobs[j] = NoJob => line.previous = NoPlace
        /\ jobs[j] # NoJob => /\ jobs[j].status # "completed"
                              /\ line.previous = PlaceOf(jobs[j])
                              /\ line.action # "job_assigned"
                              /\ row.manager = jobs[j].manager
    BY <1>1, <1>2, <1>3 DEF AuditAction, Writes
  <1>6. Entitled(line, row)
    <2>1. line.actor = r.actor
      BY DEF AuditLine
    <2>2. r.op = "assign" => row.manager = r.actor
      BY <1>1 DEF Writes, AssignedRow
    <2>3. r.op = "reschedule" => row.manager = r.actor
      BY <1>1 DEF Writes
    <2>4. r.op = "complete" => row.technician = r.actor
      BY <1>1 DEF Writes
    <2>5. line.new.technician = row.technician
      BY <1>3 DEF PlaceOf
    <2>6. line.action = "job_completed" <=> r.op = "complete"
      BY <1>2, <1>3 DEF AuditAction
    <2>7. QED
      BY <1>2, <2>1, <2>2, <2>3, <2>4, <2>5, <2>6 DEF Entitled
  <1>7. audit[j] \in Seq(AuditRow) /\ Chain(audit[j], jobs[j]) /\ row # NoJob
    BY <1>1, ChainsAreAuditChain DEF IInv, Typed, TypeOK, Writes
  <1> HIDE DEF line, row
  <1>8. Chain(Append(audit[j], line), row)
    BY <1>2, <1>3, <1>4, <1>5, <1>6, <1>7, ChainGrows
  <1>9. /\ audit'[j] = Append(audit[j], line) /\ jobs'[j] = row
        /\ \A i \in Jobs : i # j => audit'[i] = audit[i] /\ jobs'[i] = jobs[i]
    BY <1>1 DEF Writes, IInv, Typed, TypeOK, line, row
  <1>10. \A i \in Jobs : Chain(audit[i], jobs[i])'
    <2> SUFFICES ASSUME NEW i \in Jobs PROVE Chain(audit'[i], jobs'[i])
      BY DEF Chain, Entitled
    <2>1. CASE i = j
      BY <1>8, <1>9, <2>1
    <2>2. CASE i # j
      BY <1>9, <2>2, ChainsAreAuditChain
    <2>3. QED
      BY <2>1, <2>2
  <1>11. QED
    BY <1>10 DEF AuditChain, Chain, Entitled

(* The audit log of a job is an unbroken account of it from the assignment *)
(* to the row as it is now, whatever requests run concurrently             *)
(* (service.go:183, 281: previous is read under the lock; :129, 210, 295:  *)
(* written by the transaction of the change).                              *)
THEOREM AuditIsAChain == Spec => []AuditChain
  <1>1. Init => AuditChain
    BY DEF Init, AuditChain
  <1>2. IInv /\ AuditChain /\ [Next]_vars => AuditChain'
    <2> SUFFICES ASSUME IInv, AuditChain, [Next]_vars PROVE AuditChain'
      OBVIOUS
    <2>1. CASE \E h \in Handlers : Commit(h)
      BY <2>1, CommitChains
    <2>2. CASE \A h \in Handlers : ~Commit(h)
      <3>1. audit' = audit /\ jobs' = jobs
        BY <2>2, OnlyCommitWrites DEF tables
      <3>2. QED
        BY <3>1 DEF AuditChain
    <2>3. QED
      BY <2>1, <2>2
  <1>3. QED
    BY <1>1, <1>2, Invariant, PTL DEF Spec

-----------------------------------------------------------------------------
(* Refusals, and who is told of what.                                      *)

(* A job in the committed table that keeps r from its window.              *)
Clashes(j, r) ==
  /\ jobs[j] # NoJob
  /\ jobs[j].technician = r.technician
  /\ ~Disjoint(jobs[j].startsAt, r.startsAt)
  /\ r.op = "reschedule" => j # r.job

Refusals == {"forbidden", "completed_job_immutable", "job_already_completed"}

(* What the tables show of the error of h, and the lock that keeps it so:  *)
(* a window stays taken while the technician is locked, a job stays with   *)
(* another technician while it is locked; the rest nobody can undo.        *)
Answered(h) ==
  LET r == request[h]
      row == jobs[r.job] IN
  /\ pc[h] # "refuse" => reply[h] = "none"
  /\ reply[h] = "schedule_conflict"
     => r.technician \in held[h] /\ \E j \in Jobs : Clashes(j, r)
  /\ reply[h] = "quote_already_scheduled" => QuoteHasJob(r.quote)
  /\ reply[h] \in Refusals /\ RoleAllows(r)
     => /\ r.job \in Jobs /\ row # NoJob
        /\ OrgOf[row.manager] = OrgOf[r.actor]
  /\ reply[h] \in Refusals \ {"forbidden"}
     => RoleAllows(r) /\ row.status = "completed"
  /\ reply[h] = "forbidden" /\ RoleAllows(r)
     => /\ r.op = "reschedule" => row.manager # r.actor
        /\ r.op = "complete" => row.technician # r.actor /\ r.job \in held[h]

(* The events of h stay in the organization of its caller.                 *)
Addressed(h) ==
  pc[h] = "publish" =>
    \A i \in DOMAIN events[h] :
      LET e == events[h][i] IN
      OrgOf[request[h].actor] =
        IF e.type = "quotes.changed" THEN e.to ELSE OrgOf[e.to]

(* So do the notifications about a job, and there are none before it.      *)
NoticesStay ==
  \A j \in Jobs :
    /\ jobs[j] = NoJob => notifications[j] = <<>>
    /\ \A i \in DOMAIN notifications[j] :
         OrgOf[notifications[j][i].to] = OrgOf[jobs[j].manager]

-----------------------------------------------------------------------------
(* A step of another handler.                                              *)
Apart(h) ==
  /\ Aside(h)
  /\ \A o \in Handlers \ {h} : reply'[o] = reply[o] /\ events'[o] = events[o]

LEMMA AnsweredFrame ==
  ASSUME NEW h \in Handlers, NEW o \in Handlers, o # h, Apart(h),
         UNCHANGED tables, Answered(o)
  PROVE  Answered(o)'
  <1>1. /\ pc'[o] = pc[o] /\ request'[o] = request[o]
        /\ reply'[o] = reply[o] /\ held'[o] = held[o] /\ jobs' = jobs
    BY DEF Apart, Aside, tables
  <1>2. QED
    BY <1>1 DEF Answered, Clashes, QuoteHasJob

LEMMA AddressedFrame ==
  ASSUME NEW h \in Handlers, NEW o \in Handlers, o # h, Apart(h), Addressed(o)
  PROVE  Addressed(o)'
  BY DEF Apart, Aside, Addressed

(* A commit of another handler: the rows a refusal is about are locked, or *)
(* what it says of them cannot be undone.                                  *)
LEMMA AnsweredAcross ==
  ASSUME IInv, NEW h \in Handlers, NEW o \in Handlers, o # h, Apart(h),
         NEW j \in Jobs, Writes(h, j), Answered(o)
  PROVE  Answered(o)'
  <1> DEFINE r == request[o]
  <1>1. /\ pc'[o] = pc[o] /\ request'[o] = request[o]
        /\ reply'[o] = reply[o] /\ held'[o] = held[o]
        /\ held[o] \cap held[h] = {}
    BY DEF Apart, Aside, IInv, LockDiscipline, LocksExclude
  <1>2. /\ jobs'[j] # NoJob
        /\ \A i \in Jobs : i # j => jobs'[i] = jobs[i]
        /\ jobs[j] # NoJob =>
             /\ j \in held[h] /\ jobs[j].technician \in held[h]
             /\ jobs[j].status # "completed"
             /\ jobs'[j].manager = jobs[j].manager
             /\ jobs'[j].quote = jobs[j].quote
    BY DEF Writes
  <1>3. ASSUME NEW i \in Jobs, Clashes(i, r), r.technician \in held[o]
        PROVE  Clashes(i, r)'
    BY <1>1, <1>2, <1>3 DEF Clashes
  <1>4. QuoteHasJob(r.quote) => QuoteHasJob(r.quote)'
    <2> SUFFICES ASSUME NEW i \in Jobs, jobs[i] # NoJob, jobs[i].quote = r.quote
                 PROVE  QuoteHasJob(r.quote)'
      BY DEF QuoteHasJob
    <2>1. jobs'[i] # NoJob /\ jobs'[i].quote = r.quote
      BY <1>2
    <2>2. QED
      BY <1>1, <2>1 DEF QuoteHasJob
  <1>5. ASSUME r.job \in Jobs, jobs[r.job] # NoJob
        PROVE  /\ jobs'[r.job] # NoJob
               /\ jobs'[r.job].manager = jobs[r.job].manager
               /\ jobs[r.job].status = "completed"
                  => jobs'[r.job].status = "completed"
               /\ r.job \in held[o] => jobs'[r.job] = jobs[r.job]
    BY <1>1, <1>2, <1>5
  <1>6. QED
    BY <1>1, <1>3, <1>4, <1>5 DEF Answered, Refusals, Clashes

(* An error that says nothing of the tables.                               *)
LEMMA Plainly ==
  ASSUME NEW h \in Handlers,
         reply'[h] \in {"none", "invalid_input", "not_found",
                        "technician_unavailable", "internal_error"},
         pc'[h] # "refuse" => reply'[h] = "none"
  PROVE  Answered(h)'
  BY DEF Answered, Refusals

LEMMA DecideAnswers ==
  ASSUME Typed, NEW h \in Handlers, NEW verdict, NEW label,
         Decide(h, verdict, label)
  PROVE  /\ pc'[h] = IF verdict = "none" THEN label ELSE "refuse"
         /\ reply'[h] = IF verdict = "none" THEN reply[h] ELSE verdict
         /\ \A o \in Handlers : o # h => pc'[o] = pc[o] /\ reply'[o] = reply[o]
  BY DEF Decide, Goto, Fail, Typed, TypeOK

(* Acquire for a handler and a row it may lock.                            *)
LEMMA AcquireHolds ==
  ASSUME Typed, NEW h \in Handlers, NEW row, Acquire(h, row)
  PROVE  /\ held'[h] = held[h] \cup {row}
         /\ \A o \in Handlers : o # h => held'[o] = held[o]
         /\ shared' = shared
  BY DEF Acquire, Typed, TypeOK

-----------------------------------------------------------------------------
(* The statements that give a reason.                                      *)

LEMMA StartAnswers ==
  ASSUME IInv, NEW h \in Handlers, StartRequest(h), Answered(h)
  PROVE  Answered(h)' /\ Apart(h) /\ pc'[h] # "publish"
  <1>1. reply[h] = "none"
    BY DEF Answered, StartRequest
  <1>2. PICK r \in Requests :
          /\ request' = [request EXCEPT ![h] = r]
          /\ \/ ~RoleAllows(r) /\ Fail(h, "forbidden")
             \/ RoleAllows(r) /\ ~ValidInput(r) /\ Fail(h, "invalid_input")
             \/ RoleAllows(r) /\ ValidInput(r) /\ Goto(h, "begin")
    BY DEF StartRequest
  <1>3. /\ request'[h] = r
        /\ \A o \in Handlers : o # h => request'[o] = request[o]
    BY <1>2 DEF IInv, Typed, TypeOK
  <1>4. /\ \/ pc'[h] = "refuse" /\ reply'[h] = "forbidden" /\ ~RoleAllows(r)
           \/ pc'[h] = "refuse" /\ reply'[h] = "invalid_input"
           \/ pc'[h] = "begin" /\ reply'[h] = "none"
        /\ \A o \in Handlers : o # h => pc'[o] = pc[o] /\ reply'[o] = reply[o]
    BY <1>1, <1>2 DEF Fail, Goto, IInv, Typed, TypeOK
  <1>5. Apart(h)
    BY <1>3, <1>4 DEF StartRequest, Apart, Aside, locks
  <1>6. Answered(h)'
    BY <1>3, <1>4 DEF Answered, Refusals
  <1>7. QED
    BY <1>4, <1>5, <1>6

LEMMA QuoteAnswers ==
  ASSUME IInv, NEW h \in Handlers, SelectQuoteForUpdate(h), Answered(h)
  PROVE  Answered(h)' /\ Apart(h) /\ pc'[h] # "publish"
  <1> DEFINE r == request[h]
  <1>1. reply[h] = "none" /\ r.quote \in Quotes
    BY RequestFields
    DEF Answered, SelectQuoteForUpdate, IInv, Typed, RequestFits
  <1>2. /\ pc'[h] = IF QuoteVerdict(h) = "none" THEN "lockTechnician"
                    ELSE "refuse"
        /\ reply'[h] = IF QuoteVerdict(h) = "none" THEN "none"
                       ELSE QuoteVerdict(h)
        /\ \A o \in Handlers : o # h => pc'[o] = pc[o] /\ reply'[o] = reply[o]
    BY <1>1, DecideAnswers DEF IInv, SelectQuoteForUpdate
  <1>3. Apart(h)
    BY <1>2, AcquireHolds DEF IInv, SelectQuoteForUpdate, Apart, Aside
  <1>4. QuoteVerdict(h) = "quote_already_scheduled" => QuoteHasJob(r.quote)
    BY <1>1
    DEF QuoteVerdict, IInv, Typed, TypeOK, QuoteStatus, Booked,
        QuoteJobAgreement
  <1>5. QuoteVerdict(h) \in {"none", "not_found", "quote_already_scheduled"}
    BY DEF QuoteVerdict
  <1>6. UNCHANGED <<jobs, request>>
    BY DEF SelectQuoteForUpdate, tables
  <1>7. QuoteHasJob(r.quote) => QuoteHasJob(r.quote)'
    BY <1>6 DEF QuoteHasJob
  <1>8. Answered(h)'
    BY <1>2, <1>4, <1>5, <1>7 DEF Answered, Refusals
  <1>9. QED
    BY <1>2, <1>3, <1>8

LEMMA JobManagerAnswers ==
  ASSUME IInv, NEW h \in Handlers, LockJobManager(h), Answered(h)
  PROVE  Answered(h)' /\ Apart(h) /\ pc'[h] # "publish"
  <1> DEFINE r == request[h]
             row == jobs[r.job]
             label == IF r.op = "reschedule" THEN "lockTechnician" ELSE "commit"
  <1>1. /\ reply[h] = "none" /\ pc[h] = "lockJobManager"
        /\ r.op \in {"reschedule", "complete"} /\ r.job \in Jobs
    BY RequestFields
    DEF Answered, LockJobManager, IInv, Typed, RequestFits, JobLocking
  <1>2. /\ current[h] = row /\ row # NoJob
        /\ OrgOf[row.manager] = OrgOf[r.actor]
        /\ r.job \in held[h]
    BY <1>1
    DEF IInv, DecisionsHold, LockDiscipline, Informed, Covered, JobLocking,
        InOrg
  <1>3. /\ pc'[h] = IF JobVerdict(h) = "none" THEN label ELSE "refuse"
        /\ reply'[h] = IF JobVerdict(h) = "none" THEN "none" ELSE JobVerdict(h)
        /\ \A o \in Handlers : o # h => pc'[o] = pc[o] /\ reply'[o] = reply[o]
    BY <1>1, DecideAnswers DEF IInv, LockJobManager
  <1>4. /\ Apart(h)
        /\ held[h] \subseteq held'[h]
    BY <1>3, AcquireHolds DEF IInv, LockJobManager, Apart, Aside
  <1>5. UNCHANGED <<jobs, request>>
    BY DEF LockJobManager, tables
  <1>6. Answered(h)'
    <2>1. CASE JobVerdict(h) = "none"
      BY <1>3, <2>1, Plainly
    <2>2. CASE JobVerdict(h) # "none"
      <3>1. /\ JobVerdict(h) \in Refusals
            /\ JobVerdict(h) = "forbidden" => ~Owns(h)
            /\ JobVerdict(h) # "forbidden" => Frozen(h)
        BY <2>2 DEF JobVerdict, Refusals
      <3>2. /\ ~Owns(h) =>
                 /\ r.op = "reschedule" => row.manager # r.actor
                 /\ r.op = "complete" => row.technician # r.actor
            /\ Frozen(h) => row.status = "completed"
        BY <1>1, <1>2 DEF Owns, Frozen
      <3>3. RoleAllows(r)
        BY <1>1 DEF IInv, Typed, RequestFits
      <3>4. pc'[h] = "refuse" /\ reply'[h] = JobVerdict(h)
        BY <1>3, <2>2
      <3>5. QED
        BY <1>1, <1>2, <1>4, <1>5, <3>1, <3>2, <3>3, <3>4
        DEF Answered, Refusals
    <2>3. QED
      BY <2>1, <2>2
  <1>7. QED
    BY <1>3, <1>4, <1>6

LEMMA OverlapAnswers ==
  ASSUME IInv, NEW h \in Handlers, EnsureNoOverlap(h), Answered(h)
  PROVE  Answered(h)' /\ Apart(h) /\ pc'[h] # "publish"
  <1> DEFINE r == request[h]
             label == IF r.op = "assign" THEN "insert" ELSE "commit"
             verdict == IF Conflicts(h) THEN "schedule_conflict" ELSE "none"
  <1>1. /\ reply[h] = "none" /\ pc[h] = "overlap"
        /\ r.op # "complete" /\ r.startsAt \in Int
    BY RequestFields, TimeAssumption
    DEF Answered, EnsureNoOverlap, IInv, Typed, RequestFits
  <1>2. ViewCurrent(h) /\ r.technician \in held[h]
    BY <1>1
    DEF IInv, DecisionsHold, LockDiscipline, Informed, Covered, Deciding
  <1>3. /\ pc'[h] = IF verdict = "none" THEN label ELSE "refuse"
        /\ reply'[h] = IF verdict = "none" THEN "none" ELSE verdict
        /\ \A o \in Handlers : o # h => pc'[o] = pc[o] /\ reply'[o] = reply[o]
    BY <1>1, DecideAnswers DEF IInv, EnsureNoOverlap
  <1>4. \A o \in Handlers : o # h => view'[o] = view[o]
    BY DEF EnsureNoOverlap, IInv, Typed, TypeOK
  <1>5. Apart(h)
    BY <1>3, <1>4 DEF EnsureNoOverlap, Apart, Aside, locks
  <1>6. UNCHANGED <<jobs, request, held>>
    BY DEF EnsureNoOverlap, tables, locks
  <1>7. Conflicts(h) => \E j \in Jobs : Clashes(j, r)
    <2> SUFFICES ASSUME Conflicts(h) PROVE \E j \in Jobs : Clashes(j, r)
      OBVIOUS
    <2>1. PICK j \in Jobs :
            /\ ReadView(h)[j] # NoJob
            /\ Blocks(ReadView(h)[j], r)
            /\ r.op = "reschedule" => j # r.job
      BY DEF Conflicts
    <2>2. jobs[j] = ReadView(h)[j]
      BY <1>2, <2>1 DEF ViewCurrent, WorksFor, Blocks
    <2>3. jobs[j].startsAt \in Int
      BY <2>1, <2>2, TimeAssumption DEF IInv, Typed, TypeOK, JobRow
    <2>4. ~Disjoint(jobs[j].startsAt, r.startsAt)
      BY <1>1, <2>1, <2>2, <2>3, TimeAssumption
      DEF Blocks, Overlaps, EndsAt, Disjoint
    <2>5. QED
      BY <2>1, <2>2, <2>4 DEF Clashes, Blocks
  <1>8. Answered(h)'
    <2>1. CASE Conflicts(h)
      <3>1. PICK j \in Jobs : Clashes(j, r)
        BY <1>7, <2>1
      <3>2. Clashes(j, r)'
        BY <1>6, <3>1 DEF Clashes
      <3>3. pc'[h] = "refuse" /\ reply'[h] = "schedule_conflict"
        BY <1>3, <2>1
      <3>4. QED
        BY <1>2, <1>6, <3>2, <3>3 DEF Answered, Refusals
    <2>2. CASE ~Conflicts(h)
      BY <1>3, <2>2, Plainly
    <2>3. QED
      BY <2>1, <2>2
  <1>9. QED
    BY <1>3, <1>5, <1>8

LEMMA InsertAnswers ==
  ASSUME IInv, NEW h \in Handlers, InsertJob(h), Answered(h)
  PROVE  Answered(h)' /\ Apart(h) /\ pc'[h] # "publish"
  <1> DEFINE r == request[h]
             verdict == IF QuoteHasJob(r.quote) THEN "quote_already_scheduled"
                        ELSE "none"
  <1>1. reply[h] = "none"
    BY DEF Answered, InsertJob
  <1>2. /\ pc'[h] = IF verdict = "none" THEN "commit" ELSE "refuse"
        /\ reply'[h] = IF verdict = "none" THEN "none" ELSE verdict
        /\ \A o \in Handlers : o # h => pc'[o] = pc[o] /\ reply'[o] = reply[o]
    BY <1>1, DecideAnswers DEF IInv, InsertJob
  <1>3. \A o \in Handlers : o # h => shared'[o] = shared[o]
    BY DEF InsertJob, IInv, Typed, TypeOK
  <1>4. Apart(h)
    BY <1>2, <1>3 DEF InsertJob, Apart, Aside
  <1>5. UNCHANGED <<jobs, request>>
    BY DEF InsertJob, tables
  <1>6. QuoteHasJob(r.quote) => QuoteHasJob(r.quote)'
    BY <1>5 DEF QuoteHasJob
  <1>7. Answered(h)'
    BY <1>2, <1>6 DEF Answered, Refusals
  <1>8. QED
    BY <1>2, <1>4, <1>7

(* All the others.                                                         *)
LEMMA OthersAnswer ==
  ASSUME IInv, NEW h \in Handlers, Answered(h),
         \/ BeginTx(h) \/ SelectJobForUpdate(h) \/ LockJobQuote(h)
         \/ LockJobTechnician(h) \/ SelectTechnicianForUpdate(h)
         \/ EnsureTechnicianAvailable(h) \/ StatementFails(h)
         \/ DeadlockVictim(h) \/ Publish(h) \/ Refuse(h)
  PROVE  Answered(h)' /\ Apart(h) /\ pc'[h] # "publish"
  <1>1. Typed
    BY DEF IInv
  <1>2. CASE BeginTx(h)
    <2>1. reply[h] = "none"
      BY <1>2 DEF Answered, BeginTx
    <2>2. /\ reply' = reply /\ pc'[h] # "publish"
          /\ \A o \in Handlers : o # h => pc'[o] = pc[o]
      BY <1>1, <1>2 DEF BeginTx, Goto, Typed, TypeOK
    <2>3. QED
      BY <1>2, <2>1, <2>2, Plainly DEF BeginTx, Apart, Aside, locks
  <1>3. CASE SelectJobForUpdate(h)
    <2>1. reply[h] = "none"
      BY <1>3 DEF Answered, SelectJobForUpdate
    <2>2. /\ \/ pc'[h] = "refuse" /\ reply'[h] = "not_found"
             \/ pc'[h] = "lockJobQuote" /\ reply'[h] = "none"
          /\ \A o \in Handlers : o # h =>
               pc'[o] = pc[o] /\ reply'[o] = reply[o] /\ current'[o] = current[o]
      BY <1>1, <1>3, <2>1 DEF SelectJobForUpdate, Fail, Goto, Typed, TypeOK
    <2>3. \A o \in Handlers : o # h => held'[o] = held[o] /\ shared'[o] = shared[o]
      BY <1>1, <1>3, AcquireHolds DEF SelectJobForUpdate, locks
    <2>4. QED
      BY <1>3, <2>2, <2>3, Plainly DEF SelectJobForUpdate, Apart, Aside
  <1>4. CASE LockJobQuote(h) \/ LockJobTechnician(h)
    <2>1. reply[h] = "none"
      BY <1>4 DEF Answered, LockJobQuote, LockJobTechnician
    <2>2. /\ reply' = reply /\ pc'[h] # "publish"
          /\ \A o \in Handlers : o # h => pc'[o] = pc[o]
      BY <1>1, <1>4 DEF LockJobQuote, LockJobTechnician, Goto, Typed, TypeOK
    <2>3. \A o \in Handlers : o # h => held'[o] = held[o] /\ shared'[o] = shared[o]
      BY <1>1, <1>4, AcquireHolds DEF LockJobQuote, LockJobTechnician
    <2>4. QED
      BY <1>4, <2>1, <2>2, <2>3, Plainly
      DEF LockJobQuote, LockJobTechnician, Apart, Aside
  <1>5. CASE SelectTechnicianForUpdate(h) \/ EnsureTechnicianAvailable(h)
    <2>1. reply[h] = "none"
      BY <1>5 DEF Answered, SelectTechnicianForUpdate, EnsureTechnicianAvailable
    <2>2. /\ \/ pc'[h] = "refuse"
                /\ reply'[h] \in {"not_found", "technician_unavailable"}
             \/ pc'[h] \in {"availability", "overlap"} /\ reply'[h] = "none"
          /\ \A o \in Handlers : o # h => pc'[o] = pc[o] /\ reply'[o] = reply[o]
      BY <1>1, <1>5, <2>1
      DEF SelectTechnicianForUpdate, EnsureTechnicianAvailable, Decide, Goto,
          Fail, Typed, TypeOK
    <2>3. \A o \in Handlers : o # h => held'[o] = held[o] /\ shared'[o] = shared[o]
      BY <1>1, <1>5, AcquireHolds
      DEF SelectTechnicianForUpdate, EnsureTechnicianAvailable, locks
    <2>4. \A o \in Handlers : o # h => view'[o] = view[o]
      BY <1>1, <1>5
      DEF SelectTechnicianForUpdate, EnsureTechnicianAvailable, Typed, TypeOK
    <2>5. QED
      BY <1>5, <2>2, <2>3, <2>4, Plainly
      DEF SelectTechnicianForUpdate, EnsureTechnicianAvailable, Apart, Aside
  <1>6. CASE StatementFails(h) \/ DeadlockVictim(h)
    <2>1. /\ pc'[h] = "refuse" /\ reply'[h] = "internal_error"
          /\ \A o \in Handlers : o # h => pc'[o] = pc[o] /\ reply'[o] = reply[o]
      BY <1>1, <1>6 DEF StatementFails, DeadlockVictim, Fail, Typed, TypeOK
    <2>2. \A o \in Handlers : o # h => held'[o] = held[o] /\ shared'[o] = shared[o]
      BY <1>1, <1>6
      DEF StatementFails, DeadlockVictim, Unlock, locks, Typed, TypeOK
    <2>3. QED
      BY <1>6, <2>1, <2>2, Plainly
      DEF StatementFails, DeadlockVictim, Apart, Aside
  <1>7. CASE Publish(h) \/ Refuse(h)
    <2>1. /\ pc'[h] = "idle" /\ reply'[h] = "none"
          /\ \A o \in Handlers : o # h =>
               /\ pc'[o] = pc[o] /\ reply'[o] = reply[o]
               /\ request'[o] = request[o] /\ current'[o] = current[o]
               /\ view'[o] = view[o] /\ events'[o] = events[o]
      BY <1>1, <1>7 DEF Publish, Refuse, Forget, Typed, TypeOK
    <2>2. \A o \in Handlers : o # h => held'[o] = held[o] /\ shared'[o] = shared[o]
      BY <1>1, <1>7
      DEF Publish, Refuse, EndTransaction, Unlock, locks, Typed, TypeOK
    <2>3. QED
      BY <2>1, <2>2, Plainly DEF Apart, Aside
  <1>8. QED
    BY <1>2, <1>3, <1>4, <1>5, <1>6, <1>7

-----------------------------------------------------------------------------
(* A commit tells nobody outside the organization of the job.              *)

LEMMA NoticesInOrg ==
  ASSUME IInv, NEW h \in Handlers, NEW j \in Jobs, Writes(h, j),
         NEW i \in DOMAIN Notices(request[h], current[h])
  PROVE  OrgOf[Notices(request[h], current[h])[i].to] = OrgOf[jobs'[j].manager]
  <1> DEFINE r == request[h]
             old == current[h]
             row == NewRow(r, old)
             told == Notices(r, old)
  <1>1. /\ jobs'[j] = row
        /\ OrgOf[row.technician] = OrgOf[row.manager]
        /\ r.op # "assign" =>
             /\ OrgOf[old.technician] = OrgOf[old.manager]
             /\ row.manager = old.manager
        /\ r.op \in {"assign", "reschedule", "complete"}
    BY RequestFields DEF Writes
  <1>2. CASE r.op = "assign"
    <2>1. row.technician = r.technician
      BY <1>2 DEF Writes, AssignedRow
    <2>2. told[i].to = r.technician
      BY <1>2 DEF Notices, Notice
    <2>3. QED
      BY <1>1, <2>1, <2>2
  <1>3. CASE r.op = "reschedule"
    <2>1. row.technician = r.technician
      BY <1>3 DEF Writes
    <2>2. told[i].to \in {r.technician, old.technician}
      BY <1>3 DEF Notices, Notice
    <2>3. QED
      BY <1>1, <1>3, <2>1, <2>2
  <1>4. CASE r.op = "complete"
    <2>1. told[i].to = old.manager
      BY <1>4 DEF Notices, Notice
    <2>2. QED
      BY <1>1, <1>4, <2>1
  <1>5. QED
    BY <1>1, <1>2, <1>3, <1>4

LEMMA CommitNotices ==
  ASSUME IInv, NoticesStay, NEW h \in Handlers, NEW j \in Jobs, Writes(h, j)
  PROVE  NoticesStay'
  <1> DEFINE told == Notices(request[h], current[h])
             list == notifications[j]
  <1>1. list \in Seq(NotificationRow) /\ told \in Seq(NotificationRow)
    BY NoticesType DEF IInv, Typed, TypeOK, Writes
  <1>2. notifications'[j] = list \o told
    BY DEF Writes, IInv, Typed, TypeOK
  <1>3. /\ jobs'[j] # NoJob
        /\ \A i \in Jobs : i # j => jobs'[i] = jobs[i]
                                    /\ notifications'[i] = notifications[i]
        /\ jobs[j] # NoJob => jobs'[j].manager = jobs[j].manager
    BY DEF Writes, IInv, Typed, TypeOK
  <1>4. \A i \in DOMAIN told : OrgOf[told[i].to] = OrgOf[jobs'[j].manager]
    BY NoticesInOrg
  <1> HIDE DEF told
  <1>5. ASSUME NEW i \in DOMAIN (list \o told)
        PROVE  OrgOf[(list \o told)[i].to] = OrgOf[jobs'[j].manager]
    <2>1. CASE i \in 1..Len(list)
      <3>1. (list \o told)[i] = list[i] /\ i \in DOMAIN list /\ list # <<>>
        BY <1>1, <2>1
      <3>2. jobs[j] # NoJob
        BY <3>1 DEF NoticesStay
      <3>3. QED
        BY <1>3, <3>1, <3>2 DEF NoticesStay
    <2>2. CASE i \notin 1..Len(list)
      <3>1. (list \o told)[i] = told[i - Len(list)] /\ i - Len(list) \in DOMAIN told
        BY <1>1, <2>2
      <3>2. QED
        BY <1>4, <3>1
    <2>3. QED
      BY <2>1, <2>2
  <1>6. ASSUME NEW k \in Jobs
        PROVE  /\ jobs'[k] = NoJob => notifications'[k] = <<>>
               /\ \A i \in DOMAIN notifications'[k] :
                    OrgOf[notifications'[k][i].to] = OrgOf[jobs'[k].manager]
    <2>1. CASE k = j
      BY <1>2, <1>3, <1>5, <2>1
    <2>2. CASE k # j
      BY <1>3, <2>2 DEF NoticesStay
    <2>3. QED
      BY <2>1, <2>2
  <1>7. QED
    BY <1>6 DEF NoticesStay

LEMMA EventsInOrg ==
  ASSUME IInv, NEW h \in Handlers, NEW j \in Jobs, Writes(h, j),
         NEW i \in DOMAIN Events(request[h], current[h])
  PROVE  LET e == Events(request[h], current[h])[i] IN
         OrgOf[request[h].actor] =
           IF e.type = "quotes.changed" THEN e.to ELSE OrgOf[e.to]
  <1> DEFINE r == request[h]
             old == current[h]
             row == NewRow(r, old)
             e == Events(r, old)[i]
  <1>1. r.op \in {"assign", "reschedule", "complete"}
    BY RequestFields DEF Writes
  <1>2. CASE r.op = "assign"
    <2>1. OrgOf[r.technician] = OrgOf[r.actor]
      BY <1>2 DEF Writes, AssignedRow
    <2>2. \/ e.type = "quotes.changed" /\ e.to = OrgOf[r.actor]
          \/ e.type # "quotes.changed" /\ e.to \in {r.technician, r.actor}
      BY <1>2 DEF Events, Told, Signal
    <2>3. QED
      BY <2>1, <2>2
  <1>3. CASE r.op = "reschedule"
    <2>1. /\ OrgOf[r.technician] = OrgOf[r.actor]
          /\ OrgOf[old.technician] = OrgOf[r.actor]
      BY <1>3 DEF Writes
    <2>2. /\ e.type # "quotes.changed"
          /\ e.to \in {r.technician, old.technician, r.actor}
      BY <1>3 DEF Events, Told, Signal
    <2>3. QED
      BY <2>1, <2>2
  <1>4. CASE r.op = "complete"
    <2>1. OrgOf[old.manager] = OrgOf[r.actor]
      BY <1>4 DEF Writes
    <2>2. e.type # "quotes.changed" /\ e.to \in {old.manager, r.actor}
      BY <1>4 DEF Events, Told, Signal
    <2>3. QED
      BY <2>1, <2>2
  <1>5. QED
    BY <1>1, <1>2, <1>3, <1>4

-----------------------------------------------------------------------------
(* The invariant of refusals and messages.                                 *)
Messages ==
  /\ \A h \in Handlers : Answered(h) /\ Addressed(h)
  /\ NoticesStay

LEMMA CommitMessages ==
  ASSUME IInv, Messages, NEW h \in Handlers, Commit(h)
  PROVE  Messages'
  <1>1. PICK j \in Jobs : Writes(h, j)
    BY CommitWrites
  <1>2. reply[h] = "none"
    BY DEF Messages, Answered, Commit
  <1>3. /\ \/ /\ pc'[h] = "publish" /\ reply'[h] = "none"
              /\ events'[h] = Events(request[h], current[h])
           \/ pc'[h] = "refuse" /\ reply'[h] = "internal_error"
        /\ \A o \in Handlers : o # h =>
             /\ pc'[o] = pc[o] /\ reply'[o] = reply[o]
             /\ events'[o] = events[o]
             /\ held'[o] = held[o] /\ shared'[o] = shared[o]
    BY <1>2
    DEF Commit, Goto, Fail, EndTransaction, Unlock, IInv, Typed, TypeOK
  <1>4. request' = request /\ Apart(h)
    BY <1>3 DEF Commit, Apart, Aside
  <1>5. \A o \in Handlers : Answered(o)'
    BY <1>1, <1>3, <1>4, Plainly, AnsweredAcross DEF Messages
  <1>6. Addressed(h)'
    BY <1>1, <1>3, <1>4, EventsInOrg DEF Addressed
  <1>7. \A o \in Handlers : Addressed(o)'
    BY <1>4, <1>6, AddressedFrame DEF Messages
  <1>8. QED
    BY <1>1, <1>5, <1>7, CommitNotices DEF Messages

LEMMA MessagesStep == IInv /\ Messages /\ [Next]_vars => Messages'
  <1> SUFFICES ASSUME IInv, Messages, [Next]_vars PROVE Messages'
    OBVIOUS
  <1>1. CASE \E h \in Handlers : Commit(h)
    BY <1>1, CommitMessages
  <1>2. CASE \A h \in Handlers : ~Commit(h)
    <2>1. UNCHANGED tables
      BY <1>2, OnlyCommitWrites
    <2>2. NoticesStay'
      BY <2>1 DEF Messages, NoticesStay, tables
    <2>3. ASSUME NEW h \in Handlers, Answered(h)', Apart(h), pc'[h] # "publish"
          PROVE  Messages'
      <3>1. \A o \in Handlers : Answered(o)'
        BY <2>1, <2>3, AnsweredFrame DEF Messages
      <3>2. \A o \in Handlers : Addressed(o)'
        <4>1. Addressed(h)'
          BY <2>3 DEF Addressed
        <4>2. QED
          BY <2>3, <4>1, AddressedFrame DEF Messages
      <3>3. QED
        BY <2>2, <3>1, <3>2 DEF Messages
    <2>4. CASE \E h \in Handlers :
                 \/ StartRequest(h) \/ Serve(h) \/ StatementFails(h)
                 \/ DeadlockVictim(h)
      <3>1. PICK h \in Handlers :
              \/ StartRequest(h) \/ Serve(h) \/ StatementFails(h)
              \/ DeadlockVictim(h)
        BY <2>4
      <3>2. Answered(h)' /\ Apart(h) /\ pc'[h] # "publish"
        BY <1>2, <3>1, StartAnswers, QuoteAnswers, JobManagerAnswers,
           OverlapAnswers, InsertAnswers, OthersAnswer
        DEF Messages, Serve
      <3>3. QED
        BY <2>3, <3>2
    <2>5. CASE Crash
      <3>1. \A h \in Handlers : pc'[h] = "idle" /\ reply'[h] = "none"
        BY <2>5 DEF Crash
      <3>2. \A h \in Handlers : Answered(h)' /\ Addressed(h)'
        BY <3>1, Plainly DEF Addressed
      <3>3. QED
        BY <2>2, <3>2 DEF Messages
    <2>6. CASE UNCHANGED vars
      <3>1. UNCHANGED <<jobs, pc, request, held, reply, events>>
        BY <2>6 DEF vars, tables, locks
      <3>2. \A h \in Handlers : Answered(h)' /\ Addressed(h)'
        BY <3>1
        DEF Messages, Answered, Addressed, Clashes, QuoteHasJob
      <3>3. QED
        BY <2>2, <3>2 DEF Messages
    <2>7. QED
      BY <2>4, <2>5, <2>6 DEF Next, Quiescent
  <1>3. QED
    BY <1>1, <1>2

LEMMA MessagesHold == Spec => [](IInv /\ Messages)
  <1>1. Init => Messages
    BY DEF Init, Messages, Answered, Refusals, Addressed, NoticesStay
  <1>2. QED
    BY <1>1, Invariant, MessagesStep, PTL DEF Spec

(* A refused caller is told the truth: as long as the refused transaction  *)
(* has its locks, the committed rows show the reason                       *)
(* (service.go:93-110, 183-202, 281-290).                                  *)
THEOREM RefusalsTellTheTruth == Spec => []RefusalsAreTrue
  <1>1. Messages => RefusalsAreTrue
    BY DEF Messages, RefusalsAreTrue, Answered, Refusals, Clashes
  <1>2. QED
    BY <1>1, MessagesHold, PTL

(* Nothing of one organization reaches another: not a row of a job, not a  *)
(* notification, not an event, not the reason of a refusal                 *)
(* (service.go:344, 363, 391).                                             *)
THEOREM TenantsAreIsolated == Spec => []TenantIsolation
  <1>1. IInv /\ Messages => TenantIsolation
    <2> SUFFICES ASSUME IInv, Messages PROVE TenantIsolation
      OBVIOUS
    <2>1. OrgsAgree
      BY DEF IInv, Booked
    <2>2. QED
      BY <2>1
      DEF Messages, TenantIsolation, NoticesStay, Addressed, Answered, Refusals
  <1>2. QED
    BY <1>1, MessagesHold, PTL

-----------------------------------------------------------------------------
(* Nobody is left in the dark.                                             *)

(* The lists a commit changes are those of its actor and of the users it   *)
(* notifies: who has the job, and who had it.                              *)
LEMMA AffectedAreNoticed ==
  ASSUME IInv, NEW h \in Handlers, NEW j \in Jobs, Writes(h, j),
         NEW user \in Users, JobsOf(user)' # JobsOf(user)
  PROVE  \/ user = request[h].actor
         \/ \E i \in DOMAIN Notices(request[h], current[h]) :
              Notices(request[h], current[h])[i].to = user
  <1> DEFINE r == request[h]
             old == current[h]
             row == NewRow(r, old)
             told == Notices(r, old)
  <1>1. /\ jobs'[j] = row /\ row # NoJob
        /\ \A i \in Jobs : i # j => jobs'[i] = jobs[i]
        /\ r.op \in {"assign", "reschedule", "complete"}
    BY RequestFields DEF Writes
  <1>2. \/ user \in {row.manager, row.technician}
        \/ jobs[j] # NoJob /\ user \in {jobs[j].manager, jobs[j].technician}
    <2> SUFFICES ASSUME user \notin {row.manager, row.technician},
                        jobs[j] # NoJob =>
                          user \notin {jobs[j].manager, jobs[j].technician}
                 PROVE  JobsOf(user)' = JobsOf(user)
      OBVIOUS
    <2>1. {k \in Jobs : jobs'[k] # NoJob
             /\ user \in {jobs'[k].manager, jobs'[k].technician}}
          = {k \in Jobs : jobs[k] # NoJob
               /\ user \in {jobs[k].manager, jobs[k].technician}}
      BY <1>1
    <2>2. \A k \in Jobs : jobs'[k] # NoJob
             /\ user \in {jobs'[k].manager, jobs'[k].technician}
             => jobs'[k] = jobs[k]
      BY <1>1
    <2>3. QED
      BY <2>1, <2>2 DEF JobsOf
  <1>3. CASE r.op = "assign"
    <2>1. user \in {r.actor, r.technician}
      BY <1>2, <1>3 DEF Writes, AssignedRow
    <2>2. 1 \in DOMAIN told /\ told[1].to = r.technician
      BY <1>3 DEF Notices, Notice
    <2>3. QED
      BY <2>1, <2>2
  <1>4. CASE r.op = "reschedule"
    <2>1. user \in {r.actor, r.technician, old.technician}
      BY <1>2, <1>4 DEF Writes
    <2>2. 1 \in DOMAIN told /\ told[1].to = r.technician
      BY <1>4 DEF Notices, Notice
    <2>3. old.technician # r.technician
          => 2 \in DOMAIN told /\ told[2].to = old.technician
      BY <1>4 DEF Notices, Notice, Moves
    <2>4. QED
      BY <2>1, <2>2, <2>3
  <1>5. CASE r.op = "complete"
    <2>1. user \in {r.actor, old.manager}
      BY <1>2, <1>5 DEF Writes
    <2>2. 1 \in DOMAIN told /\ told[1].to = old.manager
      BY <1>5 DEF Notices, Notice
    <2>3. QED
      BY <2>1, <2>2
  <1>6. QED
    BY <1>1, <1>3, <1>4, <1>5

(* A notice is a new line in the inbox of the one it is for, and of nobody *)
(* else.                                                                   *)
LEMMA NoticesReachInboxes ==
  ASSUME IInv, NEW h \in Handlers, NEW j \in Jobs, Writes(h, j),
         NEW user \in Users
  PROVE  Inbox(user)' # Inbox(user)
         <=> \E i \in DOMAIN Notices(request[h], current[h]) :
               Notices(request[h], current[h])[i].to = user
  <1> DEFINE told == Notices(request[h], current[h])
             list == notifications[j]
             n == Len(list)
             longer == list \o told
  <1>1. list \in Seq(NotificationRow) /\ told \in Seq(NotificationRow)
    BY NoticesType DEF IInv, Typed, TypeOK, Writes
  <1>2. /\ notifications'[j] = longer
        /\ \A i \in Jobs : i # j => notifications'[i] = notifications[i]
    BY DEF Writes, IInv, Typed, TypeOK
  <1> HIDE DEF told
  <1>3. /\ n \in Nat
        /\ DOMAIN list = 1..n
        /\ DOMAIN longer = 1..(n + Len(told))
        /\ \A i \in 1..n : longer[i] = list[i]
        /\ DOMAIN told = 1..Len(told) /\ Len(told) \in Nat
        /\ \A i \in 1..Len(told) : longer[n + i] = told[i]
    BY <1>1
  <1> HIDE DEF longer, n
  <1>4. ASSUME NEW i \in DOMAIN told, told[i].to = user
        PROVE  Inbox(user)' # Inbox(user)
    <2>1. n + i \in DOMAIN longer /\ n + i \notin DOMAIN list
          /\ longer[n + i].to = user
      BY <1>3, <1>4
    <2>2. n + i \in Inbox(user)'[j] /\ n + i \notin Inbox(user)[j]
      BY <1>2, <2>1 DEF Inbox
    <2>3. QED
      BY <2>2
  <1>5. ASSUME \A i \in DOMAIN told : told[i].to # user
        PROVE  Inbox(user)' = Inbox(user)
    <2>1. \A i \in DOMAIN longer : longer[i].to = user => i \in DOMAIN list
      <3> SUFFICES ASSUME NEW i \in DOMAIN longer, i \notin DOMAIN list
                   PROVE  longer[i].to # user
        OBVIOUS
      <3>1. i - n \in DOMAIN told /\ n + (i - n) = i
        BY <1>3
      <3>2. QED
        BY <1>3, <1>5, <3>1
    <2>2. {i \in DOMAIN longer : longer[i].to = user}
          = {i \in DOMAIN list : list[i].to = user}
      BY <1>3, <2>1
    <2>3. \A k \in Jobs :
            {i \in DOMAIN notifications'[k] : notifications'[k][i].to = user}
            = {i \in DOMAIN notifications[k] : notifications[k][i].to = user}
      BY <1>2, <2>2
    <2>4. QED
      BY <2>3 DEF Inbox
  <1>6. QED
    BY <1>4, <1>5 DEF told

LEMMA CommitNotifies ==
  ASSUME IInv, NEW h \in Handlers, Commit(h), NEW user \in Users,
         JobsOf(user)' # JobsOf(user), request[h].actor # user
  PROVE  Inbox(user)' # Inbox(user)
  BY CommitWrites, AffectedAreNoticed, NoticesReachInboxes

LEMMA TablesStay ==
  ASSUME UNCHANGED tables
  PROVE  /\ \A user \in Users : /\ JobsOf(user)' = JobsOf(user)
                                /\ Inbox(user)' = Inbox(user)
         /\ \A org \in Orgs : QuotesOf(org)' = QuotesOf(org)
  BY DEF tables, JobsOf, Inbox, QuotesOf

(* Whose list of jobs changes, and did not ask for it, has a new           *)
(* notification, written by the same transaction (service.go:141, 227-238, *)
(* 311).                                                                   *)
THEOREM AffectedAreNotified == Spec => AffectedUsersAreNotified
  <1>1. IInv /\ [Next]_vars => [AffectedNotified]_vars
    <2> SUFFICES ASSUME IInv, [Next]_vars, NEW user \in Users,
                        JobsOf(user)' # JobsOf(user)
                 PROVE  \/ Inbox(user)' # Inbox(user)
                        \/ \E h \in Handlers :
                             /\ pc[h] = "commit" /\ pc'[h] # "commit"
                             /\ request[h].actor = user
      BY DEF AffectedNotified
    <2>1. PICK h \in Handlers : Commit(h)
      BY OnlyCommitWrites, TablesStay
    <2>2. pc[h] = "commit" /\ pc'[h] # "commit"
      BY <2>1, CommitWrites DEF Writes
    <2>3. QED
      BY <2>1, <2>2, CommitNotifies
  <1>2. QED
    BY <1>1, Invariant, PTL DEF Spec, AffectedUsersAreNotified

(* The events name every list the commit has changed.                      *)
LEMMA EventsTell ==
  ASSUME IInv, NEW h \in Handlers, NEW j \in Jobs, Writes(h, j)
  PROVE  LET r == request[h]
             old == current[h]
             list == Events(r, old)
             told(type, to) == \E i \in DOMAIN list : list[i] = Signal(type, to)
         IN /\ told("jobs.changed", r.actor)
            /\ r.op = "assign" => told("quotes.changed", OrgOf[r.actor])
            /\ \A i \in DOMAIN Notices(r, old) :
                 /\ told("jobs.changed", Notices(r, old)[i].to)
                 /\ told("notification.created", Notices(r, old)[i].to)
  <1> DEFINE r == request[h]
             old == current[h]
             list == Events(r, old)
             told(type, to) == \E i \in DOMAIN list : list[i] = Signal(type, to)
  <1>1. r.op \in {"assign", "reschedule", "complete"}
    BY RequestFields DEF Writes
  <1>2. CASE r.op = "assign"
    <2>1. /\ 1..4 \subseteq DOMAIN list
          /\ list[1] = Signal("notification.created", r.technician)
          /\ list[2] = Signal("jobs.changed", r.technician)
          /\ list[3] = Signal("quotes.changed", OrgOf[r.actor])
          /\ list[4] = Signal("jobs.changed", r.actor)
      BY <1>2 DEF Events, Told
    <2>2. \A i \in DOMAIN Notices(r, old) : Notices(r, old)[i].to = r.technician
      BY <1>2 DEF Notices, Notice
    <2> HIDE DEF list
    <2>3. /\ told("notification.created", r.technician)
          /\ told("jobs.changed", r.technician)
          /\ told("quotes.changed", OrgOf[r.actor])
          /\ told("jobs.changed", r.actor)
      BY <2>1
    <2>4. QED
      BY <2>2, <2>3 DEF list
  <1>3. CASE r.op = "reschedule"
    <2>1. CASE Moves(r, old)
      <3>1. /\ 1..5 \subseteq DOMAIN list
            /\ list[1] = Signal("notification.created", r.technician)
            /\ list[2] = Signal("jobs.changed", r.technician)
            /\ list[3] = Signal("notification.created", old.technician)
            /\ list[4] = Signal("jobs.changed", old.technician)
            /\ list[5] = Signal("jobs.changed", r.actor)
        BY <1>3, <2>1 DEF Events, Told
      <3>2. \A i \in DOMAIN Notices(r, old) :
              Notices(r, old)[i].to \in {r.technician, old.technician}
        BY <1>3 DEF Notices, Notice
      <3> HIDE DEF list
      <3>3. /\ told("notification.created", r.technician)
            /\ told("jobs.changed", r.technician)
            /\ told("notification.created", old.technician)
            /\ told("jobs.changed", old.technician)
            /\ told("jobs.changed", r.actor)
        BY <3>1
      <3>4. QED
        BY <1>3, <3>2, <3>3 DEF list
    <2>2. CASE ~Moves(r, old)
      <3>1. /\ 1..3 \subseteq DOMAIN list
            /\ list[1] = Signal("notification.created", r.technician)
            /\ list[2] = Signal("jobs.changed", r.technician)
            /\ list[3] = Signal("jobs.changed", r.actor)
        BY <1>3, <2>2 DEF Events, Told
      <3>2. \A i \in DOMAIN Notices(r, old) : Notices(r, old)[i].to = r.technician
        BY <1>3, <2>2 DEF Notices, Notice
      <3> HIDE DEF list
      <3>3. /\ told("notification.created", r.technician)
            /\ told("jobs.changed", r.technician)
            /\ told("jobs.changed", r.actor)
        BY <3>1
      <3>4. QED
        BY <1>3, <3>2, <3>3 DEF list
    <2>3. QED
      BY <2>1, <2>2
  <1>4. CASE r.op = "complete"
    <2>1. /\ 1..3 \subseteq DOMAIN list
          /\ list[1] = Signal("notification.created", old.manager)
          /\ list[2] = Signal("jobs.changed", old.manager)
          /\ list[3] = Signal("jobs.changed", r.actor)
      BY <1>4 DEF Events, Told
    <2>2. \A i \in DOMAIN Notices(r, old) : Notices(r, old)[i].to = old.manager
      BY <1>4 DEF Notices, Notice
    <2> HIDE DEF list
    <2>3. /\ told("notification.created", old.manager)
          /\ told("jobs.changed", old.manager)
          /\ told("jobs.changed", r.actor)
      BY <2>1
    <2>4. QED
      BY <1>4, <2>2, <2>3 DEF list
  <1>5. QED
    BY <1>1, <1>2, <1>3, <1>4

LEMMA CommitSignals ==
  ASSUME IInv, NEW h \in Handlers, Commit(h), pc'[h] = "publish"
  PROVE  LET told(type, to) ==
               \E i \in DOMAIN events'[h] : events'[h][i] = Signal(type, to) IN
         /\ \A user \in Users :
              /\ JobsOf(user)' # JobsOf(user) => told("jobs.changed", user)
              /\ Inbox(user)' # Inbox(user) => told("notification.created", user)
         /\ \A org \in Orgs :
              QuotesOf(org)' # QuotesOf(org) => told("quotes.changed", org)
  <1> DEFINE r == request[h]
             list == Events(r, current[h])
             told(type, to) == \E i \in DOMAIN list : list[i] = Signal(type, to)
  <1>1. PICK j \in Jobs : Writes(h, j)
    BY CommitWrites
  <1>2. events'[h] = list
    BY DEF Commit, Goto, Fail, IInv, Typed, TypeOK
  <1>3. /\ told("jobs.changed", r.actor)
        /\ r.op = "assign" => told("quotes.changed", OrgOf[r.actor])
        /\ \A i \in DOMAIN Notices(r, current[h]) :
             /\ told("jobs.changed", Notices(r, current[h])[i].to)
             /\ told("notification.created", Notices(r, current[h])[i].to)
    BY <1>1, EventsTell
  <1> HIDE DEF list
  <1>4. ASSUME NEW user \in Users
        PROVE  /\ JobsOf(user)' # JobsOf(user) => told("jobs.changed", user)
               /\ Inbox(user)' # Inbox(user) => told("notification.created", user)
    BY <1>1, <1>3, AffectedAreNoticed, NoticesReachInboxes
  <1>5. ASSUME NEW org \in Orgs, QuotesOf(org)' # QuotesOf(org)
        PROVE  told("quotes.changed", org)
    <2>1. r.op = "assign"
      BY <1>1, <1>5 DEF Writes, QuotesOf
    <2>2. OrgOf[r.quote] = org
      <3> SUFFICES ASSUME OrgOf[r.quote] # org PROVE QuotesOf(org)' = QuotesOf(org)
        BY <1>5
      <3>1. quotes' = QuotesAfter(r)
        BY DEF Commit, Write
      <3>2. \A q \in Quotes : OrgOf[q] = org => quotes'[q] = quotes[q]
        BY <2>1, <3>1 DEF QuotesAfter, IInv, Typed, TypeOK
      <3>3. QED
        BY <3>2 DEF QuotesOf
    <2>3. QED
      BY <1>1, <1>3, <2>1, <2>2 DEF Writes
  <1>6. QED
    BY <1>2, <1>4, <1>5

(* The service returns an event for every list its transaction has changed,*)
(* to everyone whose list it is (service.go:159-164, 253-263, 330-334).    *)
THEOREM ChangedListsAreSignalled == Spec => AffectedListsAreSignalled
  <1>1. IInv /\ [Next]_vars => [CommitsSignalled]_vars
    <2> SUFFICES ASSUME IInv, [Next]_vars PROVE CommitsSignalled
      OBVIOUS
    <2>1. CASE \E g \in Handlers : Commit(g)
      <3>1. PICK g \in Handlers : Commit(g)
        BY <2>1
      <3>2. \A h \in Handlers : h # g => pc'[h] = pc[h]
        BY <3>1 DEF Commit, Goto, Fail, IInv, Typed, TypeOK
      <3>3. \A h \in Handlers : pc[h] = "commit" /\ pc'[h] = "publish" => h = g
        BY <3>2
      <3>4. QED
        BY <3>1, <3>3, CommitSignals DEF CommitsSignalled
    <2>2. CASE \A g \in Handlers : ~Commit(g)
      <3>1. UNCHANGED tables
        BY <2>2, OnlyCommitWrites
      <3>2. QED
        BY <3>1, TablesStay DEF CommitsSignalled
    <2>3. QED
      BY <2>1, <2>2
  <1>2. QED
    BY <1>1, Invariant, PTL DEF Spec, AffectedListsAreSignalled

-----------------------------------------------------------------------------
(* The service implements the book of module ScheduleBook.                 *)

LEMMA SameNoJob == Book!NoJob = NoJob
  BY DEF Book!NoJob, NoJob

(* The two comparisons by which ensureNoOverlap counts a job say just that *)
(* the two windows share an instant: none is missed, and windows that only *)
(* touch do not count (service.go:476-498, domain.Overlaps).               *)
THEOREM OverlapIsASharedInstant ==
  ASSUME NEW a \in Int, NEW b \in Int
  PROVE  Overlaps(a, b) <=> Book!Span(a) \cap Book!Span(b) # {}
  <1> USE TimeAssumption DEF Overlaps, EndsAt, Book!Span
  <1>1. CASE a <= b
    <2>1. Overlaps(a, b) => b \in Book!Span(a) \cap Book!Span(b)
      BY <1>1
    <2>2. ASSUME NEW t \in Book!Span(a) \cap Book!Span(b) PROVE Overlaps(a, b)
      BY <1>1
    <2>3. QED
      BY <2>1, <2>2
  <1>2. CASE ~(a <= b)
    <2>1. Overlaps(a, b) => a \in Book!Span(a) \cap Book!Span(b)
      BY <1>2
    <2>2. ASSUME NEW t \in Book!Span(a) \cap Book!Span(b) PROVE Overlaps(a, b)
      BY <1>2
    <2>3. QED
      BY <2>1, <2>2
  <1>3. QED
    BY <1>1, <1>2

(* Windows that are disjoint share no instant.                             *)
LEMMA DisjointSpans ==
  ASSUME NEW a \in Int, NEW b \in Int, Disjoint(a, b)
  PROVE  Book!Span(a) \cap Book!Span(b) = {}
  <1>1. ~Overlaps(a, b)
    BY TimeAssumption DEF Disjoint, Overlaps, EndsAt
  <1>2. QED
    BY <1>1, OverlapIsASharedInstant

(* A window found free, in hours the technician works, is free in the book.*)
LEMMA FreeInBook ==
  ASSUME IInv, NEW h \in Handlers, pc[h] = "commit",
         request[h].op # "complete", NEW j \in Jobs, WrittenJob(h, j)
  PROVE  Book!Free(request[h].technician, request[h].startsAt, j)
  <1> DEFINE r == request[h]
  <1>1. r \in AllRequests /\ RoleAllows(r) /\ ValidInput(r)
    BY DEF IInv, Typed, RequestFits
  <1>2. r.startsAt \in MinuteAligned /\ r.startsAt \in Int
    BY <1>1, RequestFields, TimeAssumption
  <1>3. r.startsAt \in AvailableStarts[r.technician] /\ WindowFree(h)
    BY DEF IInv, DecisionsHold, Informed
  <1>4. ASSUME NEW i \in Jobs \ {j}, jobs[i] # NoJob,
               jobs[i].technician = r.technician
        PROVE  Book!Span(jobs[i].startsAt) \cap Book!Span(r.startsAt) = {}
    <2>1. jobs[i].startsAt \in Int
      BY <1>4, TimeAssumption DEF IInv, Typed, TypeOK, JobRow
    <2>2. r.op = "reschedule" => i # r.job
      BY <1>4 DEF WrittenJob
    <2>3. Disjoint(jobs[i].startsAt, r.startsAt)
      BY <1>3, <1>4, <2>2 DEF WindowFree
    <2>4. QED
      BY <1>2, <2>1, <2>3, DisjointSpans
  <1>5. QED
    BY <1>2, <1>3, <1>4, SameNoJob DEF Book!Free

LEMMA CommitRefines ==
  ASSUME IInv, NEW h \in Handlers, Commit(h)
  PROVE  Book!Next
  <1> DEFINE r == request[h]
             old == current[h]
  <1>1. PICK j \in Jobs : WrittenJob(h, j) /\ Write(r, old, j)
    BY DEF Commit
  <1>2. /\ pc[h] = "commit"
        /\ r \in AllRequests /\ RoleAllows(r) /\ ValidInput(r)
        /\ r.op # "assign" => old \in JobRow
    BY DEF IInv, Typed, TypeOK, RequestFits, Commit, JobLocking, Deciding
  <1>3. jobs' = [jobs EXCEPT ![j] = NewRow(r, old)] /\ quotes' = QuotesAfter(r)
    BY <1>1 DEF Write
  <1>4. /\ r.op = "assign"
           => quotes[r.quote] = "unscheduled" /\ InOrg(h, r.quote)
        /\ r.op # "assign"
           => /\ old = jobs[r.job]
              /\ InOrg(h, old.manager)
              /\ Owns(h)
              /\ ~Frozen(h)
        /\ r.op # "complete" => InOrg(h, r.technician)
    BY <1>2 DEF IInv, DecisionsHold, Informed, Deciding
  <1>5. CASE r.op = "assign"
    <2>1. /\ r.actor \in Managers /\ r.quote \in Quotes
          /\ r.technician \in Technicians /\ r.startsAt \in Instants
      BY <1>2, <1>5, RequestFields
    <2>2. Book!Free(r.technician, r.startsAt, j)
      BY <1>1, <1>2, <1>5, FreeInBook
    <2>3. NewRow(r, old) = AssignedRow(r)
      BY <1>5 DEF NewRow
    <2>4. Book!Assign(j, r.actor, r.quote, r.technician, r.startsAt)
      BY <1>1, <1>3, <1>4, <1>5, <2>2, <2>3, SameNoJob
      DEF Book!Assign, AssignedRow, QuotesAfter, InOrg, WrittenJob
    <2>5. QED
      BY <2>1, <2>4 DEF Book!Next
  <1>6. CASE r.op # "assign"
    <2>1. /\ j = r.job /\ jobs[j] = old /\ old \in JobRow /\ old # NoJob
          /\ old.status = "scheduled"
          /\ quotes' = quotes
          /\ jobs \in [Jobs -> JobRow \cup {NoJob}]
      BY <1>1, <1>2, <1>3, <1>4, <1>6, NoJobIsNoRow
      DEF WrittenJob, QuotesAfter, Frozen, JobRow, IInv, Typed, TypeOK
    <2>2. r.op \in {"reschedule", "complete"}
      BY <1>2, <1>6, RequestFields
    <2>3. CASE r.op = "reschedule"
      <3>1. r.technician \in Technicians /\ r.startsAt \in Instants
        BY <1>2, <2>3, RequestFields
      <3>2. Book!Free(r.technician, r.startsAt, j)
        BY <1>1, <1>2, <2>3, FreeInBook
      <3>3. NewRow(r, old) = [old EXCEPT !.technician = r.technician,
                                         !.startsAt = r.startsAt]
        BY <2>3 DEF NewRow
      <3>4. jobs' = [jobs EXCEPT ![j].technician = r.technician,
                                 ![j].startsAt = r.startsAt]
        BY <1>3, <2>1, <3>3
      <3>5. Book!Reschedule(j, r.technician, r.startsAt)
        BY <1>4, <2>1, <2>3, <3>2, <3>4, SameNoJob
        DEF Book!Reschedule, InOrg
      <3>6. QED
        BY <3>1, <3>5 DEF Book!Next
    <2>4. CASE r.op = "complete"
      <3>1. NewRow(r, old) = [old EXCEPT !.status = "completed"]
        BY <2>4 DEF NewRow
      <3>2. jobs' = [jobs EXCEPT ![j].status = "completed"]
        BY <1>3, <2>1, <3>1
      <3>3. Book!Complete(j)
        BY <2>1, <3>2, SameNoJob DEF Book!Complete
      <3>4. QED
        BY <3>3 DEF Book!Next
    <2>5. QED
      BY <2>2, <2>3, <2>4
  <1>7. QED
    BY <1>5, <1>6

LEMMA StepRefines == IInv /\ [Next]_vars => [Book!Next]_(Book!vars)
  <1> SUFFICES ASSUME IInv, [Next]_vars PROVE [Book!Next]_(Book!vars)
    OBVIOUS
  <1>1. CASE \E h \in Handlers : Commit(h)
    BY <1>1, CommitRefines
  <1>2. CASE \A h \in Handlers : ~Commit(h)
    <2>1. UNCHANGED <<jobs, quotes>>
      BY <1>2, OnlyCommitWrites DEF tables
    <2>2. QED
      BY <2>1 DEF Book!vars
  <1>3. QED
    BY <1>1, <1>2

(* Whoever watches the committed jobs and quotes sees only changes the     *)
(* book allows, each of them justified by the book as it is when the       *)
(* change appears (service.go:78-336).                                     *)
THEOREM ServiceImplementsBook == Spec => ImplementsBook
  <1>1. Init => Book!Init
    BY SameNoJob DEF Init, Book!Init
  <1>2. QED
    BY <1>1, Invariant, StepRefines, PTL DEF Spec, ImplementsBook, Book!Spec

-----------------------------------------------------------------------------
(* Where the deadlocks come from: an assignment or a completion locks rows *)
(* of jobs, quotes, technicians and managers in this order, so a cycle of  *)
(* waits has a reschedule in it.                                           *)

(* The rows h may have locked before the statement it is about to run,     *)
(* when it keeps to the order of the tables.                               *)
Behind(h) ==
  CASE pc[h] = "lockJobQuote" -> Jobs
    [] pc[h] = "lockJobTechnician" -> Jobs \cup Quotes
    [] pc[h] = "lockJobManager" -> Jobs \cup Quotes \cup Technicians
    [] pc[h] = "lockTechnician" -> Quotes
    [] pc[h] \in {"availability", "overlap", "insert"} -> Quotes \cup Technicians
    [] OTHER -> Rows

Outset == {"idle", "begin", "publish", "lockQuote", "lockJob"}

KeepsOrder(h) ==
  /\ pc[h] \in Outset => held[h] = {}
  /\ shared[h] # {} => pc[h] \in {"commit", "refuse"}
  /\ request[h].op # "reschedule" => held[h] \subseteq Behind(h)

LocksInOrder == \A h \in Handlers : KeepsOrder(h)

LEMMA OrderInit == Init => LocksInOrder
  BY DEF Init, LocksInOrder, KeepsOrder, Behind, Outset

(* A step keeps the order if the handler that takes it does.               *)
LEMMA OrderAside ==
  ASSUME LocksInOrder, NEW h \in Handlers, KeepsOrder(h)',
         \A o \in Handlers \ {h} :
           /\ pc'[o] = pc[o] /\ request'[o] = request[o]
           /\ held'[o] = held[o] /\ shared'[o] = shared[o]
  PROVE  LocksInOrder'
  <1>1. ASSUME NEW o \in Handlers, o # h PROVE KeepsOrder(o)'
    BY <1>1 DEF LocksInOrder, KeepsOrder, Behind
  <1>2. QED
    BY <1>1 DEF LocksInOrder

(* Statements that lock a row FOR UPDATE and then go on or fail.           *)
LEMMA OrderAcquire ==
  ASSUME Typed, Typed', LocksInOrder, NEW h \in Handlers, NEW row \in Rows,
         Acquire(h, row), UNCHANGED request,
         \A o \in Handlers \ {h} : pc'[o] = pc[o],
         pc[h] \in InTransaction, pc[h] \notin {"commit"},
         \/ pc'[h] \in {"refuse", "commit"}
         \/ /\ pc'[h] \notin Outset
            /\ request[h].op # "reschedule"
               => held[h] \cup {row} \subseteq Behind(h)'
         \/ pc'[h] \notin Outset /\ request[h].op = "reschedule"
  PROVE  LocksInOrder'
  <1>1. /\ held'[h] = held[h] \cup {row}
        /\ \A o \in Handlers : o # h => held'[o] = held[o]
        /\ shared' = shared
    BY AcquireEffect DEF Typed, TypeOK
  <1>2. shared[h] = {}
    BY DEF LocksInOrder, KeepsOrder, InTransaction, Locking
  <1>3. held'[h] \subseteq Rows
    BY DEF Typed, TypeOK
  <1>4. KeepsOrder(h)'
    BY <1>1, <1>2, <1>3 DEF KeepsOrder, Behind, Outset
  <1>5. QED
    BY <1>1, <1>4, OrderAside

(* Steps that lock no row for the handler that takes them.                 *)
LEMMA OrderRest ==
  ASSUME Typed, Typed', LocksInOrder, NEW h \in Handlers,
         \/ StartRequest(h) \/ BeginTx(h) \/ EnsureTechnicianAvailable(h)
         \/ EnsureNoOverlap(h) \/ InsertJob(h) \/ Commit(h) \/ Publish(h)
         \/ Refuse(h) \/ StatementFails(h) \/ DeadlockVictim(h)
  PROVE  LocksInOrder'
  <1>1. /\ pc[h] \in Control /\ pc'[h] \in Control
        /\ held'[h] \subseteq Rows /\ KeepsOrder(h)
    BY DEF Typed, TypeOK, LocksInOrder
  <1>2. CASE StartRequest(h)
    <2>1. /\ pc[h] = "idle" /\ pc'[h] \in {"refuse", "begin"}
          /\ held' = held /\ shared' = shared
          /\ \A o \in Handlers \ {h} : pc'[o] = pc[o] /\ request'[o] = request[o]
      BY <1>2 DEF StartRequest, Fail, Goto, Typed, TypeOK, locks
    <2>2. KeepsOrder(h)'
      BY <1>1, <2>1 DEF KeepsOrder, Behind, Outset
    <2>3. QED
      BY <2>1, <2>2, OrderAside
  <1>3. CASE BeginTx(h)
    <2>1. /\ pc[h] = "begin" /\ pc'[h] \in {"lockQuote", "lockJob"}
          /\ held' = held /\ shared' = shared /\ request' = request
          /\ \A o \in Handlers \ {h} : pc'[o] = pc[o]
      BY <1>3 DEF BeginTx, Goto, Typed, TypeOK, locks
    <2>2. KeepsOrder(h)'
      BY <1>1, <2>1 DEF KeepsOrder, Behind, Outset
    <2>3. QED
      BY <2>1, <2>2, OrderAside
  <1>4. CASE EnsureTechnicianAvailable(h) \/ EnsureNoOverlap(h)
    <2>1. /\ pc[h] \in {"availability", "overlap"}
          /\ pc'[h] \in {"overlap", "insert", "commit", "refuse"}
          /\ held' = held /\ shared' = shared /\ request' = request
          /\ \A o \in Handlers \ {h} : pc'[o] = pc[o]
      BY <1>4 DEF EnsureTechnicianAvailable, EnsureNoOverlap, Decide, Goto,
                  Fail, Typed, TypeOK, locks
    <2>2. KeepsOrder(h)'
      BY <1>1, <2>1 DEF KeepsOrder, Behind, Outset
    <2>3. QED
      BY <2>1, <2>2, OrderAside
  <1>5. CASE InsertJob(h)
    <2>1. /\ pc'[h] \in {"commit", "refuse"}
          /\ held' = held /\ request' = request
          /\ \A o \in Handlers \ {h} : pc'[o] = pc[o] /\ shared'[o] = shared[o]
      BY <1>5 DEF InsertJob, Decide, Goto, Fail, Typed, TypeOK
    <2>2. KeepsOrder(h)'
      BY <1>1, <2>1 DEF KeepsOrder, Behind, Outset
    <2>3. QED
      BY <2>1, <2>2, OrderAside
  <1>6. CASE Commit(h) \/ Refuse(h) \/ DeadlockVictim(h)
    <2>1. /\ held' = [held EXCEPT ![h] = {}] /\ shared' = [shared EXCEPT ![h] = {}]
          /\ \A o \in Handlers \ {h} : pc'[o] = pc[o] /\ request'[o] = request[o]
      BY <1>6 DEF Commit, Refuse, DeadlockVictim, EndTransaction, Unlock,
                  Goto, Fail, Forget, Typed, TypeOK
    <2>2. held'[h] = {} /\ shared'[h] = {}
      BY <2>1 DEF Typed, TypeOK
    <2>3. KeepsOrder(h)'
      BY <2>2 DEF KeepsOrder
    <2>4. \A o \in Handlers \ {h} : held'[o] = held[o] /\ shared'[o] = shared[o]
      BY <2>1 DEF Typed, TypeOK
    <2>5. QED
      BY <2>1, <2>3, <2>4, OrderAside
  <1>7. CASE Publish(h)
    <2>1. /\ pc[h] = "publish" /\ held' = held /\ shared' = shared
          /\ \A o \in Handlers \ {h} : pc'[o] = pc[o] /\ request'[o] = request[o]
      BY <1>7 DEF Publish, Forget, Typed, TypeOK, locks
    <2>2. KeepsOrder(h)'
      BY <1>1, <2>1 DEF KeepsOrder, Outset
    <2>3. QED
      BY <2>1, <2>2, OrderAside
  <1>8. CASE StatementFails(h)
    <2>1. /\ pc'[h] = "refuse"
          /\ held' = held /\ shared' = shared /\ request' = request
          /\ \A o \in Handlers \ {h} : pc'[o] = pc[o]
      BY <1>8 DEF StatementFails, Fail, Typed, TypeOK, locks
    <2>2. KeepsOrder(h)'
      BY <1>1, <2>1 DEF KeepsOrder, Behind, Outset
    <2>3. QED
      BY <2>1, <2>2, OrderAside
  <1>9. QED
    BY <1>2, <1>3, <1>4, <1>5, <1>6, <1>7, <1>8

(* The locking SELECTs, each of which locks a row of a later table.        *)
LEMMA OrderSelects ==
  ASSUME Typed, Typed', LocksInOrder, NEW h \in Handlers,
         \/ SelectQuoteForUpdate(h) \/ SelectJobForUpdate(h)
         \/ LockJobQuote(h) \/ LockJobTechnician(h) \/ LockJobManager(h)
         \/ SelectTechnicianForUpdate(h)
  PROVE  LocksInOrder'
  <1> DEFINE r == request[h]
  <1> USE DEF InTransaction, Locking, Outset
  <1>1. KeepsOrder(h)
    BY DEF LocksInOrder
  <1>2. CASE SelectQuoteForUpdate(h)
    <2>1. r.op = "assign" /\ r.quote \in Quotes /\ r.quote \in Rows
      BY <1>2, RequestFields DEF Typed, RequestFits, SelectQuoteForUpdate, Rows
    <2>2. /\ pc'[h] \in {"lockTechnician", "refuse"}
          /\ \A o \in Handlers \ {h} : pc'[o] = pc[o]
      BY <1>2 DEF SelectQuoteForUpdate, Decide, Goto, Fail, Typed, TypeOK
    <2>3. /\ pc[h] = "lockQuote" /\ held[h] = {} /\ request' = request
          /\ Acquire(h, r.quote)
      BY <1>1, <1>2 DEF SelectQuoteForUpdate, KeepsOrder
    <2>4. QED
      BY <2>1, <2>2, <2>3, OrderAcquire DEF Behind
  <1>3. CASE SelectJobForUpdate(h)
    <2>1. r.job \in Jobs /\ r.job \in Rows
      BY <1>3, RequestFields DEF Typed, RequestFits, SelectJobForUpdate, Rows
    <2>2. /\ pc[h] = "lockJob" /\ held[h] = {} /\ request' = request
          /\ pc'[h] \in {"lockJobQuote", "refuse"}
          /\ \A o \in Handlers \ {h} : pc'[o] = pc[o]
      BY <1>1, <1>3
      DEF SelectJobForUpdate, Goto, Fail, Typed, TypeOK, KeepsOrder
    <2>3. CASE Acquire(h, r.job)
      BY <2>1, <2>2, <2>3, OrderAcquire DEF Behind
    <2>4. CASE UNCHANGED locks /\ pc'[h] = "refuse"
      <3>1. held' = held /\ shared' = shared
        BY <2>4 DEF locks
      <3>2. KeepsOrder(h)'
        BY <1>1, <2>2, <2>4, <3>1 DEF KeepsOrder, Behind
      <3>3. QED
        BY <2>2, <3>1, <3>2, OrderAside
    <2>5. QED
      BY <1>3, <2>3, <2>4 DEF SelectJobForUpdate, Fail, Typed, TypeOK
  <1>4. CASE LockJobQuote(h)
    <2>1. current[h] \in JobRow /\ JoinedRow(h) \in Rows
      BY <1>4, JoinedRows DEF LockJobQuote, JobLocking
    <2>2. /\ pc[h] = "lockJobQuote" /\ pc'[h] = "lockJobTechnician"
          /\ \A o \in Handlers \ {h} : pc'[o] = pc[o]
          /\ request' = request /\ Acquire(h, JoinedRow(h))
      BY <1>4 DEF LockJobQuote, Goto, Typed, TypeOK
    <2>3. JoinedRow(h) \in Quotes
      BY <2>1, <2>2 DEF JoinedRow, JobRow
    <2>4. r.op # "reschedule" => held[h] \subseteq Jobs
      BY <1>1, <2>2 DEF KeepsOrder, Behind
    <2>5. QED
      BY <2>1, <2>2, <2>3, <2>4, OrderAcquire DEF Behind
  <1>5. CASE LockJobTechnician(h)
    <2>1. current[h] \in JobRow /\ JoinedRow(h) \in Rows
      BY <1>5, JoinedRows DEF LockJobTechnician, JobLocking
    <2>2. /\ pc[h] = "lockJobTechnician" /\ pc'[h] = "lockJobManager"
          /\ \A o \in Handlers \ {h} : pc'[o] = pc[o]
          /\ request' = request /\ Acquire(h, JoinedRow(h))
      BY <1>5 DEF LockJobTechnician, Goto, Typed, TypeOK
    <2>3. JoinedRow(h) \in Technicians
      BY <2>1, <2>2 DEF JoinedRow, JobRow
    <2>4. r.op # "reschedule" => held[h] \subseteq Jobs \cup Quotes
      BY <1>1, <2>2 DEF KeepsOrder, Behind
    <2>5. QED
      BY <2>1, <2>2, <2>3, <2>4, OrderAcquire DEF Behind
  <1>6. CASE LockJobManager(h)
    <2>1. JoinedRow(h) \in Rows
      BY <1>6, JoinedRows DEF LockJobManager, JobLocking
    <2>2. /\ pc[h] = "lockJobManager"
          /\ pc'[h] \in {"refuse", "commit"}
               \cup (IF r.op = "reschedule" THEN {"lockTechnician"} ELSE {})
          /\ \A o \in Handlers \ {h} : pc'[o] = pc[o]
          /\ request' = request /\ Acquire(h, JoinedRow(h))
      BY <1>6 DEF LockJobManager, Decide, Goto, Fail, Typed, TypeOK
    <2>3. QED
      BY <2>1, <2>2, OrderAcquire
  <1>7. CASE SelectTechnicianForUpdate(h)
    <2>1. r.technician \in Technicians /\ r.technician \in Rows
      BY <1>7, RequestFields
      DEF Typed, RequestFits, SelectTechnicianForUpdate, Rows
    <2>2. /\ pc[h] = "lockTechnician" /\ pc'[h] \in {"availability", "refuse"}
          /\ \A o \in Handlers \ {h} : pc'[o] = pc[o]
          /\ request' = request /\ Acquire(h, r.technician)
      BY <1>7 DEF SelectTechnicianForUpdate, Decide, Goto, Fail, Typed, TypeOK
    <2>3. r.op # "reschedule" => held[h] \subseteq Quotes
      BY <1>1, <2>2 DEF KeepsOrder, Behind
    <2>4. QED
      BY <2>1, <2>2, <2>3, OrderAcquire DEF Behind
  <1>8. QED
    BY <1>2, <1>3, <1>4, <1>5, <1>6, <1>7

LEMMA OrderStep == Typed /\ LocksInOrder /\ [Next]_vars => LocksInOrder'
  <1> SUFFICES ASSUME Typed, LocksInOrder, [Next]_vars PROVE LocksInOrder'
    OBVIOUS
  <1>1. Typed'
    BY TypedStep
  <1>2. CASE \E h \in Handlers :
               StartRequest(h) \/ Serve(h) \/ StatementFails(h) \/ DeadlockVictim(h)
    BY <1>1, <1>2, OrderRest, OrderSelects DEF Serve
  <1>3. CASE Crash
    BY <1>3 DEF Crash, LocksInOrder, KeepsOrder
  <1>4. CASE UNCHANGED vars
    BY <1>4 DEF vars, locks, LocksInOrder, KeepsOrder, Behind
  <1>5. QED
    BY <1>2, <1>3, <1>4 DEF Next, Quiescent

-----------------------------------------------------------------------------
(* Waiting climbs the order of the tables.                                 *)
Rank(row) ==
  CASE row \in Jobs -> 1
    [] row \in Quotes -> 2
    [] row \in Technicians -> 3
    [] OTHER -> 4

LEMMA WaitingClimbs ==
  ASSUME Typed, LocksInOrder, NEW d \in Handlers, NEW b \in Blockers(d),
         Blockers(b) # {}, request[b].op # "reschedule"
  PROVE  Rank(WantedRow(d)) < Rank(WantedRow(b))
  <1> DEFINE r == request[b]
  <1> USE RowsAssumption
  <1>1. pc[b] \in Locking /\ b \in Handlers /\ KeepsOrder(b)
    BY DEF Blockers, LocksInOrder
  <1>2. shared[b] = {}
    BY <1>1 DEF KeepsOrder, Locking
  <1>3. WantedRow(d) \in held[b]
    BY <1>2 DEF Blockers
  <1>4. pc[b] \notin Outset
    BY <1>1, <1>3 DEF KeepsOrder
  <1>5. WantedRow(d) \in Behind(b)
    BY <1>1, <1>3 DEF KeepsOrder
  <1>6. CASE pc[b] \in JobLocking
    <2>1. current[b] \in JobRow
      BY <1>1, <1>6, JoinedRows
    <2>2. CASE pc[b] = "lockJobQuote"
      <3>1. WantedRow(b) \in Quotes /\ WantedRow(d) \in Jobs
        BY <1>5, <2>1, <2>2 DEF WantedRow, JoinedRow, JobRow, Behind
      <3>2. QED
        BY <3>1 DEF Rank
    <2>3. CASE pc[b] = "lockJobTechnician"
      <3>1. WantedRow(b) \in Technicians /\ WantedRow(d) \in Jobs \cup Quotes
        BY <1>5, <2>1, <2>3 DEF WantedRow, JoinedRow, JobRow, Behind
      <3>2. QED
        BY <3>1 DEF Rank
    <2>4. CASE pc[b] = "lockJobManager"
      <3>1. /\ WantedRow(b) \in Managers
            /\ WantedRow(d) \in Jobs \cup Quotes \cup Technicians
        BY <1>5, <2>1, <2>4 DEF WantedRow, JoinedRow, JobRow, Behind
      <3>2. QED
        BY <3>1 DEF Rank
    <2>5. QED
      BY <1>6, <2>2, <2>3, <2>4 DEF JobLocking
  <1>7. CASE pc[b] = "lockTechnician"
    <2>1. WantedRow(b) \in Technicians /\ WantedRow(d) \in Quotes
      BY <1>1, <1>5, <1>7, RequestFields
      DEF WantedRow, Behind, Typed, RequestFits
    <2>2. QED
      BY <2>1 DEF Rank
  <1>8. CASE pc[b] = "insert"
    <2>1. WantedRow(b) \in Managers /\ WantedRow(d) \in Quotes \cup Technicians
      BY <1>1, <1>5, <1>8, RequestFields
      DEF WantedRow, Behind, Typed, RequestFits
    <2>2. QED
      BY <2>1 DEF Rank
  <1>9. QED
    BY <1>1, <1>4, <1>6, <1>7, <1>8 DEF Locking, Outset, JobLocking

LEMMA OrderExplains == Typed /\ LocksInOrder => DeadlockNeedsReschedule
  <1> SUFFICES ASSUME Typed, LocksInOrder, NEW h \in Handlers, OnWaitCycle(h),
                      \A o \in Handlers :
                        OnWaitCycle(o) => request[o].op # "reschedule"
               PROVE  FALSE
    BY DEF DeadlockNeedsReschedule
  <1>1. PICK D \in SUBSET Handlers :
          /\ h \in D
          /\ \A d \in D : Blockers(d) \cap D # {}
          /\ \E d \in D : h \in Blockers(d)
    BY DEF OnWaitCycle
  <1> DEFINE Cycle == {c \in D : \E d \in D : c \in Blockers(d)}
  <1>2. h \in Cycle
    BY <1>1
  <1>3. ASSUME NEW c \in Cycle
        PROVE  \E b \in Cycle : Rank(WantedRow(c)) < Rank(WantedRow(b))
    <2>1. PICK b \in D : b \in Blockers(c)
      BY <1>1
    <2>2. b \in Cycle /\ b \in Handlers
      BY <2>1
    <2>3. OnWaitCycle(b)
      BY <1>1, <2>2 DEF OnWaitCycle
    <2>4. Blockers(b) # {}
      BY <1>1, <2>1
    <2>5. QED
      BY <2>1, <2>2, <2>3, <2>4, WaitingClimbs
  <1>4. \A row : Rank(row) \in 1..4
    BY DEF Rank
  <1>5. PICK b \in Cycle : Rank(WantedRow(b)) > 1
    BY <1>2, <1>3, <1>4
  <1>6. PICK c \in Cycle : Rank(WantedRow(c)) > 2
    BY <1>3, <1>4, <1>5
  <1>7. PICK d \in Cycle : Rank(WantedRow(d)) > 3
    BY <1>3, <1>4, <1>6
  <1>8. QED
    BY <1>3, <1>4, <1>7

(* Every deadlock has a reschedule in it, however many transactions run    *)
(* and however long the cycle (service.go:183-193 against 93-115 and 281). *)
THEOREM DeadlocksNeedReschedule == Spec => []DeadlockNeedsReschedule
  <1>1. Init => Typed /\ LocksInOrder
    BY TypedInit, OrderInit
  <1>2. Typed /\ LocksInOrder /\ [Next]_vars => Typed' /\ LocksInOrder'
    BY TypedStep, OrderStep
  <1>3. QED
    BY <1>1, <1>2, OrderExplains, PTL DEF Spec

-----------------------------------------------------------------------------
(* A request that waits, waits for another that goes on.                   *)

(* Connections are held by transactions, until their Rollback at the       *)
(* latest.                                                                 *)
Connected(h) == h \in open => pc[h] \in InTransaction \cup {"refuse"}

AllConnected == \A h \in Handlers : Connected(h)

(* A step of h leaves the others' connections alone.                       *)
LEMMA ConnectedAside ==
  ASSUME AllConnected, NEW h \in Handlers, Connected(h)',
         \A o \in Handlers \ {h} : pc'[o] = pc[o],
         open' \subseteq open \cup {h}
  PROVE  AllConnected'
  BY DEF AllConnected, Connected

LEMMA ConnectedStatement ==
  ASSUME Typed, AllConnected, NEW h \in Handlers, Serve(h)
  PROVE  AllConnected'
  <1> USE DEF InTransaction, Locking
  <1>1. Connected(h) /\ pc[h] \in Control
    BY DEF AllConnected, Typed, TypeOK
  <1>2. CASE BeginTx(h)
    <2>1. /\ pc'[h] \in {"lockQuote", "lockJob"}
          /\ open' = open \cup {h}
          /\ \A o \in Handlers \ {h} : pc'[o] = pc[o]
      BY <1>2 DEF BeginTx, Goto, Typed, TypeOK
    <2>2. QED
      BY <2>1, ConnectedAside DEF Connected
  <1>3. CASE \/ SelectQuoteForUpdate(h) \/ SelectJobForUpdate(h)
             \/ LockJobQuote(h) \/ LockJobTechnician(h) \/ LockJobManager(h)
             \/ SelectTechnicianForUpdate(h) \/ EnsureTechnicianAvailable(h)
             \/ EnsureNoOverlap(h) \/ InsertJob(h)
    <2>1. /\ pc'[h] \in InTransaction \cup {"refuse"}
          /\ open' = open
          /\ \A o \in Handlers \ {h} : pc'[o] = pc[o]
      BY <1>3
      DEF SelectQuoteForUpdate, SelectJobForUpdate, LockJobQuote,
          LockJobTechnician, LockJobManager, SelectTechnicianForUpdate,
          EnsureTechnicianAvailable, EnsureNoOverlap, InsertJob,
          Decide, Goto, Fail, Typed, TypeOK
    <2>2. QED
      BY <2>1, ConnectedAside DEF Connected
  <1>4. CASE Commit(h) \/ Refuse(h)
    <2>1. /\ open' = open \ {h}
          /\ \A o \in Handlers \ {h} : pc'[o] = pc[o]
      BY <1>4 DEF Commit, Refuse, EndTransaction, Goto, Fail, Forget, Typed,
                  TypeOK
    <2>2. QED
      BY <2>1, ConnectedAside DEF Connected
  <1>5. CASE Publish(h)
    <2>1. /\ h \notin open /\ open' = open
          /\ \A o \in Handlers \ {h} : pc'[o] = pc[o]
      BY <1>1, <1>5 DEF Publish, Forget, Connected, Typed, TypeOK
    <2>2. QED
      BY <2>1, ConnectedAside DEF Connected
  <1>6. QED
    BY <1>2, <1>3, <1>4, <1>5 DEF Serve

LEMMA ConnectedStep == Typed /\ AllConnected /\ [Next]_vars => AllConnected'
  <1> SUFFICES ASSUME Typed, AllConnected, [Next]_vars PROVE AllConnected'
    OBVIOUS
  <1>1. ASSUME NEW h \in Handlers, StartRequest(h) PROVE AllConnected'
    <2>1. /\ h \notin open /\ open' = open
          /\ \A o \in Handlers \ {h} : pc'[o] = pc[o]
      BY <1>1 DEF StartRequest, Goto, Fail, AllConnected, Connected,
                  InTransaction, Locking, Typed, TypeOK
    <2>2. QED
      BY <2>1, ConnectedAside DEF Connected
  <1>2. ASSUME NEW h \in Handlers, StatementFails(h) \/ DeadlockVictim(h)
        PROVE  AllConnected'
    <2>1. /\ pc'[h] = "refuse" /\ open' = open
          /\ \A o \in Handlers \ {h} : pc'[o] = pc[o]
      BY <1>2 DEF StatementFails, DeadlockVictim, Fail, Typed, TypeOK
    <2>2. QED
      BY <2>1, ConnectedAside DEF Connected
  <1>3. CASE Crash
    BY <1>3 DEF Crash, AllConnected, Connected
  <1>4. CASE UNCHANGED vars
    BY <1>4 DEF vars, AllConnected, Connected
  <1>5. QED
    BY <1>1, <1>2, <1>3, <1>4, ConnectedStatement DEF Next, Quiescent

(* Whoever is waited for is in the middle of a transaction.                *)
LEMMA BlockersAreBusy ==
  ASSUME Typed, LocksInOrder, NEW h \in Handlers, NEW o \in Blockers(h)
  PROVE  o \in Handlers /\ pc[o] \in InTransaction \cup {"refuse"}
  <1>1. o \in Handlers /\ (held[o] # {} \/ shared[o] # {})
    BY DEF Blockers
  <1>2. KeepsOrder(o) /\ pc[o] \in Control
    BY <1>1 DEF LocksInOrder, Typed, TypeOK
  <1>3. CASE held[o] # {}
    BY <1>1, <1>2, <1>3 DEF KeepsOrder, Outset, Control, InTransaction, Locking
  <1>4. CASE shared[o] # {}
    BY <1>1, <1>2, <1>4 DEF KeepsOrder, InTransaction
  <1>5. QED
    BY <1>1, <1>3, <1>4

LEMMA SomeoneGoesOn == Typed /\ LocksInOrder /\ AllConnected => NoStandstill
  <1> SUFFICES ASSUME Typed, LocksInOrder, AllConnected,
                      NEW h \in Handlers, pc[h] # "idle",
                      \A o \in Handlers : ~CanGoOn(o)
               PROVE  \E o \in Handlers : OnWaitCycle(o)
    BY DEF NoStandstill
  <1> DEFINE Waiting == {o \in Handlers : Blockers(o) # {}}
  <1>1. ASSUME NEW o \in Waiting PROVE Blockers(o) \cap Waiting # {}
    <2>1. PICK b \in Blockers(o) : TRUE
      OBVIOUS
    <2>2. b \in Handlers /\ pc[b] # "idle" /\ pc[b] # "begin"
      BY <2>1, BlockersAreBusy DEF InTransaction, Locking
    <2>3. Blockers(b) # {}
      BY <2>2 DEF CanGoOn
    <2>4. QED
      BY <2>1, <2>2, <2>3
  <1>2. CASE Waiting # {}
    <2>1. PICK o \in Waiting : TRUE
      BY <1>2
    <2>2. PICK b \in Waiting : b \in Blockers(o)
      BY <1>1
    <2>3. OnWaitCycle(b)
      BY <1>1, <2>1, <2>2 DEF OnWaitCycle
    <2>4. QED
      BY <2>2, <2>3
  <1>3. CASE Waiting = {}
    <2>1. pc[h] = "begin" /\ ~(Cardinality(open) < PoolSize)
      BY <1>3 DEF CanGoOn
    <2>2. open # {}
      BY <2>1, FS_EmptySet, ServiceAssumption
    <2>3. PICK o \in open : TRUE
      BY <2>2
    <2>4. o \in Handlers /\ pc[o] # "idle" /\ pc[o] # "begin"
      BY <2>3 DEF AllConnected, Connected, InTransaction, Locking, Typed, TypeOK
    <2>5. CanGoOn(o)
      BY <1>3, <2>4 DEF CanGoOn
    <2>6. QED
      BY <2>4, <2>5
  <1>4. QED
    BY <1>2, <1>3

(* However many requests contend for however few connections, the service  *)
(* never stands still but for a cycle of waits, which InnoDB breaks        *)
(* (service.go:91, 181, 279; db.go: SetMaxOpenConns).                      *)
THEOREM ServiceGoesOn == Spec => []NoStandstill
  <1>1. Init => Typed /\ LocksInOrder /\ AllConnected
    BY TypedInit, OrderInit DEF Init, AllConnected, Connected
  <1>2. Typed /\ LocksInOrder /\ AllConnected /\ [Next]_vars
        => Typed' /\ LocksInOrder' /\ AllConnected'
    BY TypedStep, OrderStep, ConnectedStep
  <1>3. QED
    BY <1>1, <1>2, SomeoneGoesOn, PTL DEF Spec
=============================================================================
