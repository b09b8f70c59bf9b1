------------------------------- MODULE Domain -------------------------------
(***************************************************************************)
(* The vocabulary of the scheduler: rows of the tables the scheduling      *)
(* service touches, the pure rules of backend/internal/domain, and the     *)
(* constants that stand for what the tables hold and never changes while   *)
(* the service runs (organizations, people, quotes, availability rules).   *)
(*                                                                         *)
(* Text columns, timestamps nobody compares (created_at, updated_at,       *)
(* completed_at) and the wording of messages are left out.                 *)
(*                                                                         *)
(* A definition called a slip is used by no module: it is what a plausible *)
(* mistake would make of the definition after it, and shows that the       *)
(* properties can fail.                                                    *)
(***************************************************************************)
EXTENDS Integers, Sequences

CONSTANTS
  Managers,          \* rows of managers, each with its one user
  Technicians,       \* rows of technicians, each with its one user
  Quotes,            \* rows of quotes
  Jobs,              \* ids the jobs table may hand out
  OrgOf,             \* organization_id of a manager, technician or quote
  NoId,              \* a request field holding an id that is not positive
  Instants,          \* the start instants requests may name
  MinuteAligned,     \* those with no seconds and no nanoseconds
  WindowLength,      \* two hours, in the unit of Instants
  AvailableStarts    \* starts whose window lies inside a technician's rules

Users == Managers \cup Technicians

Rows == Managers \cup Technicians \cup Quotes \cup Jobs

ASSUME RowsAssumption ==
  /\ Managers \cap Technicians = {}
  /\ Managers \cap Quotes = {}
  /\ Managers \cap Jobs = {}
  /\ Technicians \cap Quotes = {}
  /\ Technicians \cap Jobs = {}
  /\ Quotes \cap Jobs = {}
  /\ NoId \notin Rows

ASSUME TimeAssumption ==
  /\ Instants \subseteq Int
  /\ MinuteAligned \subseteq Instants
  /\ WindowLength \in Nat \ {0}
  /\ AvailableStarts \in [Technicians -> SUBSET Instants]

Orgs == {OrgOf[x] : x \in Users \cup Quotes}

-----------------------------------------------------------------------------
(* Time windows. chk_job_window_two_hours and CalculateWindow fix the      *)
(* length, so a window is known by its start.                              *)

EndsAt(start) == start + WindowLength

(* Slip: windows that only touch count as overlapping.                     *)
OverlapsTouching(existing, requested) ==
  /\ existing <= EndsAt(requested)
  /\ EndsAt(existing) >= requested

(* The half-open comparison ensureNoOverlap sends to the database and      *)
(* Overlaps states in Go.                                                  *)
Overlaps(existing, requested) ==
  /\ existing < EndsAt(requested)
  /\ EndsAt(existing) > requested

ValidateStartsAt(start) == start \in MinuteAligned

-----------------------------------------------------------------------------
(* Rows.                                                                   *)

JobRow ==
  [quote : Quotes, technician : Technicians, manager : Managers,
   startsAt : Instants, status : {"scheduled", "completed"}]

NoJob == [quote |-> NoId]      \* no row has this id

QuoteStatus == {"unscheduled", "scheduled"}

(* A line of schedule_audit_logs; previous and new hold the technician and *)
(* the start, previous is NoPlace on the line of an assignment.            *)
Place == [technician : Technicians, startsAt : Instants]

NoPlace == [technician |-> NoId]

AuditRow ==
  [action : {"job_assigned", "job_rescheduled", "job_completed"},
   actor : Users, previous : Place \cup {NoPlace}, new : Place]

PlaceOf(row) == [technician |-> row.technician, startsAt |-> row.startsAt]

NotificationRow ==
  [to : Users, type : {"job_assigned", "job_updated", "job_completed"}]

(* A DomainEvent: to is the user of TargetUserID or, for a broadcast to    *)
(* the managers of one organization, that organization.                    *)
Event ==
  [type : {"notification.created", "jobs.changed"}, to : Users]
    \cup [type : {"quotes.changed"}, to : Orgs]

-----------------------------------------------------------------------------
(* Requests, as the router hands them to the service with the actor the    *)
(* session names, and the codes a service call can fail with.              *)

AssignJobInput ==
  [op : {"assign"}, actor : Users, quote : Quotes \cup {NoId},
   technician : Technicians \cup {NoId}, startsAt : Instants]

RescheduleJobInput ==
  [op : {"reschedule"}, actor : Users, job : Jobs \cup {NoId},
   technician : Technicians \cup {NoId}, startsAt : Instants]

CompleteJobInput ==
  [op : {"complete"}, actor : Users, job : Jobs \cup {NoId}]

AllRequests == AssignJobInput \cup RescheduleJobInput \cup CompleteJobInput

ErrorCode ==
  {"forbidden", "invalid_input", "not_found", "quote_already_scheduled",
   "schedule_conflict", "technician_unavailable", "completed_job_immutable",
   "job_already_completed", "internal_error"}

(* The role each operation demands of its actor.                           *)
RoleAllows(r) ==
  IF r.op = "complete" THEN r.actor \in Technicians ELSE r.actor \in Managers

(* ValidateAssignJobInput, ValidateRescheduleJobInput and                  *)
(* ValidateCompleteJobInput.                                               *)
ValidInput(r) ==
  /\ r.op = "assign" => r.quote # NoId
  /\ r.op # "assign" => r.job # NoId
  /\ r.op # "complete" => r.technician # NoId /\ ValidateStartsAt(r.startsAt)
=============================================================================
