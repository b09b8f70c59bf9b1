---------------------------- MODULE ScheduleBook ----------------------------
(***************************************************************************)
(* What the scheduling service promises: a book of jobs in which each      *)
(* change is one step, decided on the book as it is at that step. There    *)
(* are no locks, snapshots, failures or requests here; the module          *)
(* Scheduling is shown to implement this one (module MCScheduling).        *)
(***************************************************************************)
EXTENDS Domain

VARIABLES
  jobs,       \* [Jobs -> JobRow \cup {NoJob}]
  quotes      \* [Quotes -> QuoteStatus]

vars == <<jobs, quotes>>

Span(start) == start .. start + WindowLength - 1

(* The technician works and has no job but j in the window from start.     *)
Free(technician, start, j) ==
  /\ start \in AvailableStarts[technician] \cap MinuteAligned
  /\ \A i \in Jobs \ {j} :
       jobs[i] # NoJob /\ jobs[i].technician = technician
       => Span(jobs[i].startsAt) \cap Span(start) = {}

Init ==
  /\ jobs = [j \in Jobs |-> NoJob]
  /\ quotes = [q \in Quotes |-> "unscheduled"]

Assign(j, manager, quote, technician, start) ==
  /\ OrgOf[manager] = OrgOf[quote] /\ OrgOf[manager] = OrgOf[technician]
  /\ jobs[j] = NoJob
  /\ quotes[quote] = "unscheduled"
  /\ Free(technician, start, j)
  /\ jobs' = [jobs EXCEPT ![j] =
       [quote |-> quote, technician |-> technician, manager |-> manager,
        startsAt |-> start, status |-> "scheduled"]]
  /\ quotes' = [quotes EXCEPT ![quote] = "scheduled"]

Reschedule(j, technician, start) ==
  /\ jobs[j] # NoJob
  /\ jobs[j].status = "scheduled"
  /\ OrgOf[jobs[j].manager] = OrgOf[technician]
  /\ Free(technician, start, j)
  /\ jobs' = [jobs EXCEPT ![j].technician = technician, ![j].startsAt = start]
  /\ UNCHANGED quotes

Complete(j) ==
  /\ jobs[j] # NoJob
  /\ jobs[j].status = "scheduled"
  /\ jobs' = [jobs EXCEPT ![j].status = "completed"]
  /\ UNCHANGED quotes

Next ==
  \E j \in Jobs :
    \/ \E m \in Managers, q \in Quotes, t \in Technicians, s \in Instants :
         Assign(j, m, q, t, s)
    \/ \E t \in Technicians, s \in Instants : Reschedule(j, t, s)
    \/ Complete(j)

Spec == Init /\ [][Next]_vars
=============================================================================
