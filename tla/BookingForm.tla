---------------------------- MODULE BookingForm -----------------------------
(***************************************************************************)
(* The forms of the manager's page with which jobs are booked and moved:   *)
(* the assignment form and the dialog of ManagerWorkspace.tsx, with        *)
(* SchedulePicker.tsx and schedulingAvailability.ts, against what the      *)
(* scheduling service decides.                                             *)
(*                                                                         *)
(* The service decides in one step, which Scheduling shows it may be taken *)
(* to do. The selected quote is left out (the service takes each once),    *)
(* and so is the status of jobs: a completed job blocks its window on both *)
(* sides and behaves as one nobody moves.                                  *)
(***************************************************************************)
EXTENDS Domain, LocalTime

CONSTANTS
  Rules,         \* the availability rules of each technician
  Me,            \* the manager whose page it is
  Posts,         \* bound: his page's calls under way at a time
  Today,         \* what the calendar shows first
  SlotTimes,     \* the times of day that are offered
  Dates,         \* bound: dates picked or typed
  TypedTimes     \* times of day that are typed

At(date, time) == date * DayLength + time

(* What the field can hold, and what it holds at first.                    *)
Values == {At(d, t) : d \in Dates, t \in SlotTimes \cup TypedTimes}

NoValue == -1

ASSUME FormAssumption ==
  /\ Me \in Managers
  /\ Dates \subseteq Nat /\ Today \in Dates
  /\ SlotTimes \cup TypedTimes \subseteq 0..(DayLength - 1)
  /\ 600 \in SlotTimes
  /\ Rules \in [Technicians -> SUBSET AvailabilityRule]
  /\ \A v \in Values : ZonedDateTimeToUTC(v) \in Instants

(* The starts the service finds available, as Scheduling takes them from   *)
(* Domain.                                                                 *)
ASSUME AvailabilityAssumption ==
  \A t \in Technicians : AvailableStarts[t] =
    {s \in Instants :
       \E rule \in Rules[t] : WindowInsideAvailability(rule, s, EndsAt(s))}

VARIABLES
  mode,      \* which page: "assign" has the form, "jobs" the dialog
  jobs,      \* the jobs table, as committed
  page,      \* the jobs the page shows
  form,      \* the form or the dialog, as filled in
  posted,    \* the calls under way
  typed      \* history: what was in the field of the call that placed a job

vars == <<mode, jobs, page, form, posted, typed>>

Booking == [technician : Technicians, manager : Managers, startsAt : Instants]

(* job is the job of the dialog, and NoId in the form or with no dialog.   *)
Form ==
  [job : Jobs \cup {NoId}, technician : Technicians \cup {NoId},
   value : Values \cup {NoValue}]

Empty == [job |-> NoId, technician |-> NoId, value |-> NoValue]

(* What ListJobs returns to a manager.                                     *)
ListJobs(table) ==
  [j \in Jobs |-> IF table[j] # NoJob /\ table[j].manager = Me
                  THEN table[j] ELSE NoJob]

TypeOK ==
  /\ mode \in {"assign", "jobs"}
  /\ jobs \in [Jobs -> Booking \cup {NoJob}]
  /\ page \in [Jobs -> Booking \cup {NoJob}]
  /\ \A j \in Jobs : page[j] # NoJob => page[j].manager = Me /\ jobs[j] # NoJob
  /\ form \in Form
  /\ posted \in [Posts -> Form]
  /\ typed \in [Jobs -> Values \cup {NoValue}]

-----------------------------------------------------------------------------
(* What the page finds available.                                          *)

(* Slip: windows that touch overlap.                                       *)
OverlapsBookedOrTouches(shown, t, start, end) ==
  \E j \in Jobs :
    /\ shown[j] # NoJob /\ shown[j].technician = t
    /\ shown[j].startsAt <= end /\ EndsAt(shown[j].startsAt) >= start

OverlapsBookedJob(shown, t, start, end) ==
  \E j \in Jobs :
    /\ shown[j] # NoJob /\ shown[j].technician = t
    /\ shown[j].startsAt < end /\ EndsAt(shown[j].startsAt) > start

(* isSlotAvailable, and canScheduleAt for a value that is there.           *)
CanScheduleAt(t, shown, v) ==
  LET start == ZonedDateTimeToUTC(v)
      end == EndsAt(start) IN
  /\ IsInsideAvailability(Rules[t], start, end)
  /\ ~OverlapsBookedJob(shown, t, start, end)

DateHasAvailableSlot(t, date) ==
  \E time \in SlotTimes : CanScheduleAt(t, page, At(date, time))

-----------------------------------------------------------------------------
(* Filling in.                                                             *)

SelectedDate == IF form.value = NoValue THEN Today ELSE DateOf(form.value)

SelectedTime == IF form.value = NoValue THEN 600 ELSE TimeOf(form.value)

Fillable == mode = "assign" \/ form.job # NoId

Setting(v) ==
  /\ Fillable
  /\ form' = [form EXCEPT !.value = v]
  /\ UNCHANGED <<mode, jobs, page, posted, typed>>

(* The dialog disables nothing, and so does the form before a technician   *)
(* is selected.                                                            *)
Disabling == mode = "assign" /\ form.technician # NoId

SelectTechnician ==
  \E t \in Technicians :
    /\ Fillable
    /\ form' = [form EXCEPT !.technician = t]
    /\ UNCHANGED <<mode, jobs, page, posted, typed>>

TypeTime == \E v \in Values \cup {NoValue} : Setting(v)

(* A button of the calendar keeps the time, one of the slots the date.     *)
PickDate ==
  \E d \in Dates \cap SelectedDate..(SelectedDate + 6) :
    /\ Disabling => DateHasAvailableSlot(form.technician, d)
    /\ Setting(At(d, SelectedTime))

PickTime ==
  \E t \in SlotTimes :
    /\ Disabling => CanScheduleAt(form.technician, page, At(SelectedDate, t))
    /\ Setting(At(SelectedDate, t))

OpenDialog ==
  \E j \in Jobs :
    /\ mode = "jobs" /\ form = Empty
    /\ page[j] # NoJob
    /\ form' = [job |-> j, technician |-> page[j].technician, value |-> NoValue]
    /\ UNCHANGED <<mode, jobs, page, posted, typed>>

Cancel ==
  /\ mode = "jobs" /\ form # Empty
  /\ form' = Empty
  /\ UNCHANGED <<mode, jobs, page, posted, typed>>

-----------------------------------------------------------------------------
(* Booking.                                                                *)

(* The button of the form asks what the page shows, that of the dialog     *)
(* nothing. While a call is under way both stay enabled, and the form or   *)
(* the dialog can be changed.                                              *)
Send(p) ==
  /\ posted[p] = Empty
  /\ form.technician # NoId /\ form.value # NoValue
  /\ mode = "assign" => CanScheduleAt(form.technician, page, form.value)
  /\ posted' = [posted EXCEPT ![p] = form]
  /\ UNCHANGED <<mode, jobs, page, form, typed>>

(* ensureTechnicianAvailable and ensureNoOverlap.                          *)
Accepts(t, start, except) ==
  /\ start \in AvailableStarts[t]
  /\ ~\E j \in Jobs \ {except} :
       /\ jobs[j] # NoJob /\ jobs[j].technician = t
       /\ Overlaps(jobs[j].startsAt, start)

(* The service carries out a call: a new job, or the row of the job moved. *)
Places(j, manager, t, v) ==
  LET start == ZonedDateTimeToUTC(v) IN
  /\ Accepts(t, start, j)
  /\ jobs' = [jobs EXCEPT ![j] =
       [technician |-> t, manager |-> manager, startsAt |-> start]]
  /\ typed' = [typed EXCEPT ![j] = v]

(* handleAssign clears the form when its call has succeeded, whatever is   *)
(* in it by then; handleReschedule closes the dialog, whichever is open.   *)
Answered(p) ==
  /\ posted[p] # Empty
  /\ \E j \in IF mode = "assign" THEN {i \in Jobs : jobs[i] = NoJob}
              ELSE {posted[p].job} :
       Places(j, Me, posted[p].technician, posted[p].value)
  /\ form' = Empty
  /\ posted' = [posted EXCEPT ![p] = Empty]
  /\ UNCHANGED <<mode, page>>

(* Refused by the service, or failed: everything stays as filled in (what  *)
(* was carried out all the same has been somebody's OthersPlace).          *)
Refused(p) ==
  /\ posted[p] # Empty
  /\ posted' = [posted EXCEPT ![p] = Empty]
  /\ UNCHANGED <<mode, jobs, page, form, typed>>

(* Somebody does the same on another page.                                 *)
OthersPlace ==
  \E m \in Managers, j \in Jobs :
    /\ jobs[j] # NoJob => jobs[j].manager = m
    /\ \E t \in Technicians, v \in Values : Places(j, m, t, v)
    /\ UNCHANGED <<mode, page, form, posted>>

(* refreshJobs.                                                            *)
RefreshJobs ==
  /\ page' = ListJobs(jobs)
  /\ UNCHANGED <<mode, jobs, form, posted, typed>>

Init ==
  /\ mode \in {"assign", "jobs"}
  /\ jobs = [j \in Jobs |-> NoJob]
  /\ page = [j \in Jobs |-> NoJob]
  /\ form = Empty
  /\ posted = [p \in Posts |-> Empty]
  /\ typed = [j \in Jobs |-> NoValue]

FillIn == SelectTechnician \/ TypeTime \/ PickDate \/ PickTime

Next ==
  \/ FillIn \/ OpenDialog \/ Cancel
  \/ \E p \in Posts : Send(p) \/ Answered(p) \/ Refused(p)
  \/ OthersPlace \/ RefreshJobs

Spec == Init /\ [][Next]_vars
=============================================================================
