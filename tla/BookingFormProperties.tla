----------------------- MODULE BookingFormProperties ------------------------
(***************************************************************************)
(* What a manager who books by the form or the dialog may rely on.         *)
(***************************************************************************)
EXTENDS BookingForm

(* What the page shows of a technician's jobs is as committed, though it   *)
(* need not be all of them.                                                *)
UpToDate(t) ==
  \A j \in Jobs : page[j] # NoJob /\ page[j].technician = t => page[j] = jobs[j]

NewJobAccepted(t, v) == Accepts(t, ZonedDateTimeToUTC(v), NoId)

(* The jobs the page does not see.                                         *)
BlockedByAnother(t, v) ==
  \E j \in Jobs :
    /\ jobs[j] # NoJob /\ jobs[j].technician = t /\ jobs[j].manager # Me
    /\ Overlaps(jobs[j].startsAt, ZonedDateTimeToUTC(v))

(* Page and service judge a window alike, each in its own language and in  *)
(* its own terms of local time: a page that shows nothing wrong disables   *)
(* nothing the service would accept, and one that has just been refreshed  *)
(* enables what the service would refuse only because of a job of another  *)
(* manager (schedulingAvailability.ts:34-59, service.go:424-498).          *)
FormAgreesWithService ==
  \A t \in Technicians :
    /\ UpToDate(t) =>
         \A v \in Values : NewJobAccepted(t, v) => CanScheduleAt(t, page, v)
    /\ page = ListJobs(jobs) =>
         \A v \in Values :
           CanScheduleAt(t, page, v) => NewJobAccepted(t, v) \/ BlockedByAnother(t, v)

(* A job is at the local time that was in the field, whatever the clocks   *)
(* do on that day; a time they skip is booked as much later as they jump   *)
(* (schedulingAvailability.ts:61-77, formatScheduleWindow shows it so).    *)
BookedAsTyped ==
  \A j \in Jobs : jobs[j] # NoJob =>
    WallTime(jobs[j].startsAt) =
      typed[j] + IF Skipped(typed[j]) THEN Summer - Standard ELSE 0

(* README.md:82: a job lies inside the local hours of a rule of its        *)
(* technician, not at its ends alone but every minute of it. Only when the *)
(* clocks are set back before it is over can it leave them in between:     *)
(* neither side looks at that (service.go:451-460).                        *)
BookedInsideHours ==
  \A j \in Jobs : jobs[j] # NoJob =>
    LET start == jobs[j].startsAt IN
    \/ start < Back /\ Back <= EndsAt(start)
    \/ \E rule \in Rules[jobs[j].technician] :
         \A t \in start..(EndsAt(start) - 1) :
           /\ Weekday(DateOf(WallTime(t))) = rule.weekday
           /\ TimeOf(WallTime(t)) >= rule.startsAt
           /\ TimeOf(WallTime(t)) < rule.endsAt
=============================================================================
