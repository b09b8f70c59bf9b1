------------------------- MODULE BookingFormProofs --------------------------
(***************************************************************************)
(* Proofs about the booking form: what is booked is what was typed, it     *)
(* lies inside the technician's hours, and the page and the service judge  *)
(* alike, for any zone east of Greenwich, rules, dates and numbers of jobs.*)
(***************************************************************************)
EXTENDS BookingFormProperties, TLAPS

-----------------------------------------------------------------------------
(* Local time.                                                             *)

(* The two passes find the instant at which the clocks show the wall time; *)
(* one that is skipped is moved by the jump.                               *)
LEMMA RoundTrip ==
  ASSUME NEW w \in Int
  PROVE  /\ ZonedDateTimeToUTC(w) \in Int
         /\ WallTime(ZonedDateTimeToUTC(w)) =
              w + IF Skipped(w) THEN Summer - Standard ELSE 0
BY ZoneAssumption DEF ZonedDateTimeToUTC, WallTime, OffsetAt, Skipped

(* Unless they are set back meanwhile, the clocks only go forward.         *)
LEMMA ClocksGoForward ==
  ASSUME NEW s \in Int, NEW t \in Int, s < t,
         ~(s < Back /\ Back <= t)
  PROVE  WallTime(s) \in Int /\ WallTime(t) \in Int /\ WallTime(s) < WallTime(t)
BY ZoneAssumption DEF WallTime, OffsetAt

LEMMA Calendar ==
  ASSUME NEW w \in Int
  PROVE  /\ DateOf(w) \in Int
         /\ TimeOf(w) \in 0..(DayLength - 1)
         /\ w = DateOf(w) * DayLength + TimeOf(w)
BY DEF DateOf, TimeOf, DayLength

LEMMA CalendarOfParts ==
  ASSUME NEW d \in Int, NEW t \in 0..(DayLength - 1)
  PROVE  DateOf(At(d, t)) = d /\ TimeOf(At(d, t)) = t /\ At(d, t) \in Int
BY DEF DateOf, TimeOf, DayLength, At

(* Between two wall times of one day there are only times of that day.     *)
LEMMA Between ==
  ASSUME NEW a \in Int, NEW b \in Int, NEW w \in Int,
         a <= w, w <= b, DateOf(a) = DateOf(b)
  PROVE  /\ DateOf(w) = DateOf(a)
         /\ TimeOf(a) <= TimeOf(w)
         /\ TimeOf(w) <= TimeOf(b)
         /\ w # b => TimeOf(w) < TimeOf(b)
BY DEF DateOf, TimeOf, DayLength

(* A window a rule admits is inside it throughout.                         *)
LEMMA InsideThroughout ==
  ASSUME NEW rule \in AvailabilityRule, NEW s \in Int,
         WindowInsideAvailability(rule, s, EndsAt(s)),
         ~(s < Back /\ Back <= EndsAt(s)),
         NEW t \in s..(EndsAt(s) - 1)
  PROVE  /\ Weekday(DateOf(WallTime(t))) = rule.weekday
         /\ TimeOf(WallTime(t)) >= rule.startsAt
         /\ TimeOf(WallTime(t)) < rule.endsAt
<1> DEFINE a == WallTime(s)
           w == WallTime(t)
           b == WallTime(EndsAt(s))
<1>1. /\ EndsAt(s) \in Int /\ s < EndsAt(s)
      /\ t \in Int /\ s <= t /\ t < EndsAt(s)
  BY TimeAssumption DEF EndsAt
<1>2. a \in Int /\ b \in Int /\ a < b
  BY <1>1, ClocksGoForward
<1>3. w \in Int /\ w < b
  <2>1. ~(t < Back /\ Back <= EndsAt(s))
    BY <1>1, ZoneAssumption
  <2> QED
    BY <1>1, <2>1, ClocksGoForward
<1>4. a <= w
  <2>1. CASE s = t
    BY <2>1, <1>2
  <2>2. CASE s < t
    <3>1. ~(s < Back /\ Back <= t)
      BY <1>1, ZoneAssumption
    <3>2. a < w
      BY <2>2, <3>1, <1>1, ClocksGoForward
    <3> HIDE DEF a, w
    <3> QED
      BY <3>2, <1>2, <1>3
  <2> QED
    BY <2>1, <2>2, <1>1
<1>5. /\ DateOf(a) = DateOf(b)
      /\ rule.weekday = Weekday(DateOf(a))
      /\ rule.startsAt <= TimeOf(a)
      /\ rule.endsAt >= TimeOf(b)
  BY DEF WindowInsideAvailability
<1> HIDE DEF a, b, w
<1>6. DateOf(w) = DateOf(a) /\ TimeOf(a) <= TimeOf(w) /\ TimeOf(w) < TimeOf(b)
  <2>1. a \in Int /\ b \in Int /\ w \in Int /\ a <= w /\ w <= b /\ w # b
    BY <1>2, <1>3, <1>4
  <2>2. DateOf(a) = DateOf(b)
    BY <1>5
  <2> QED
    BY <2>1, <2>2, Between
<1>7. /\ TimeOf(a) \in Int /\ TimeOf(b) \in Int /\ TimeOf(w) \in Int
      /\ rule.startsAt \in Int /\ rule.endsAt \in Int
  <2>1. /\ TimeOf(a) \in Int /\ TimeOf(b) \in Int /\ TimeOf(w) \in Int
    BY <1>2, <1>3 DEF DayLength, TimeOf
  <2>2. rule.startsAt \in 0..DayLength /\ rule.endsAt \in 0..DayLength
    BY DEF AvailabilityRule
  <2> QED
    BY <2>1, <2>2
<1>8. /\ Weekday(DateOf(w)) = rule.weekday
      /\ TimeOf(w) >= rule.startsAt /\ TimeOf(w) < rule.endsAt
  BY <1>5, <1>6, <1>7
<1> QED
  BY <1>8 DEF w

-----------------------------------------------------------------------------
(* The states of the form.                                                 *)

(* A job is at the instant its value stands for, and the service has found *)
(* that available.                                                         *)
Placed ==
  \A j \in Jobs : jobs[j] # NoJob =>
    /\ typed[j] \in Values
    /\ jobs[j].startsAt = ZonedDateTimeToUTC(typed[j])
    /\ jobs[j].startsAt \in AvailableStarts[jobs[j].technician]

(* The dialog holds nothing when it is closed, and a call names what it    *)
(* needs.                                                                  *)
Filled ==
  /\ mode = "jobs" /\ form.job = NoId => form = Empty
  /\ \A p \in Posts : posted[p] # Empty =>
       /\ posted[p].technician \in Technicians
       /\ posted[p].value \in Values
       /\ mode = "jobs" => posted[p].job \in Jobs

IInv == TypeOK /\ Placed /\ Filled

LEMMA ValuesAreParts ==
  ASSUME NEW v \in Values
  PROVE  /\ v \in Int
         /\ DateOf(v) \in Dates
         /\ TimeOf(v) \in SlotTimes \cup TypedTimes
         /\ \A d \in Dates : At(d, TimeOf(v)) \in Values
         /\ \A t \in SlotTimes : At(DateOf(v), t) \in Values
         /\ ZonedDateTimeToUTC(v) \in Instants
<1>1. PICK d \in Dates, t \in SlotTimes \cup TypedTimes : v = At(d, t)
  BY DEF Values
<1>2. d \in Int /\ t \in 0..(DayLength - 1)
  BY FormAssumption
<1>3. v \in Int /\ DateOf(v) = d /\ TimeOf(v) = t
  BY <1>1, <1>2, CalendarOfParts
<1>4. ZonedDateTimeToUTC(v) \in Instants
  BY FormAssumption
<1> QED
  BY <1>3, <1>4 DEF Values

LEMMA NoJobIsNoBooking == \A b \in Booking : b # NoJob
BY DEF Booking, NoJob

(* A value set in the form keeps it well typed.                            *)
LEMMA SettingTypes ==
  ASSUME TypeOK, NEW v \in Values \cup {NoValue}, Setting(v)
  PROVE  TypeOK'
<1>1. form' \in Form
  BY DEF TypeOK, Setting, Form
<1> QED
  BY <1>1 DEF TypeOK, Setting

LEMMA PickedValues ==
  ASSUME TypeOK
  PROVE  /\ \A d \in Dates : At(d, SelectedTime) \in Values
         /\ \A t \in SlotTimes : At(SelectedDate, t) \in Values
<1>0. form.value \in Values \cup {NoValue}
  BY DEF TypeOK, Form
<1>1. CASE form.value = NoValue
  <2>1. SelectedDate = Today /\ SelectedTime = 600
    BY <1>1 DEF SelectedDate, SelectedTime
  <2>2. Today \in Dates /\ 600 \in SlotTimes
    BY FormAssumption
  <2> QED
    BY <2>1, <2>2 DEF Values
<1>2. CASE form.value # NoValue
  <2>1. SelectedDate = DateOf(form.value) /\ SelectedTime = TimeOf(form.value)
    BY <1>2 DEF SelectedDate, SelectedTime
  <2> QED
    BY <1>0, <1>2, <2>1, ValuesAreParts
<1> QED
  BY <1>1, <1>2

(* What the service does when it accepts a call.                           *)
LEMMA PlacesKeeps ==
  ASSUME IInv, NEW j \in Jobs, NEW m \in Managers, NEW t \in Technicians,
         NEW v \in Values, Places(j, m, t, v),
         UNCHANGED <<mode, page>>
  PROVE  /\ jobs' \in [Jobs -> Booking \cup {NoJob}]
         /\ typed' \in [Jobs -> Values \cup {NoValue}]
         /\ \A i \in Jobs : page'[i] # NoJob => page'[i].manager = Me /\ jobs'[i] # NoJob
         /\ Placed'
<1> DEFINE row == [technician |-> t, manager |-> m, startsAt |-> ZonedDateTimeToUTC(v)]
<1>1. row \in Booking
  BY ValuesAreParts DEF Booking
<1>2. jobs' = [jobs EXCEPT ![j] = row] /\ typed' = [typed EXCEPT ![j] = v]
  BY DEF Places
<1>3. ZonedDateTimeToUTC(v) \in AvailableStarts[t]
  BY DEF Places, Accepts
<1>4. row # NoJob
  BY <1>1, NoJobIsNoBooking
<1>5. /\ row.technician = t /\ row.startsAt = ZonedDateTimeToUTC(v)
  OBVIOUS
<1> HIDE DEF row
<1>6. /\ jobs' \in [Jobs -> Booking \cup {NoJob}]
      /\ typed' \in [Jobs -> Values \cup {NoValue}]
  BY <1>1, <1>2 DEF IInv, TypeOK
<1>7. \A i \in Jobs : jobs'[i] = IF i = j THEN row ELSE jobs[i]
  BY <1>2 DEF IInv, TypeOK
<1>8. \A i \in Jobs : typed'[i] = IF i = j THEN v ELSE typed[i]
  BY <1>2 DEF IInv, TypeOK
<1>9. \A i \in Jobs : page'[i] # NoJob => page'[i].manager = Me /\ jobs'[i] # NoJob
  BY <1>7, <1>4 DEF IInv, TypeOK
<1>10. Placed'
  BY <1>3, <1>5, <1>7, <1>8 DEF IInv, Placed
<1> QED
  BY <1>6, <1>9, <1>10

LEMMA FormInit == Init => IInv
BY DEF Init, IInv, TypeOK, Placed, Filled, Empty, Form, NoValue

LEMMA FormStep == IInv /\ [Next]_vars => IInv'
<1> SUFFICES ASSUME IInv, [Next]_vars
             PROVE  IInv'
  OBVIOUS
<1> USE DEF IInv
<1>0. Empty \in Form
  BY DEF Empty, Form
<1>1. CASE SelectTechnician
  <2>1. form' \in Form
    BY <1>1 DEF SelectTechnician, TypeOK, Form
  <2>2. Filled'
    BY <1>1 DEF SelectTechnician, Fillable, Filled, TypeOK, Form
  <2> QED
    BY <1>1, <2>1, <2>2 DEF SelectTechnician, TypeOK, Placed
<1>a. ASSUME NEW v \in Values \cup {NoValue}, Setting(v)
      PROVE  IInv'
  <2>1. Filled'
    BY <1>a DEF Setting, Fillable, Filled, TypeOK, Form
  <2> QED
    BY <1>a, <2>1, SettingTypes DEF Setting, Placed
<1>2. CASE TypeTime
  BY <1>2, <1>a DEF TypeTime
<1>3. CASE PickDate
  <2>1. PICK d \in Dates : Setting(At(d, SelectedTime))
    BY <1>3 DEF PickDate
  <2> QED
    BY <2>1, <1>a, PickedValues
<1>4. CASE PickTime
  <2>1. PICK t \in SlotTimes : Setting(At(SelectedDate, t))
    BY <1>4 DEF PickTime
  <2> QED
    BY <2>1, <1>a, PickedValues
<1>5. CASE OpenDialog
  <2>1. PICK j \in Jobs :
          /\ page[j] # NoJob
          /\ form' = [job |-> j, technician |-> page[j].technician, value |-> NoValue]
    BY <1>5 DEF OpenDialog
  <2>2. page[j].technician \in Technicians
    BY <2>1 DEF TypeOK, Booking
  <2>3. form' \in Form
    BY <2>1, <2>2 DEF Form
  <2>4. form'.job # NoId
    BY <2>1, RowsAssumption DEF Rows
  <2> QED
    BY <1>5, <2>3, <2>4 DEF OpenDialog, TypeOK, Placed, Filled
<1>6. CASE Cancel
  BY <1>6, <1>0 DEF Cancel, TypeOK, Placed, Filled
<1>7. ASSUME NEW p \in Posts, Send(p)
      PROVE  IInv'
  <2>1. /\ form.technician \in Technicians /\ form.value \in Values
        /\ form.job \in Jobs \cup {NoId}
    BY <1>7 DEF Send, TypeOK, Form
  <2>2. mode = "jobs" => form.job \in Jobs
    BY <1>7, <2>1 DEF Send, Filled, Empty
  <2>3. posted' \in [Posts -> Form] /\ Filled'
    BY <1>7, <2>1, <2>2 DEF Send, TypeOK, Filled
  <2> QED
    BY <1>7, <2>3 DEF Send, TypeOK, Placed
<1>b. ASSUME NEW p \in Posts, posted' = [posted EXCEPT ![p] = Empty],
             form' \in {form, Empty}, mode' = mode
      PROVE  form' \in Form /\ posted' \in [Posts -> Form] /\ Filled'
  BY <1>b, <1>0 DEF TypeOK, Filled
<1>8. ASSUME NEW p \in Posts, Answered(p)
      PROVE  IInv'
  <2>1. posted[p] # Empty
    BY <1>8 DEF Answered
  <2>2. PICK j \in IF mode = "assign" THEN {i \in Jobs : jobs[i] = NoJob}
                   ELSE {posted[p].job} :
          Places(j, Me, posted[p].technician, posted[p].value)
    BY <1>8 DEF Answered
  <2>3. j \in Jobs
    BY <2>1, <2>2 DEF Filled, TypeOK
  <2>4. /\ UNCHANGED <<mode, page>> /\ form' = Empty
        /\ posted' = [posted EXCEPT ![p] = Empty]
    BY <1>8 DEF Answered
  <2>5. /\ jobs' \in [Jobs -> Booking \cup {NoJob}]
        /\ typed' \in [Jobs -> Values \cup {NoValue}]
        /\ \A i \in Jobs : page'[i] # NoJob => page'[i].manager = Me /\ jobs'[i] # NoJob
        /\ Placed'
    BY <2>1, <2>2, <2>3, <2>4, PlacesKeeps, FormAssumption DEF Filled
  <2>6. form' \in Form /\ posted' \in [Posts -> Form] /\ Filled'
    BY <1>b, <2>4
  <2> QED
    BY <2>4, <2>5, <2>6 DEF TypeOK
<1>9. ASSUME NEW p \in Posts, Refused(p)
      PROVE  IInv'
  <2>1. form' \in Form /\ posted' \in [Posts -> Form] /\ Filled'
    BY <1>b, <1>9 DEF Refused
  <2> QED
    BY <1>9, <2>1 DEF Refused, TypeOK, Placed
<1>10. CASE OthersPlace
  <2>1. PICK m \in Managers, j \in Jobs, t \in Technicians, v \in Values :
          Places(j, m, t, v) /\ UNCHANGED <<mode, page, form, posted>>
    BY <1>10 DEF OthersPlace
  <2>2. /\ jobs' \in [Jobs -> Booking \cup {NoJob}]
        /\ typed' \in [Jobs -> Values \cup {NoValue}]
        /\ \A i \in Jobs : page'[i] # NoJob => page'[i].manager = Me /\ jobs'[i] # NoJob
        /\ Placed'
    BY <2>1, PlacesKeeps
  <2> QED
    BY <2>1, <2>2 DEF TypeOK, Filled
<1>11. CASE RefreshJobs
  <2>1. page' \in [Jobs -> Booking \cup {NoJob}]
    BY <1>11 DEF RefreshJobs, ListJobs, TypeOK
  <2>2. \A j \in Jobs : page'[j] # NoJob => page'[j].manager = Me /\ jobs'[j] # NoJob
    BY <1>11 DEF RefreshJobs, ListJobs
  <2> QED
    BY <1>11, <2>1, <2>2 DEF RefreshJobs, TypeOK, Placed, Filled
<1>12. CASE UNCHANGED vars
  BY <1>12 DEF vars, TypeOK, Placed, Filled
<1> QED
  BY <1>1, <1>2, <1>3, <1>4, <1>5, <1>6, <1>7, <1>8, <1>9, <1>10, <1>11, <1>12
  DEF Next, FillIn

LEMMA FormInvariant == Spec => []IInv
BY FormInit, FormStep, PTL DEF Spec

-----------------------------------------------------------------------------
(* The results.                                                            *)

(* Every reachable state of the form is well typed; the page shows nobody  *)
(* else's jobs (ManagerWorkspace.tsx, query_service.go:26).                *)
THEOREM FormTypeCorrect == Spec => []TypeOK
BY FormInvariant, PTL DEF IInv

(* What is booked shows as what was typed (schedulingAvailability.ts:61).  *)
THEOREM JobsAreAsTyped == Spec => []BookedAsTyped
<1>1. ASSUME IInv PROVE BookedAsTyped
  BY <1>1, ValuesAreParts, RoundTrip DEF IInv, Placed, BookedAsTyped
<1> QED
  BY <1>1, FormInvariant, PTL

(* A job is inside its technician's hours (service.go:451-460).            *)
THEOREM JobsAreInsideHours == Spec => []BookedInsideHours
<1>1. ASSUME IInv, NEW j \in Jobs, jobs[j] # NoJob,
             ~(jobs[j].startsAt < Back /\ Back <= EndsAt(jobs[j].startsAt))
      PROVE  \E rule \in Rules[jobs[j].technician] :
               \A t \in jobs[j].startsAt..(EndsAt(jobs[j].startsAt) - 1) :
                 /\ Weekday(DateOf(WallTime(t))) = rule.weekday
                 /\ TimeOf(WallTime(t)) >= rule.startsAt
                 /\ TimeOf(WallTime(t)) < rule.endsAt
  <2> DEFINE s == jobs[j].startsAt
             tech == jobs[j].technician
  <2>1. tech \in Technicians /\ s \in Int /\ s \in AvailableStarts[tech]
    BY <1>1, TimeAssumption DEF IInv, TypeOK, Booking, Placed
  <2>2. PICK rule \in Rules[tech] : WindowInsideAvailability(rule, s, EndsAt(s))
    BY <2>1, AvailabilityAssumption
  <2>3. rule \in AvailabilityRule
    BY <2>1, FormAssumption
  <2> QED
    BY <1>1, <2>1, <2>2, <2>3, InsideThroughout
<1>2. IInv => BookedInsideHours
  BY <1>1 DEF BookedInsideHours
<1> QED
  BY <1>2, FormInvariant, PTL

(* The page and the service agree about windows                            *)
(* (schedulingAvailability.ts:34-59, service.go:424-498).                  *)
THEOREM PageAndServiceAgree == Spec => []FormAgreesWithService
<1>1. ASSUME IInv, NEW t \in Technicians, NEW v \in Values
      PROVE  /\ UpToDate(t) /\ NewJobAccepted(t, v) => CanScheduleAt(t, page, v)
             /\ page = ListJobs(jobs) /\ CanScheduleAt(t, page, v)
                => NewJobAccepted(t, v) \/ BlockedByAnother(t, v)
  <2> DEFINE start == ZonedDateTimeToUTC(v)
  <2>1. start \in Instants
    BY ValuesAreParts
  <2>2. start \in AvailableStarts[t] <=>
          IsInsideAvailability(Rules[t], start, EndsAt(start))
    BY <2>1, AvailabilityAssumption DEF IsInsideAvailability, WindowInsideAvailability
  <2>3. NoId \notin Jobs
    BY RowsAssumption DEF Rows
  <2>4. ASSUME UpToDate(t), OverlapsBookedJob(page, t, start, EndsAt(start))
        PROVE  \E j \in Jobs \ {NoId} :
                 /\ jobs[j] # NoJob /\ jobs[j].technician = t
                 /\ Overlaps(jobs[j].startsAt, start)
    BY <1>1, <2>3, <2>4 DEF UpToDate, OverlapsBookedJob, Overlaps, IInv, TypeOK
  <2>5. ASSUME page = ListJobs(jobs),
               NEW j \in Jobs \ {NoId},
               jobs[j] # NoJob, jobs[j].technician = t,
               Overlaps(jobs[j].startsAt, start)
        PROVE  \/ OverlapsBookedJob(page, t, start, EndsAt(start))
               \/ BlockedByAnother(t, v)
    <3>1. CASE jobs[j].manager = Me
      <4>1. page[j] = jobs[j]
        BY <2>5, <3>1 DEF ListJobs
      <4> QED
        BY <2>5, <4>1 DEF OverlapsBookedJob, Overlaps
    <3>2. CASE jobs[j].manager # Me
      BY <2>5, <3>2 DEF BlockedByAnother
    <3> QED
      BY <3>1, <3>2
  <2> QED
    BY <2>2, <2>4, <2>5 DEF NewJobAccepted, CanScheduleAt, Accepts
<1>2. IInv => FormAgreesWithService
  BY <1>1 DEF FormAgreesWithService
<1> QED
  BY <1>2, FormInvariant, PTL
=============================================================================
