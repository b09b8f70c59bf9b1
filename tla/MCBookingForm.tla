--------------------------- MODULE MCBookingForm ----------------------------
(* Instances of BookingForm for TLC.                                       *)
EXTENDS BookingFormProperties, TLC

PostSymmetry == Permutations(Posts)

(* All starts the values of the field stand for, and what is available.    *)
Starts == {ZonedDateTimeToUTC(v) : v \in Values}

StartsInside ==
  [t \in Technicians |->
    {s \in Starts : \E r \in Rules[t] : WindowInsideAvailability(r, s, s + 120)}]

OneOrg == [x \in Managers \cup Technicians |-> "org1"]

(* The night of a change of the clocks and the morning after it.           *)
SundayHours ==
  [t \in Technicians |-> {[weekday |-> 6, startsAt |-> 60, endsAt |-> 12 * 60]}]

(* 2026-10-04 02:00 becomes 03:00, 2027-04-04 03:00 becomes 02:00.         *)
SpringForward == 29850720
FallBack == SpringForward + 182 * 24 * 60
Sundays == {20730, 20730 + 182}
=============================================================================
