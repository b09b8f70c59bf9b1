----------------------------- MODULE LocalTime ------------------------------
(***************************************************************************)
(* Sydney time over one summer, with both changes of the clocks: the       *)
(* conversions of frontend/lib/schedulingAvailability.ts and the checks of *)
(* availability on both sides, its isInsideAvailability and                *)
(* windowInsideAvailability of backend/internal/scheduling/service.go.     *)
(*                                                                         *)
(* An instant is a number of minutes since 1970-01-01T00:00Z, a wall time  *)
(* the number of minutes that a clock showing it would be away from        *)
(* 1970-01-01 00:00. What Date.UTC makes of the parts of a date is a wall  *)
(* time read as an instant.                                                *)
(***************************************************************************)
EXTENDS Integers

CONSTANTS
  Forward,     \* the instant at which the clocks go forward
  Back,        \* the instant at which they are set back
  Standard,    \* minutes they are ahead of UTC outside summer
  Summer       \* and in summer

(* The zone lies east of Greenwich, and summer is not over within hours.   *)
ASSUME ZoneAssumption ==
  /\ Forward \in Int /\ Back \in Int
  /\ Standard \in Nat /\ Summer \in Nat /\ Standard < Summer
  /\ Forward + Summer <= Back

OffsetAt(t) == IF Forward <= t /\ t < Back THEN Summer ELSE Standard

WallTime(t) == t + OffsetAt(t)

(* The wall times the clocks skip.                                         *)
Skipped(w) == Forward + Standard <= w /\ w < Forward + Summer

DayLength == 24 * 60

DateOf(w) == w \div DayLength

TimeOf(w) == w % DayLength

(* 1970-01-01 was a Thursday; Monday is 0.                                 *)
Weekday(date) == (date + 3) % 7

(* Slip: the offset at the guess is taken for the offset at the result.    *)
ZonedDateTimeToUTCAtOnce(w) == w - OffsetAt(w)

(* The second pass takes the offset at the result of the first.            *)
ZonedDateTimeToUTC(w) ==
  LET firstPass == w - OffsetAt(w) IN w - OffsetAt(firstPass)

-----------------------------------------------------------------------------
(* Rules of a technician: a weekday and the times of day between which he  *)
(* can work.                                                               *)

AvailabilityRule == [weekday : 0..6, startsAt : 0..DayLength, endsAt : 0..DayLength]

(* Slip: the dates are not compared.                                       *)
WindowInsideOnAnyDate(rule, startsAt, endsAt) ==
  LET localStart == WallTime(startsAt)
      localEnd == WallTime(endsAt) IN
  /\ rule.weekday = Weekday(DateOf(localStart))
  /\ rule.startsAt <= TimeOf(localStart)
  /\ rule.endsAt >= TimeOf(localEnd)

(* What the service asks of one rule.                                      *)
WindowInsideAvailability(rule, startsAt, endsAt) ==
  LET localStart == WallTime(startsAt)
      localEnd == WallTime(endsAt) IN
  /\ DateOf(localStart) = DateOf(localEnd)
  /\ rule.weekday = Weekday(DateOf(localStart))
  /\ rule.startsAt <= TimeOf(localStart)
  /\ rule.endsAt >= TimeOf(localEnd)

(* What the page asks of all rules of a technician.                        *)
IsInsideAvailability(rules, startsAt, endsAt) ==
  LET start == WallTime(startsAt)
      end == WallTime(endsAt) IN
  /\ rules # {}
  /\ DateOf(start) = DateOf(end)
  /\ \E rule \in rules :
       /\ rule.weekday = Weekday(DateOf(start))
       /\ rule.startsAt <= TimeOf(start)
       /\ rule.endsAt >= TimeOf(end)
=============================================================================
