SPECIFICATION Spec
CONSTANTS
  Managers = {m1, m2}
  Technicians = {t1}
  Quotes = {}
  Jobs = {j1}
  NoId = NoId
  OrgOf <- OneOrg
  Instants <- Starts
  MinuteAligned <- Starts
  WindowLength = 120
  AvailableStarts <- StartsInside
  Forward <- SpringForward
  Back <- FallBack
  Standard = 600
  Summer = 660
  Rules <- SundayHours
  Me = m1
  Posts = {p1, p2}
  Today = 20730
  Dates <- Sundays
  SlotTimes = {480, 600}
  TypedTimes = {90, 150, 1380}
SYMMETRY PostSymmetry
INVARIANTS
  BookedAsTyped
  BookedInsideHours
  FormAgreesWithService
