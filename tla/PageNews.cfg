SPECIFICATION FairSpec
CONSTANTS
  Lists = {"notifications"}
  Commands = {"markNotificationRead"}
  Requests = {r1, r2}
  Calls = {k1}
  MaxVersion = 3
  Capacity = 1
CHECK_DEADLOCK FALSE
INVARIANTS
  OwnChangesAreShown
  StaleIsAccountedFor
PROPERTIES
  PageCatchesUp
  SocketStops
