SPECIFICATION Spec
CONSTANTS
  Handlers = {h1, h2}
  Managers = {m1, m2}
  Technicians = {t1, t2}
  Quotes = {q1, q2}
  Jobs = {j1, j2}
  NoId = NoId
  q1 = q1
  q2 = q2
  t1 = t1
  j1 = j1
  OrgOf <- OneOrg
  Instants = {0, 2}
  MinuteAligned = {0, 2}
  WindowLength = 2
  AvailableStarts <- AlwaysAvailable
  PoolSize = 2
  Requests <- Staggered
  MaxRequests = 4
SYMMETRY Alike
INVARIANT DeadlockNeedsReschedule
