SPECIFICATION FairSpec
CONSTANTS
  Handlers = {h1, h2, h3}
  Managers = {m1}
  Technicians = {t1, t2}
  Quotes = {q1, q2}
  Jobs = {j1, j2}
  NoId = NoId
  q1 = q1
  q2 = q2
  t1 = t1
  j1 = j1
  OrgOf <- OneOrg
  Instants = {0}
  MinuteAligned = {0}
  WindowLength = 2
  AvailableStarts <- AlwaysAvailable
  PoolSize = 2
  Requests <- Contending
  MaxRequests = 3
INVARIANT NoStandstill
PROPERTY RequestsAreAnswered
