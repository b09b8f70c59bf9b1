SPECIFICATION Spec
CONSTANTS
  Handlers = {h1, h2}
  Managers = {m1, m2, m3}
  Technicians = {t1, t2}
  Quotes = {q1, q2}
  Jobs = {j1, j2}
  NoId = NoId
  m3 = m3
  OrgOf <- TwoOrgs
  Instants = {0, 1, 2, 3}
  MinuteAligned = {0, 1, 2, 3}
  WindowLength = 2
  AvailableStarts <- EarlyRisers
  PoolSize = 2
  Requests <- Mixed
  MaxRequests = 3
SYMMETRY Replicas
INVARIANTS
  NoOverlap
  QuoteJobAgreement
  DuplicateKeyNeverHit
  RefusalsAreTrue
  TenantIsolation
PROPERTIES
  OwnersChangeJobs
