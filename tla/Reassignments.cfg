SPECIFICATION Spec
CONSTANTS
  Handlers = {h1, h2}
  Managers = {m1}
  Technicians = {t1, t2}
  Quotes = {q1, q2}
  Jobs = {j1, j2}
  NoId = NoId
  OrgOf <- OneOrg
  Instants = {0, 1}
  MinuteAligned = {0, 1}
  WindowLength = 2
  AvailableStarts <- AlwaysAvailable
  PoolSize = 2
  Requests <- Wellformed
  MaxRequests = 4
SYMMETRY Interchangeable
INVARIANTS
  AuditChain
  LockDiscipline
  DecisionsHold
PROPERTIES
  AffectedUsersAreNotified
  AffectedListsAreSignalled
  ImplementsBook
