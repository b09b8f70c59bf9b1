SPECIFICATION Spec
CONSTANTS
  Managers = {m1, m2}
  Technicians = {}
  Quotes = {}
  Jobs = {}
  NoId = NoId
  m1 = m1
  m2 = m2
  c1 = c1
  c2 = c2
  OrgOf <- OrgPerManager
  Instants = {}
  MinuteAligned = {}
  WindowLength = 2
  AvailableStarts <- NoStarts
  Connections = {c1, c2}
  UserOf <- TwoManagers
  Publishers = {p1, p2}
  Publications <- ToManagers
  MaxPublications = 2
  Capacity = 2
INVARIANTS
  TypeOK
  OrderKept
  OnlyAddressees
  TornDown
