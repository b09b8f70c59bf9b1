SPECIFICATION FairSpec
CONSTANTS
  Browsers = {b1}
  Calls = {c1, c2}
  Sessions = {s1, s2}
  NoSession = NoSession
  TicksPerSecond = 2
  TTL = 2
  MaxNow = 3
INVARIANTS
  AdmittedWereGood
  RefusalsAreDue
  LogoutRevokes
PROPERTY EndedSessionsFallSilent
