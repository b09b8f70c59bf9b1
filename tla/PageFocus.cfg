SPECIFICATION Spec
CONSTANTS
  Lists = {"quotes"}
  Commands = {"createQuote"}
  Requests = {r1, r2}
  Calls = {k1}
  MaxVersion = 3
  Capacity = 1
CHECK_DEADLOCK FALSE
INVARIANT FocusRecovers
