SPECIFICATION FairSpec
CONSTANTS
  Users = {u1, u2}
  Notes = {n1, n2}
  Handlers = {h1, h2}
  NoUser = NoUser
  NoHandler = NoHandler
  Resolution = 2
  MaxNow = 1
INVARIANT CountFollowsList
PROPERTIES
  ImplementsInbox
  CallsAreAnswered
