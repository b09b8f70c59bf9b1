SPECIFICATION Spec
CONSTANTS
  Drafts = {d1, d2}
  Blank = Blank
  Posts = {p1, p2, p3}
  Quotes = {q1, q2, q3}
  NoQuote = NoQuote
CHECK_DEADLOCK FALSE
INVARIANTS
  DuplicatesAreDue
  SilentRowsAreDue
