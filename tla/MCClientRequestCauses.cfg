\* The cause of a local error.
CONSTANTS
  Calls = {c1, c2}
  Conns = 1
  Replies <- MCReplies
SPECIFICATION Safety
INVARIANT CausesRecoverable
