\* Input of at most 9 tokens, two simultaneous fragments.
CONSTANTS
  Root = root
  Stacks = {root, f1, f2}
  MaxTokens = 9
SPECIFICATION Spec
INVARIANTS
  TypeOK
  Lockstep
  StopsAtValueEnd
  VerdictsMatchInput
PROPERTIES
  FragmentLifetime
  Terminates
  ReadsOneValue
CHECK_DEADLOCK FALSE
