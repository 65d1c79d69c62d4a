\* One job of either kind, three workers of which each may outlive its claim, and
\* every answer of the provider.  The job may stop where it is.
SPECIFICATION Spec
CONSTANTS
  Workers = {w1, w2, w3}
  MaxAttempts = 3
INVARIANTS
  TypeOK
  EveryWriteIsTaken
  ChecksAreDefinite
SYMMETRY Interchangeable
CHECK_DEADLOCK FALSE
