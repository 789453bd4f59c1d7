\* The present connection and one that the server has not yet given up; two
\* breaks, so that a retry can break too; a code of one use, which a break spends.
CONSTANTS
  s1 = s1
  s2 = s2
  Conn = {s1, s2}
  NoConn = NoConn
  MaxUses = 1
  MaxRuns = 1
  MaxBreaks = 2
  MaxBlocks = 1
SPECIFICATION FairSpec
INVARIANTS
  RetriesAreHarmless
PROPERTIES
  SessionBackOrEnds
  QuitsWhenTold
\* Programs, breaks and blocks run out.
CHECK_DEADLOCK FALSE
