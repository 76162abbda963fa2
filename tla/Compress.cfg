SPECIFICATION FairSpec
CONSTANTS
  BufSize = 3
  Inputs = {0, 1, 4, 7}
  Trailer = 2
INVARIANT
  WholeStream
PROPERTY
  Ends
\* The function returns.
CHECK_DEADLOCK FALSE
