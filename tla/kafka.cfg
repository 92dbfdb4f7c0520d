\* One worker suffices for what the properties say of a worker: workers share
\* nothing but the topic, which they only read.
SPECIFICATION Spec
CONSTANTS
  j1 = j1
  j2 = j2
  w1 = w1
  Jobs = {j1, j2}
  Workers = {w1}
  MaxFailedSends = 1
  MaxEnds = 1
INVARIANT NothingLost
INVARIANT DeadLetterAfterResult
PROPERTY EveryMessageAnswered
