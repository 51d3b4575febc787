\* Three messages of two clients over two connections, one per minute, a table of one
\* entry, one restart.
SPECIFICATION FairSpec
CONSTANTS
  Messages = {m1, m2, m3}
  Clients = {k1, k2}
  Conns = {c1, c2}
  PerMinute = 1
  TableMax = 1
  MaxMinute = 1
  MaxRestarts = 1
  None = None
INVARIANTS RateBounded MisreadsPaidFor
PROPERTIES LimitEarned EveryMessageAnswered
CHECK_DEADLOCK FALSE
