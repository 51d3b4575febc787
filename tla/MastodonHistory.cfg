\* Two posts with a notification each, of which the newer is deleted.
SPECIFICATION Spec
CONSTANTS
  Notices = {a, b}
  Mentions = {a, b}
  FirstId = 0
  Limit = 2
  MaxDeletes = 1
  MaxResets = 0
  MaxCrashes = 0
  None = None
INVARIANT HistoryIgnored
CHECK_DEADLOCK FALSE
