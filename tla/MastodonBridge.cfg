\* Three notifications, whose ids pass from 9 to 10, pages of two; one crash, one
\* deletion, one renumbering.
SPECIFICATION FairSpec
CONSTANTS
  Notices = {a, b, c}
  Mentions = {a, b}
  FirstId = 8
  Limit = 2
  MaxDeletes = 1
  MaxResets = 1
  MaxCrashes = 1
  None = None
INVARIANTS RepliesBounded
PROPERTY MentionsAsked
CHECK_DEADLOCK FALSE
