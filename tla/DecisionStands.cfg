INIT BoardInit
NEXT BoardNext
CONSTANTS
  NItems = 2
  MaxTyped = 3
  MaxPosts = 3
  MaxCloses = 0
CHECK_DEADLOCK FALSE
INVARIANT DecisionStands
