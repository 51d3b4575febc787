\* One group; passes run for ever and are not killed.
SPECIFICATION FairSpec
CONSTANTS
  Groups = {g1}
  MaxEvents = 1
  Period = 2
  MaxLost = 1
PROPERTY BlockedIsTold
