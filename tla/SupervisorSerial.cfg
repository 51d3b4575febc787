\* One invoker at a time, any command but stop, two groups, reboots.
SPECIFICATION QuietSpec
CONSTANTS
  Groups = {g1, g2}
  Runs = {r1, r2}
  Timers = {}
  Operators = {o}
  Units = {}
  MaxNudges = 2
  NoFile = NoFile
  Garbled = Garbled
  None = None
SYMMETRY Symmetry
INVARIANTS AtMostOneAgent AgentsRecorded
PROPERTIES OneAgentPromise
