\* Two guard passes, of the timer and of the dashboard, overlap.
SPECIFICATION QuietSpec
CONSTANTS
  Groups = {g1}
  Runs = {r1, r2, r3}
  Timers = {t, d}
  Operators = {}
  Units = {}
  MaxNudges = 2
  NoFile = NoFile
  Garbled = Garbled
  None = None
INVARIANT AtMostOneAgent
