\* The timer in its oneshot unit and an operator who overlap, crash, stop the team, run
\* out of disk; one group.
SPECIFICATION HSpec
CONSTANTS
  Groups = {g1}
  Runs = {r1, r2}
  Timers = {t}
  Operators = {o}
  Units = {t}
  MaxNudges = 1
  NoFile = NoFile
  Garbled = Garbled
  None = None
SYMMETRY PidSymmetry
INVARIANTS TypeOK NudgesCapped OnlyStraysEscape
