\* The timer's guard passes alone, in its oneshot unit: what becomes of the agents they start?
SPECIFICATION SteadySpec
CONSTANTS
  Groups = {g1, g2}
  Runs = {r1, r2}
  Timers = {t}
  Operators = {}
  Units = {t}
  MaxNudges = 1
  NoFile = NoFile
  Garbled = Garbled
  None = None
PROPERTIES GuardStopsNoSession
