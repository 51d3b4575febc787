\* Two groups that log while the pass scans, passes killed anywhere, notes and writes lost.
SPECIFICATION Spec
CONSTANTS
  Groups = {g1, g2}
  MaxEvents = 2
  Period = 2
  MaxLost = 1
INVARIANTS NeverSilent
PROPERTY NoRepost
