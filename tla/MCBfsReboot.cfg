CONSTANTS
  Trees <- MCTrees
  Seed <- MCSeed
  Bare <- MCBare
  Garbled <- MCGarbled
  Cap = 3
  Blank = blank
  Faults = {}
SPECIFICATION Spec
PROPERTY FilesSurviveReboots
