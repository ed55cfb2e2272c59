SPECIFICATION Spec
CONSTANTS
  Second = 2
  Handler = {h1, h2}
  Block = {b1, b2}
  NIL = NIL
  Shortest = 1
  Day = 1
  Delay = {0, 1}
  Interval = {0}
  Date = {}
  Horizon = 2
PROPERTIES OthersKeepTheirTimers
