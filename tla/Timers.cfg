SPECIFICATION Spec
CONSTANTS
  Second = 2
  Handler = {h1, h2}
  Block = {b1, b2, b3}
  NIL = NIL
  Shortest = 3
  Day = 1
  Delay = {0, 1}
  Interval = {1}
  Date <- MCOneDate
  Horizon = 3
INVARIANTS TypeOK TimerHandlersAlive OneEventPerTimer
PROPERTIES NeverEarly SkipsMissedPeriods SleepsToNextTimer OthersKeepTheirTimers
