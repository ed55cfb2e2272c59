SPECIFICATION FairSpec
CONSTANTS
  Timer = {t1}
  Periodic = {}
  Budget = 1
PROPERTIES AllEventsDispatched
