SPECIFICATION FairSpec
CONSTANTS
  Timer = {t1, t2}
  Periodic = {t2}
  Budget = 2
INVARIANTS TypeOK BlockedWhileWaiting SleepsEmptyHanded ReadsWhatIsThere ArrivalIsNoticed
PROPERTIES EveryoneIsServed
