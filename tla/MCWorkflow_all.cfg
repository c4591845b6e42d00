CONSTANTS
  w1 = w1  w2 = w2  x1 = x1  x2 = x2  None = None
  Workers = {w1, w2}  Names <- AllNames  Versions = 2  Body <- Versioned
  Signals = {x1, x2}  NameOf <- AllGo  FlakySteps = {"a"}  Retries = 1
  MaxCrashes = 2  MaxFaults = 2
SPECIFICATION SpecAll
INVARIANTS SignalsSafe ReplaysSound
PROPERTIES ImplementsDurableRun HistoryFixed Finishes
CHECK_DEADLOCK FALSE
