SPECIFICATION FairSpec
CONSTANTS
  g1 = g1
  g2 = g2
  Never = Never
  Drainers <- TwoDrainers
  RequestBuffer = 1
  RetryAfters = {0, 1}
  TicksPerMinute = 1000
  CounterModulus = 1000000
  MaxRequests = 3
  MaxTime = 3
INVARIANTS
  TypeOK
  OneDrainer
  MeasuredTrue
PROPERTIES
  DrainersEnd
CHECK_DEADLOCK FALSE
