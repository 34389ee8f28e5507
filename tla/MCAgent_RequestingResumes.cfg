SPECIFICATION FairSpec
CONSTANTS
  w1 = w1
  w2 = w2
  o1 = o1
  NoOrder = NoOrder
  NoAccrual = NoAccrual
  BadAccrual = BadAccrual
  Orders <- OneOrder
  Workers <- MCWorkers
  Amounts <- MCAmounts
  RequestBuffer = 1
  MaxRequestCount = 1
  RateLimits = {1, 4}
  MeasuredRPMs <- MCMeasuredRPMs
  CounterModulus = 2
PROPERTIES
  RequestingResumes
CHECK_DEADLOCK FALSE
