SPECIFICATION FairSpec
CONSTANTS
  o1 = o1
  d1 = d1
  d2 = d2
  g1 = g1
  NoOrder = NoOrder
  NoAccrual = NoAccrual
  BadAccrual = BadAccrual
  NULL = NULL
  Orders <- OneOrder
  Desks <- OneDesk
  Ticks <- OneTick
  Amounts <- OneAmount
  MaxCrashes = 0
PROPERTIES
  CreditArrives
CHECK_DEADLOCK FALSE
