SPECIFICATION Spec
CONSTANTS
  u1 = u1
  u2 = u2
  o1 = o1
  o2 = o2
  n1 = n1
  n2 = n2
  c1 = c1
  c2 = c2
  NULL = NULL
  Users <- TwoUsers
  Orders <- TwoOrders
  Owner <- OneOrderEach
  Credits <- OneCredit
  Numbers <- TwoNumbers
  Literals <- OneSum
  MaxInt = 511
  MaxNumeric = 255
  Calls <- TwoCalls
  Caller <- BothCallsByOne
  MaxRetries = 0
  MaxFaults = 0
INVARIANTS
  NoOverdraft
