SPECIFICATION FairSpec
CONSTANTS
  u1 = u1
  u2 = u2
  o1 = o1
  o2 = o2
  n1 = n1
  n2 = n2
  c1 = c1
  c2 = c2
  NULL = NULL
  Users <- TwoUsers
  Orders <- OneOrder
  Owner <- OfTheFirst
  Credits <- OneCredit
  Numbers <- TwoNumbers
  Literals <- FourSums
  MaxInt = 511
  MaxNumeric = 255
  Calls <- TwoCalls
  Caller <- OneCallEach
  MaxRetries = 1
  MaxFaults = 2
INVARIANTS
  TypeOK
  NoOverdraft
  PaidOnce
  WithdrawnAsAsked
  AnsweredAsDone
  BalanceTrue
PROPERTIES
  CallsReturn
  ImplementsAccount
