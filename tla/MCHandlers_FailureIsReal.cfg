SPECIFICATION Spec
CONSTANTS
  l1 = l1
  l2 = l2
  p1 = p1
  p2 = p2
  i1 = i1
  i2 = i2
  n1 = n1
  c1 = c1
  c2 = c2
  c3 = c3
  NoPassword = NoPassword
  NoId = NoId
  Logins <- TwoLogins
  Passwords <- TwoPasswords
  Ids <- TwoIds
  Numbers <- OneNumber
  Calls <- ThreeCalls
  MaxRetries = 1
  MaxFaults = 0
SYMMETRY Symmetry
INVARIANTS
  FailureIsReal
