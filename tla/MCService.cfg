SPECIFICATION ServiceSpec
CONSTANTS
  l1 = l1
  l2 = l2
  p1 = p1
  p2 = p2
  i1 = i1
  i2 = i2
  n1 = n1
  c1 = c1
  c2 = c2
  c3 = c3
  h1 = h1
  h2 = h2
  NoPassword = NoPassword
  NoId = NoId
  Logins <- TwoLogins
  Passwords <- TwoPasswords
  Ids <- TwoIds
  Numbers <- OneNumber
  Calls <- TwoCalls
  Probes <- TwoProbes
  Versions = 2
  MaxRetries = 1
  MaxFaults = 2
SYMMETRY Symmetry
INVARIANTS
  TypeOK
  ServiceTypeOK
  ServesMigrated
  HealthyIsTrue
  OneAccountPerLogin
  SessionsGenuine
  UploadAnswersTrue
PROPERTIES
  ImplementsRegistry
