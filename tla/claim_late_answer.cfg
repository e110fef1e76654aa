SPECIFICATION Spec
CONSTANTS
  b1 = b1 b2 = b2 b3 = b3 b4 = b4 d1 = d1 d2 = d2 k1 = k1 k2 = k2 r1 = r1 r2 = r2 g1 = g1 g2 = g2
  Boots = {b1, b2, b3, b4}
  Devices = {d1, d2}
  Tokens = {k1, k2}
  DeviceOf <- DeviceOfBoot
  TokenOf <- TokenOfBoot
  Requests = {r1, r2}
  Pages = {g1, g2}
  Loads <- LateAnswer
  MaxHttp = 1
  NoDevice = NoDevice
  Removed = Removed
  MaxConns = 3
  MaxCuts = 1
INVARIANT AnswersOwn
CHECK_DEADLOCK FALSE
