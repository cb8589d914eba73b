\* An order, its retry and a close; requests may arrive late.
CONSTANTS
  a = a  b = b  c3 = c3  k1 = k1  k2 = k2
  Calls = {a, b, c3}
  Keys = {k1, k2}
  KeyOf <- RetryKeys
  Opening = {a, b}
SPECIFICATION LiveSpec
CHECK_DEADLOCK FALSE
INVARIANTS TypeOK PlacedOnce LocalFollowsRemote HealthyStreamHears
PROPERTY CallsEnd
