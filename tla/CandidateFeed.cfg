\* The benchmark and a symbol that comes and goes; a window that old bars leave.
CONSTANTS
  btc = btc  alt = alt
  Symbols = {btc, alt}
  Benchmark = btc
  Window = 2
  Limit = 2
  MaxRetries = 1
  MaxMinute = 3
SPECIFICATION LiveSpec
INVARIANTS TypeOK WindowInOrder AnnouncedIsFollowed FollowedIsWarm GapsAreMissed
PROPERTY ScanEnds
CHECK_DEADLOCK FALSE
