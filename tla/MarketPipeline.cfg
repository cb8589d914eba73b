\* One route and two partitions.  A batch can hold two events of one partition around an
\* event of the other, and when a shutdown begins the consumer can wait for a full
\* writer's queue with the queue of the sessions full behind it.
CONSTANTS
  market = market
  btc = btc
  eth = eth
  Routes = {market}
  Partitions = {btc, eth}
  Incoming <- Alternating
  QueueSize = 1
  BatchSize = 3
  MaxAttempt = 1
  MaxMessages = 8
SPECIFICATION LiveSpec
INVARIANTS TypeOK EventsInOrder NothingBehindMarker
PROPERTIES StopEnds FilesNeverStall ImplementsLog
CHECK_DEADLOCK FALSE
