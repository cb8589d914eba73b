\* One long position of three steps, entered and left in parts, and funding times
\* that are announced again and out of order.
CONSTANTS
  BTC = BTC  ETH = ETH  s1 = s1  s2 = s2
  Symbols = {BTC}
  Signals = {s1}
  SignalOf <- OneSignal
  Quotes <- ThinAndDeepQuotes
  FundingTimes = {1, 2}
  InitialBalance = 1000
  TakerFeeBps = 100
  SlippageBps = 100
  FundingBps = 100
  Latency = 0
  MaxHold = 1
  TakeProfitR = 2
  RiskBps = 300
  NotionalMultiple = 1
  MaxPositions = 1
  MaxDailyLossBps = 300
  LossLimit = 2
  Cooldown = 2
  MaxDataAge = 1
  MaxSpreadBps = 500
  DayLength = 2
  MaxDelay = 1
  MaxTime = 2
  MaxQuantity = 3
  MaxEmergencies = 1
SPECIFICATION LiveSpec

PROPERTIES TimeStopCloses FundingChargedOnce ImplementsLedger
