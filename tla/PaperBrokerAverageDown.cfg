\* A stop that the visible bids fill only in part.
CONSTANTS
  BTC = BTC  ETH = ETH  s1 = s1  s2 = s2
  Symbols = {BTC}
  Signals = {s1}
  SignalOf <- OneSignal
  Quotes <- StopQuotes
  FundingTimes = {}
  InitialBalance = 1000
  TakerFeeBps = 100
  SlippageBps = 100
  FundingBps = 100
  Latency = 1
  MaxHold = 2
  TakeProfitR = 2
  RiskBps = 300
  NotionalMultiple = 1
  MaxPositions = 1
  MaxDailyLossBps = 300
  LossLimit = 1
  Cooldown = 2
  MaxDataAge = 1
  MaxSpreadBps = 500
  DayLength = 2
  MaxDelay = 0
  MaxTime = 3
  MaxQuantity = 3
  MaxEmergencies = 0
SPECIFICATION Spec
PROPERTY StopEndsEntry
