\* A funding time that two open positions share.
CONSTANTS
  BTC = BTC  ETH = ETH  s1 = s1  s2 = s2
  Symbols = {BTC, ETH}
  Signals = {s1, s2}
  SignalOf <- TwoSymbolSignals
  Quotes <- DeepQuote
  FundingTimes = {1, 2}
  InitialBalance = 1000
  TakerFeeBps = 100
  SlippageBps = 100
  FundingBps = 100
  Latency = 0
  MaxHold = 5
  TakeProfitR = 2
  RiskBps = 100
  NotionalMultiple = 1
  MaxPositions = 2
  MaxDailyLossBps = 300
  LossLimit = 1
  Cooldown = 2
  MaxDataAge = 1
  MaxSpreadBps = 500
  DayLength = 2
  MaxDelay = 0
  MaxTime = 2
  MaxQuantity = 1
  MaxEmergencies = 0
SPECIFICATION Spec
PROPERTY FundingCharged
