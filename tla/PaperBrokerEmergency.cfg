\* An entry in flight when the emergency stop is called.
CONSTANTS
  BTC = BTC  ETH = ETH  s1 = s1  s2 = s2
  Symbols = {BTC}
  Signals = {s1, s2}
  SignalOf <- OneSymbolSignals
  Quotes <- MixedQuotes
  FundingTimes = {}
  InitialBalance = 1000
  TakerFeeBps = 100
  SlippageBps = 100
  FundingBps = 100
  Latency = 1
  MaxHold = 2
  TakeProfitR = 2
  RiskBps = 200
  NotionalMultiple = 1
  MaxPositions = 1
  MaxDailyLossBps = 300
  LossLimit = 1
  Cooldown = 2
  MaxDataAge = 1
  MaxSpreadBps = 500
  DayLength = 2
  MaxDelay = 0
  MaxTime = 3
  MaxQuantity = 2
  MaxEmergencies = 1
SPECIFICATION Spec
PROPERTY EmergencyOnlyReduces
