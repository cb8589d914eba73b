\* A reset requested while an entry is in flight.
CONSTANTS
  BTC = BTC  s1 = s1
  Symbols = {BTC}
  Signals = {s1}
  SignalOf <- OneSignal
  Quotes <- DeepQuote
  FundingTimes = {}
  InitialBalance = 1000
  TakerFeeBps = 100
  SlippageBps = 100
  FundingBps = 100
  Latency = 1
  MaxHold = 2
  TakeProfitR = 2
  RiskBps = 200
  NotionalMultiple = 1
  MaxPositions = 1
  MaxDailyLossBps = 300
  LossLimit = 1
  Cooldown = 2
  MaxDataAge = 1
  MaxSpreadBps = 500
  DayLength = 2
  MaxDelay = 0
  MaxTime = 3
  MaxQuantity = 2
  MaxEmergencies = 1
SPECIFICATION SpecRace
INVARIANT ResetOnlyFlat
