\* Two long entries of up to three fills, an emergency stop, a reset and a restart.
CONSTANTS
  BTC = BTC  s1 = s1  s2 = s2
  Symbols = {BTC}
  Signals = {s1, s2}
  SignalOf <- TwoSignals
  Quotes <- ThinQuote
  FundingTimes = {}
  InitialBalance = 1000
  TakerFeeBps = 100
  SlippageBps = 100
  FundingBps = 100
  Latency = 0
  MaxHold = 1
  TakeProfitR = 2
  RiskBps = 300
  NotionalMultiple = 1
  MaxPositions = 1
  MaxDailyLossBps = 300
  LossLimit = 1
  Cooldown = 2
  MaxDataAge = 1
  MaxSpreadBps = 500
  DayLength = 2
  MaxDelay = 0
  MaxTime = 1
  MaxQuantity = 3
  MaxEmergencies = 1
  MaxCrashes = 1
SPECIFICATION SpecStore
INVARIANTS TablesFollowMemory OneFillTorn
CONSTRAINT NoRace
