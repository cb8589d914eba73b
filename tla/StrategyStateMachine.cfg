\* Five prices, pullback ratios that drops of one price step lie below and above.
CONSTANTS
  Prices <- FivePrices
  Cvds <- Falling
  PullbackMin = 30
  PullbackMax = 50
  CooldownBars = 3
  MaxGap = 2
SPECIFICATION Spec
INVARIANTS TypeOK SignalsPaired LongAfterValidPullback StopBehindEntry
PROPERTY FailedIgnitionIsFinal
