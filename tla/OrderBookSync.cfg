\* Two interchangeable price levels, three updates, one reconnection that repeats events.
CONSTANTS
  p1 = p1  p2 = p2
  Prices = {p1, p2}
  Quantities = {0, 1}
  DedupCapacity = 2
  MaxUpdate = 3
  MaxStream = 3
  MaxRepeats = 1
SPECIFICATION SpecShown
INVARIANTS TypeOK HealthTellsSync OneFetch NoEventLeftOut
PROPERTIES GapStartsFetch 
SYMMETRY PriceSymmetry
