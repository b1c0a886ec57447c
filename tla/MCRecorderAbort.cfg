SPECIFICATION FairSpec
CONSTANTS
  Producers = {p1}
  Keys = {}
  Plain = Plain
  MaxEvents = 3
  RingCapacity = 3
  FlushBytes = 2
  MaxPendingBytes = 2
  LineBytes = {1, 3}
  SpuriousWakes = FALSE
  Faults = {"write"}
PROPERTY
  AbortWakesProducers
CHECK_DEADLOCK FALSE
