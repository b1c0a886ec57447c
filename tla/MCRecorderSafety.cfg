SPECIFICATION Spec
CONSTANTS
  Producers = {p1, p2}
  Keys = {k1}
  Plain = Plain
  MaxEvents = 3
  RingCapacity = 3
  FlushBytes = 2
  MaxPendingBytes = 2
  LineBytes = {1, 3}
  SpuriousWakes = TRUE
  Faults = {"write", "report", "format"}
SYMMETRY Symmetry
INVARIANT
  TypeOK
  RingHoldsUnread
  EveryEventCounted
  QueueBounded
  InFlightInOrder
PROPERTY
  ImplementsEventLog
CHECK_DEADLOCK FALSE
