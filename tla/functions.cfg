SPECIFICATION Spec
CONSTANTS
  MaxMicrostep = 3
  MaxTime = 4
  MaxOffset = 2
  MaxBank = 3
  MaxWidth = 3
INVARIANTS
  DelayIsFirst
  SubtractIsLatest
  DecrementIsLast
  PairedByIndex
  OneSource
  AllPartnersConnected
