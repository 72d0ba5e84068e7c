\* Periods of one to three ticks, delays of up to four ticks and two messages.
SPECIFICATION FairSpec
CONSTANTS
  MaxPeriod = 3
  MaxLate = 4
  MaxUnderway = 2
INVARIANTS
  TypeOK
  OnGrid
  BacklogBounded
PROPERTIES
  Drains
