\* Connections of one, two and three channels, four messages of two values.
SPECIFICATION FairSpec
CONSTANTS
  Msg = {a, b}
  Nothing = Nothing
  MaxHops = 3
  MaxSent = 4
INVARIANTS
  TypeOK
  InFlightInOrder
  Conservation
PROPERTIES
  ImplementsLink
  DrainsAfterFailure
\* Both ends may fail, and a producer may have sent all it wants to.
CHECK_DEADLOCK FALSE
