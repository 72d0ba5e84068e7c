\* Two ports, two levels of urgency, three messages on each port.
SPECIFICATION FairSpec
CONSTANTS
  NPorts = 2
  MaxUrgency = 1
  Period = 2
  MaxArrivals = 3
INVARIANTS
  TypeOK
  EachOnceInOrder
  BoundedOvertaking
  BoundedInversion
PROPERTIES
  SporadicSeparation
  EveryEventExecuted
  TimedReacts
\* All messages may have arrived and been executed.
CHECK_DEADLOCK FALSE
