\* Two subscribers of a ring of two, six messages.
SPECIFICATION Spec
CONSTANTS
  Subscribers = {r1, r2}
  Slots = 2
  MaxSent = 6
INVARIANTS
  UnreadKept
PROPERTIES
  ImplementsStream
  NewestArrives
\* The producer ends, and so may the subscribers.
CHECK_DEADLOCK FALSE
