\* Every list of up to three connections between three sources and three sinks,
\* and what may be remembered of their names.
SPECIFICATION FairSpec
CONSTANTS
  SubOut = {out1, out2}
  SubIn = {in1, in2}
  OwnIn = {port_in}
  OwnOut = {port_out}
  MaxConns = 3
  MaxElsewhere = 2
  MaxHeard = 2
INVARIANTS
  ConnectionsRealised
  NoStrayConnection
PROPERTIES
  LinkedComesUp
\* The run ends when the component is up, or dead.
CHECK_DEADLOCK FALSE
