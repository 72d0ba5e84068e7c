\* Up to three connections: two of them may share a source or a sink.
SPECIFICATION FairSpec
CONSTANTS
  SubOut = {out1, out2}
  SubIn = {in1, in2}
  OwnIn = {port_in}
  OwnOut = {port_out}
  MaxConns = 3
  MaxElsewhere = 0
  MaxHeard = 0
INVARIANTS
  DocumentedWiring
\* The run ends when the component is up, or dead.
CHECK_DEADLOCK FALSE
