\* Seven annexes, two ports, up to two waiting messages on each.
SPECIFICATION FairAnnexSpec
CONSTANTS
  Automata <- MCAutomata
  Ports = {"p", "q"}
  MaxPending = 2
INVARIANTS
  MacroStepBounded
PROPERTIES
  RunsToCompletion
  ReleasedForEver
