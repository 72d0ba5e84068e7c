\* The models of the scheduling, and those of MCConversion: up to three
\* packages, two data types with the same name or different ones.
SPECIFICATION ConverterSpec
CONSTANTS
  Models <- AllModels
  Lower <- MCLower
  Begins <- MCBegins
  EndInImpl <- MCEndInImpl
  Foreign = {"c_t", "c_int"}
  Structs = {"c_t"}
INVARIANTS
  RunsAsDeclared
  CoresApart
  RatesInOrder
  CompleteAccepted
  MeansAsDeclared
  TypesAccepted
