\* Two implementations in two packages, names apart or shared.
SPECIFICATION MCSpec
CONSTANTS
  T1 = T1
  T2 = T2
  t = t
  u = u
  P = P
  Q = Q
  a = a
  b = b
  c = c
  d = d
  Types <- MCTypes
  TypeNames <- MCTypeNames
  Ports = {"x", "y", "z"}
  Out <- MCOut
  NameSets <- MCNameSets
  Owners <- MCOwners
  OwnIn = {"x"}
  Self = Self
  NoType = NoType
  NPackages = 2
  NImpls = 2
  MaxConns = 2
INVARIANTS
  FieldsAgree
  GeneratorSurvives
  OwnEndsOnly
\* The generator ends with the last package, or with a panic.
CHECK_DEADLOCK FALSE
