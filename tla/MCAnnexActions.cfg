\* Expressions of up to four operators over two integers and two truth values;
\* two components, up to four actions.
SPECIFICATION TranslationSpec
CONSTANTS
  IntVars = {"a", "b"}
  BoolVars = {"p", "r"}
  Port = "q"
  Values <- MCValues
  Models <- MCModels
  Lower <- MCLower
  NoneNames = {"none_left"}
  Declared <- MCDeclared
  Opened <- Flat
  Reads <- ReadWhole
  Tree <- ReadTree
  Rust <- Compiled
  Typing <- TypeOf
  Within <- Parts
  Same <- SameValue
  Loses <- KnownLoss
  Covers <- Supported
INVARIANTS
  LostOnlyWhereKnown
  SupportedAccepted
