SPECIFICATION MCSpec
CONSTANTS
  Symbols = {"A", "B"}
  Names = {"V"}
  Words <- MCWords
  Unset = Unset
  KnownEmpty = {}
  Opaque = {"shell"}
  Tests <- MCAllTests
  Values <- MCValues
  MaxDepth = 2
  MaxLines = 5
  TreeSymbols = {"B", "T", "I", "U"}
  Type <- MCType
  Numbers = {7, 8}
  Expressions <- MCExpressions
  ClauseLimits = {2, 100}
INVARIANTS
  Exact
  NothingLost
  ErrorsAreCertain
  EncodingExact
PROPERTIES
  DriftsOnlyInMaybeBranches
