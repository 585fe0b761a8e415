\* A chain of keys on one file, the last of them fingerprinted on it too.
SPECIFICATION MemoSpec
CONSTANTS
  Files = {"a"}
  Codes = {old, new}
  Keys = {"types", "unit", "link"}
  Deps <- ChainDeps
  Source <- ChainSource
  NoFile = "none"
  Opaque = {"types"}
  MaxReports = 2
  MaxRestarts = 1
SYMMETRY AnyCode
INVARIANTS SourceNeverStale FreshUntilRestart
