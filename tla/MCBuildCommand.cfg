\* Two builds with any two contexts, one edit.
CONSTANTS
  Known = {"os"}
  Builtin = {"print"}
  Sources = {"a", "b"}
  Dests = {"app", "lib"}
  Absent = Absent
  Texts <- MCTexts
  Configs <- MCConfigs
  Suites <- MCSuites
  MaxBuilds = 2
  MaxEdits = 1
SPECIFICATION Spec
INVARIANTS RepairedStillRuns SourcesKept ExitZeroIsEarned
\* The commands the bound allows are over.
CHECK_DEADLOCK FALSE
