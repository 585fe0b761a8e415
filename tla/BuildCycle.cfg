\* Three runs of two cycles, edits of the workspace, crashes, the two stages
\* finishing in either order.
SPECIFICATION Spec
CONSTANTS
  Files = {"a", "b"}
  Scores = {0, 9}
  Window = 3
  Patience = 1
  TunerPatience = 2
  Cycles = 2
  MaxRuns = 3
  MaxEdits = 2
INVARIANTS  StateNeverAheadOfOutputs StagnationNeverPersisted
PROPERTY TunerStateIsCumulative
