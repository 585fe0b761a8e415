CONSTANTS
  Threading = {"threading"}
  Hardware = {"mmap"}
  Gpu = {"numba"}
  Stdlib = {"threading", "mmap", "json"}
  MaxNodes = 5
  MaxFamily = 2
  Sources = {"a/util.py", "b/util.py"}
  Base <- MCBase
  Versions <- MCVersions
  Names <- MCNames
  Untested <- MCUntested
  Scans <- MCScans
  MaxEdits = 1
  MaxRuns = 2
SPECIFICATION Spec
INVARIANTS ColdStaysOut RejectedLeavesNoRecipe MeshWithinGuardrails
\* The runs the bound allows are over.
CHECK_DEADLOCK FALSE
