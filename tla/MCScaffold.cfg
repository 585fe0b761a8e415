\* Builds into one directory, kills, an edit of the source.
SPECIFICATION Spec
CONSTANTS
  Requests <- AllRequests
  Sources <- AllSources
  max_retries = 1
  MaxEdits = 1
  MaxBuilds = 2
INVARIANTS BuildsWhatItRead CorrectionsAnswerErrors NothingLost NamesBound
PROPERTY NothingUncompiledIsLeft
\* the bounds on builds and edits are reached
CHECK_DEADLOCK FALSE
