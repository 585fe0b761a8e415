\* Two tasks on four workers, two calls of one coordinator; a host can vanish
\* in mid-call and the cache can fail.
SPECIFICATION FairSpec
CONSTANTS
  Names <- MCNames
  Order <- MCOrder
  Kind <- MCKind
  Fallback = "local-fallback"
  NTasks = 2
  Id <- MCId
  Form <- MCForm
  Declares = {1}
  MaxAttempts = 3
  MaxDispatches = 2
  PutMayRaise = TRUE
  NodesMayVanish = TRUE
INVARIANTS NoRepeatWorker FallbackIsLastResort FailedEverywhere ReportInOrder
PROPERTIES ImplementsTaskPool DispatchEnds
\* a call on a host that vanished blocks its thread for good
CHECK_DEADLOCK FALSE
