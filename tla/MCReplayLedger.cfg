\* Three threads of two processes, two operations each, kills and full disks.
SPECIFICATION Spec
CONSTANTS
  Threads = {"t1", "t2", "t3"}
  Processes = {"p1", "p2"}
  Home <- TwoAndOne
  Results = {1, 2}
  MaxSize = 2
  MaxCalls = 2
  MayCrash = TRUE
  MayBeFull = TRUE
INVARIANT WritersAlone
PROPERTY ImplementsReplayStore
