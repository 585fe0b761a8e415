\* Two processes, nobody killed, no write failing.
SPECIFICATION Spec
CONSTANTS
  Threads = {"t1", "t3"}
  Processes = {"p1", "p2"}
  Home <- OneAndOne
  Results = {1}
  MaxSize = 2
  MaxCalls = 1
  MayCrash = FALSE
  MayBeFull = FALSE
INVARIANT NeverCorrupted
