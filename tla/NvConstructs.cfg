\* Programs with every construct and programs with none, one arm for each try, a
\* stack of handlers' errors that overflows; up to seven iterations on up to four
\* threads.
SPECIFICATION ConstructsSpec
CONSTANTS
  Type = {"A", "B"}
  MaxErrors = 2
  MaxFrames = 3
  MaxArms = 1
  MaxDepth = 3
  MaxHandlers = 1
  FeatureSets = {{}, {"try_in_handler", "try_while_pending", "raise_in_outermost_handler", "return_in_try"}}
  MaxWorkers = 4
  IntMax = 7
  Wanted <- MCWanted
  CpuCounts <- MCCpuCounts
  FreeSlots <- MCFreeSlots
INVARIANTS
  DepthAccounted PendingIsWatched NoAbortInsideTry
  PlainCatchesOwnBody PlainFinallyRan
  AtMostOnce RefCountExact ReturnsComplete
\* A program that has reported an error and a call that has returned stop.
CHECK_DEADLOCK FALSE
