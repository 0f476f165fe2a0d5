\* Every import graph over three files and two calls on one manager; sessions of
\* five inputs; every program of MCNvDrops.
SPECIFICATION FrontEndSpec
CONSTANTS
  File = {"m", "a", "b", "strings"}
  Prelude = {"strings"}
  Spelling <- MCSpelling
  NameOf <- MCNameOf
  Target <- MCTarget
  StemOf <- MCStemOf
  Virtual = Virtual
  Missing = Missing
  ImportLists <- MCImportLists
  MaxCompiles = 2
  Func = {"f", "g"}
  Var = {"x", "y"}
  Cells <- MCCells
  MaxInputs = 5
  Programs <- MCPrograms
  MaxLuck = 5
  MaxObjects = 16
INVARIANTS
  CyclesRejected CyclesAreReal NoUseOfReplaced DependenciesFirst
  LatestDefinitions JustifiedIsAccepted OnlyJustifiedAccepted AcceptedRuns
  NoUseAfterFree CallerKeepsItsObjects TemporariesFreed OutputAsWritten
PROPERTIES
  CompileReturns
\* The last call, the last input and the function end.
CHECK_DEADLOCK FALSE
