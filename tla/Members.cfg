CONSTANTS
  N = 4
  Jobs = 2
  Graphs <- MCGraphs
  Works <- MCWorks
SPECIFICATION Spec
INVARIANTS UpstreamFirst NothingHidden FirstErrorWins RanInBuildOrder
PROPERTIES Terminates AsOneAfterTheOther
