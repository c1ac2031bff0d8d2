CONSTANTS
  a = a
  b = b
  jdk17 = jdk17
  jdk21 = jdk21
  Threads <- MCThreads
  First = a
  Keys <- MCKeys
  Commands <- MCCommands
  Compiles = 2
  Records = TRUE
  MaxJvms = 5
  MaxFaults = 1
SPECIFICATION Spec
INVARIANTS OneOwner OwnAnswer OneRecorder ArchiveFromGoodExit NothingOutlives
PROPERTIES EveryCompileEnds
