CONSTANTS
  src = src
  root = root
  member = member
  Sources <- MCSources
  Manifests <- MCManifests
  Root = root
  Trials <- MCTrials
  MaxWrites = 4
SPECIFICATION Spec
INVARIANT OneProgram
PROPERTIES RunsAfterSaves NoticedIsRun
CHECK_DEADLOCK FALSE
