CONSTANTS
  c1 = c1
  c2 = c2
  javac = javac
  plain = plain
  mocked = mocked
  Commands <- MCCommands
  Pids <- MCPids
  Javac = javac
  Deps <- MCDeps
  Trials <- MCTrials
SPECIFICATION Spec
INVARIANTS WholeArchives OnePerProject
PROPERTY MappedInTheEnd
