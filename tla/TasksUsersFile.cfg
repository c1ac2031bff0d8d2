CONSTANTS
  gen = gen
  use = use
  lint = lint
  Tasks <- MCTasks
  Inputs <- MCInputs
  Cached = {gen}
  InTarget = {use, lint}
  Trials <- MCUserTrials
SPECIFICATION Spec
INVARIANT UsersFileStays
CHECK_DEADLOCK FALSE
