CONSTANTS
  gen = gen
  use = use
  lint = lint
  Tasks <- MCTasks
  Inputs <- MCInputs
  Cached = {gen}
  InTarget = {use, lint}
  Trials <- MCTrials
SPECIFICATION Spec
INVARIANTS AsIfRun RestoreSparesEdits OnceInOrder
CHECK_DEADLOCK FALSE
