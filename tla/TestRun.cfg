CONSTANTS
  Classes <- MCClasses
  Others = {"jvm-args"}
  Scan <- MCScan
  Top <- MCTop
  Holds <- MCHolds
  Order <- MCOrder
  Trials <- MCTrials
SPECIFICATION Spec
INVARIANT AsAFullRun
PROPERTY CachedRunsPassed
CHECK_DEADLOCK FALSE
