CONSTANTS
  Classes <- MCClasses
  Others = {"jvm-args"}
  Scan <- MCScan
  Top <- MCTop
  Holds <- MCHolds
  Order <- MCOrder
  Trials <- MCCrashTrials
SPECIFICATION Spec
INVARIANT AsAFullRun
CHECK_DEADLOCK FALSE
