CONSTANTS
  one = one
  two = two
  lib = lib
  run = run
  snap = snap
  Clients <- MCClients
  Jars <- MCJars
  Snapshots <- MCSnapshots
  Group <- MCGroup
  Claims <- MCClaims
  Local = {}
  Dated = {1}
  Damaged = {lib}
  Builds = 2
  Graph <- MCGraph
  Compiles <- MCCompiles
  Serving <- MCServing
  Trials <- MCTrials
SPECIFICATION Spec
INVARIANTS TrustedBytes PinsEveryJar RepeatsOffline PruneKeepsLocked RecordIsOfTheFile
CHECK_DEADLOCK FALSE
