CONSTANTS
  Members <- MCThree
  ModuleEdges <- MCModuleEdges
  Artifacts = {"a", "b", "c", "d", "p", "q"}
  Versions = {1, 2}
  Poms <- MCPoms
  Star = "*"
  NoVersion = 0
  VersionRange = 9
  Placeholders = {101, 102}
  OwnVersion = 101
  MaxParents = 3
  MaxImports = 2
  MaxChained = 2
  MaxDepth = 64
  Workspaces <- MCWorkspaces
SPECIFICATION Spec
INVARIANTS BuildableOrder CycleIsReal LandsWhereRootsPutIt NearestWins ShareKeepsAll
PROPERTIES Loads
