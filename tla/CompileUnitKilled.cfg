CONSTANTS
  Base = Base
  Heir = Heir
  User = User
  Sources <- MCSources
  Content <- MCContent
  Settings = {1, 2}
  Rounds = 2
  Trials <- MCKilledTrials
SPECIFICATION Spec
INVARIANTS AsAWholeBuild
