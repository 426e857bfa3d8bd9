SPECIFICATION FairSpec
CONSTANTS
  New = amd64
  Images = {amd64, arm64}
  Workers = 1
  Worlds <- MCWorlds
  None = None
  Files = {readme, imagedoc}
  ImageFiles = {imagedoc}
  MaxRuns = 2
INVARIANTS FilesArePrefixes CompleteIsWhole PushedIsTheImage OkMeansPushed
PROPERTIES NothingIsThrownAway Ends
CHECK_DEADLOCK FALSE
