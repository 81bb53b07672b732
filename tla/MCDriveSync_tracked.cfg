SPECIFICATION FairSpec
CONSTANTS
  Item = {a, b}
  Native = {b}
  Folder = {root}
  Name = {x, y}
  DriveContent = {d1, d2}
  UserContent = {}
  None = None
  Run = {r1, r2}
  Root = root
  SubFolders <- MCFlat
  Overwrite = {FALSE}
  Env = {"rename"}
  MaxDriveSteps = 2
  MaxUserSteps = 0
INVARIANT TrackedNeverConflicts
PROPERTIES RunEnds SavedIsTrue
