SPECIFICATION Spec
CONSTANTS
  Item = {a}
  Native = {}
  Folder = {root}
  Name = {x}
  DriveContent = {d1, d2}
  UserContent = {u}
  None = None
  Run = {r1}
  Root = root
  SubFolders <- MCFlat
  Overwrite = {FALSE}
  Env = {"editInFlight"}
  MaxDriveSteps = 1
  MaxUserSteps = 1
PROPERTY NoUserLoss
