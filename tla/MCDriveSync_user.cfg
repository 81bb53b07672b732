SPECIFICATION Spec
CONSTANTS
  Item = {a, b}
  Native = {}
  Folder = {root}
  Name = {x}
  DriveContent = {d1, d2}
  UserContent = {u}
  None = None
  Run = {r1, r2}
  Root = root
  SubFolders <- MCFlat
  Overwrite = {TRUE, FALSE}
  Env = {"crash", "rename", "revert", "loseState"}
  MaxDriveSteps = 1
  MaxUserSteps = 2
SYMMETRY MCSymmetry
INVARIANT IndexConsistent
PROPERTIES NoUserLoss
